----------------------- MODULE ReferenceDeliveryProofs ----------------------
(***************************************************************************)
(* ReferenceDelivery for every placement, every number of paths and        *)
(* requests, and every bound on the journal: retention never removes a     *)
(* record that some destination has yet to apply, references are conserved *)
(* at every owner, the bytes of a stored version are kept somewhere, and   *)
(* the state keeps its types.  Each result uses the invariants of the      *)
(* ones before it.                                                         *)
(***************************************************************************)
EXTENDS ReferenceDelivery, FiniteSetTheorems, WellFoundedInduction, TLAPS

JournalRecord(S) ==
    [log : Seq(S), floor : Nat, settled : Nat, referenceSafe : Nat, derived : Nat]

PassRecord ==
    [phase : {"idle", "read", "apply"}, seen : [Nodes -> Nat], through : Nat,
     todo : SUBSET Nodes, failed : BOOLEAN]

(* The types that the argument needs.                                      *)
Shaped ==
    /\ \E S : journal \in [Nodes -> JournalRecord(S)]
    /\ cursor \in [Nodes -> [Nodes -> Nat]]
    /\ pass \in [Nodes -> PassRecord]

(* The reference-safe cut in memory, like the floor, is behind every       *)
(* destination's durable cursor.                                           *)
CutsOK ==
    \A s, d \in Nodes :
        /\ journal[s].floor <= cursor[d][s]
        /\ journal[s].referenceSafe <= cursor[d][s]
        /\ cursor[d][s] <= TailOf(s)

(* What a pass has seen of a destination is of the past, and a batch it    *)
(* still has to send lies between that and the tail.                       *)
PassOK ==
    \A s, d \in Nodes :
        /\ pass[s].seen[d] <= cursor[d][s]
        /\ pass[s].through <= TailOf(s)
        /\ d \in pass[s].todo => pass[s].seen[d] < pass[s].through

(* The inductive invariant.                                                *)
DeliveryInv == Shaped /\ CutsOK /\ PassOK

LEMMA NumbersWellFounded ==
    IsWellFoundedOn({ss \in Nat \X Nat : ss[1] < ss[2]}, Nat)
  BY NatLessThanWellFounded, Zenon DEF OpToRel

(* Every set of numbers has a least one, also one without a bound on its   *)
(* size.                                                                   *)
LEMMA LeastNumber ==
    ASSUME NEW T \in SUBSET Nat, T # {}
    PROVE  Min(T) \in T /\ \A x \in T : Min(T) <= x
  <1>1. PICK x \in T : \A y \in T : ~(<<y, x>> \in {ss \in Nat \X Nat : ss[1] < ss[2]})
    BY NumbersWellFounded, WFMin
  <1>2. ASSUME NEW y \in T, ~(x <= y)  PROVE FALSE
    <2>1. <<y, x>> \in Nat \X Nat /\ y < x BY <1>2
    <2>2. <<y, x>>[1] = y /\ <<y, x>>[2] = x OBVIOUS
    <2>3. <<y, x>> \in {ss \in Nat \X Nat : ss[1] < ss[2]} BY <2>1, <2>2
    <2> QED BY <1>1, <2>3
  <1>3. x \in T /\ \A y \in T : x <= y BY <1>2
  <1> QED BY <1>3 DEF Min

LEMMA SafeThroughBound ==
    ASSUME NEW S, NEW j \in JournalRecord(S)
    PROVE  /\ SafeThrough(j) \in Nat
           /\ SafeThrough(j) <= j.referenceSafe /\ SafeThrough(j) <= j.derived
  <1>1. j.settled \in Nat /\ j.referenceSafe \in Nat /\ j.derived \in Nat BY DEF JournalRecord
  <1> QED BY <1>1 DEF SafeThrough, Min

(* A retention pass removes no record above the cuts.                      *)
LEMMA PruneCountBound ==
    ASSUME NEW S, NEW j \in JournalRecord(S), NEW force \in BOOLEAN
    PROVE  /\ PruneCount(j, force) \in Nat
           /\ \/ PruneCount(j, force) = 0
              \/ /\ j.floor + PruneCount(j, force) <= j.referenceSafe
                 /\ j.floor + PruneCount(j, force) <= j.derived
  <1> DEFINE over == Len(j.log) - MaxRetained
             wanted == IF over > 0 THEN over ELSE IF force THEN 1 ELSE 0
             allowed == SafeThrough(j) - j.floor
  <1>1. /\ Len(j.log) \in Nat /\ j.floor \in Nat /\ MaxRetained \in Nat
        /\ j.referenceSafe \in Nat /\ j.derived \in Nat
    BY GraceAssumption DEF JournalRecord
  <1>2. /\ SafeThrough(j) \in Nat
        /\ SafeThrough(j) <= j.referenceSafe /\ SafeThrough(j) <= j.derived
    BY SafeThroughBound
  <1>3. wanted \in Nat /\ allowed \in Int BY <1>1, <1>2
  <1>4. PruneCount(j, force) = IF allowed <= 0 THEN 0 ELSE Min({wanted, allowed})
    BY DEF PruneCount
  <1> HIDE DEF wanted
  <1>5. CASE allowed > 0
    <2>1. Min({wanted, allowed}) \in {wanted, allowed} /\ Min({wanted, allowed}) <= allowed
      BY <1>3, <1>5 DEF Min
    <2> QED BY <1>1, <1>2, <1>3, <1>4, <1>5, <2>1
  <1> QED BY <1>3, <1>4, <1>5

(* Sequences of any kind of elements. *)
LEMMA AppendShape ==
    ASSUME NEW S, NEW l \in Seq(S), NEW e
    PROVE  Append(l, e) \in Seq(S \cup {e}) /\ Len(Append(l, e)) = Len(l) + 1
  OBVIOUS

(* A sequence without its first k elements, followed by another one. *)
Kept(l, k, r) == SubSeq(l, k + 1, Len(l)) \o r
KeptShape(S, R, l, k, r) ==
    Kept(l, k, r) \in Seq(S \cup R) /\ Len(Kept(l, k, r)) = Len(l) - k + Len(r)

LEMMA SuffixShape ==
    ASSUME NEW S, NEW R, NEW l \in Seq(S), NEW r \in Seq(R), NEW k \in Nat, k <= Len(l)
    PROVE  KeptShape(S, R, l, k, r)
  <1>1. SubSeq(l, k + 1, Len(l)) \in Seq(S) /\ Len(SubSeq(l, k + 1, Len(l))) = Len(l) - k
    OBVIOUS
  <1> DEFINE t == SubSeq(l, k + 1, Len(l))
  <1> HIDE DEF t
  <1>2. t \in Seq(S \cup R) /\ r \in Seq(S \cup R)
    BY <1>1 DEF t
  <1>3. t \o r \in Seq(S \cup R) /\ Len(t \o r) = Len(t) + Len(r) BY <1>2
  <1> QED BY <1>1, <1>3 DEF t, Kept, KeptShape

LEMMA ReleasesShape ==
    ASSUME NEW S, NEW j \in JournalRecord(S), NEW force \in BOOLEAN
    PROVE  DelayedReleases(j, force) \in Seq({Lifecycle(-1), Lifecycle(0)})
  <1> DEFINE retired == {v \in PrunedPending(j, force) : ~IsCurrent(v)}
             events == {i \in 1..PruneCount(j, force) : \E v \in retired : v.id = j.log[i].id}
             holds(record) == \E v \in retired : v.id = record.id /\ v.put
             R == {Lifecycle(-1), Lifecycle(0)}
  <1>1. DelayedReleases(j, force) =
          [m \in 1..Cardinality(events) |->
             Lifecycle(IF holds(j.log[Nth(events, m)]) THEN -1 ELSE 0)]
    BY DEF DelayedReleases
  <1>2. PruneCount(j, force) \in Nat BY PruneCountBound
  <1>3. Cardinality(events) \in Nat
    <2>1. IsFiniteSet(1..PruneCount(j, force)) BY <1>2, FS_Interval
    <2> QED BY <2>1, FS_Subset, FS_CardinalityType
  <1> DEFINE delta(m) == IF holds(j.log[Nth(events, m)]) THEN -1 ELSE 0
             value(m) == Lifecycle(delta(m))
  <1>4. \A m : value(m) \in R
    <2> SUFFICES ASSUME NEW m PROVE value(m) \in R OBVIOUS
    <2>1. delta(m) \in {-1, 0} OBVIOUS
    <2> HIDE DEF delta
    <2> QED BY <2>1
  <1>5. DelayedReleases(j, force) = [m \in 1..Cardinality(events) |-> value(m)] BY <1>1
  <1> HIDE DEF events, value, R
  <1>6. PICK c \in Nat : c = Cardinality(events) BY <1>3
  <1>7. DelayedReleases(j, force) \in [1..c -> R] BY <1>4, <1>5, <1>6
  <1>8. DelayedReleases(j, force) \in Seq(R) BY <1>7
  <1> QED BY <1>8 DEF R

(* A retention pass moves the floor by what it removes, and no further than *)
(* the reference-safe cut; the tail only grows, by the delayed releases.    *)
LEMMA PrunedFacts ==
    ASSUME NEW S, NEW j \in JournalRecord(S), NEW force \in BOOLEAN,
           j.referenceSafe <= j.floor + Len(j.log)
    PROVE  \E T : \E k \in JournalRecord(T) :
             /\ Pruned(j, force) = k
             /\ k.referenceSafe = j.referenceSafe
             /\ k.floor = j.floor \/ k.floor <= j.referenceSafe
             /\ j.floor + Len(j.log) <= k.floor + Len(k.log)
  <1>1. /\ j.log \in Seq(S) /\ Len(j.log) \in Nat /\ j.floor \in Nat /\ j.referenceSafe \in Nat
        /\ j.settled \in Nat /\ j.derived \in Nat
        /\ j = [log |-> j.log, floor |-> j.floor, settled |-> j.settled,
                referenceSafe |-> j.referenceSafe, derived |-> j.derived]
    BY DEF JournalRecord
  <1>2. PICK c \in Nat : c = PruneCount(j, force) /\ (c = 0 \/ j.floor + c <= j.referenceSafe)
    BY PruneCountBound
  <1>3. PICK R : DelayedReleases(j, force) \in Seq(R) BY ReleasesShape
  <1>4. PICK r \in Seq(R) : r = DelayedReleases(j, force) BY <1>3
  <1>5. c <= Len(j.log) BY <1>1, <1>2
  <1> DEFINE kept == Kept(j.log, c, r)
  <1>6. kept \in Seq(S \cup R) /\ Len(kept) = Len(j.log) - c + Len(r)
    <2>1. PICK g \in Seq(S) : g = j.log BY <1>1
    <2>2. c <= Len(g) BY <1>5, <2>1
    <2>3. KeptShape(S, R, g, c, r) BY <2>2, SuffixShape, Zenon
    <2> QED BY <2>1, <2>3 DEF KeptShape
  <1> DEFINE k == [log |-> kept, floor |-> j.floor + c, settled |-> j.settled,
                   referenceSafe |-> j.referenceSafe, derived |-> j.derived]
  <1>7. Pruned(j, force) = [j EXCEPT !.log = kept, !.floor = j.floor + c]
    BY <1>2, <1>4 DEF Pruned, Kept
  <1> HIDE DEF kept
  <1>8. Pruned(j, force) = k BY <1>1, <1>7
  <1>9. k \in JournalRecord(S \cup R) BY <1>1, <1>6 DEF JournalRecord
  <1>10. Len(r) \in Nat BY <1>4
  <1>11. k.log = kept /\ k.floor = j.floor + c /\ k.referenceSafe = j.referenceSafe OBVIOUS
  <1> HIDE DEF k
  <1>12. k.floor = j.floor \/ k.floor <= j.referenceSafe BY <1>1, <1>2, <1>11
  <1>13. j.floor + Len(j.log) <= k.floor + Len(k.log) BY <1>1, <1>6, <1>10, <1>11
  <1> QED BY <1>8, <1>9, <1>11, <1>12, <1>13

-----------------------------------------------------------------------------
(* What any step does to the journals, the cursors and the passes.          *)

(* Tails only grow, and floors and reference-safe cuts stay behind the      *)
(* cursors the destinations already have.                                   *)
JournalMoves ==
    /\ \E S : journal' \in [Nodes -> JournalRecord(S)]
    /\ \A s \in Nodes : TailOf(s) <= TailOf(s)'
    /\ \A s, d \in Nodes :
        journal'[s].floor <= cursor[d][s] /\ journal'[s].referenceSafe <= cursor[d][s]

(* Cursors only advance, and never past the tail.                           *)
CursorMoves ==
    /\ cursor' \in [Nodes -> [Nodes -> Nat]]
    /\ \A s, d \in Nodes : cursor[d][s] <= cursor'[d][s] /\ cursor'[d][s] <= TailOf(s)'

PassMoves == pass' \in [Nodes -> PassRecord] /\ PassOK'

LEMMA TailNumber ==
    ASSUME Shaped, NEW s \in Nodes
    PROVE  /\ TailOf(s) \in Nat /\ Len(journal[s].log) \in Nat
           /\ journal[s].floor \in Nat /\ journal[s].settled \in Nat
           /\ journal[s].referenceSafe \in Nat /\ journal[s].derived \in Nat
           /\ \E S : journal[s] \in JournalRecord(S) /\ journal[s].log \in Seq(S)
  <1>1. PICK S : journal \in [Nodes -> JournalRecord(S)] BY DEF Shaped
  <1>2. journal[s] \in JournalRecord(S) BY <1>1
  <1>3. /\ journal[s].log \in Seq(S) /\ journal[s].floor \in Nat /\ journal[s].settled \in Nat
        /\ journal[s].referenceSafe \in Nat /\ journal[s].derived \in Nat
    BY <1>2 DEF JournalRecord
  <1>4. Len(journal[s].log) \in Nat BY <1>3
  <1> QED BY <1>2, <1>3, <1>4 DEF TailOf

LEMMA TailNumberNext ==
    ASSUME JournalMoves, NEW s \in Nodes
    PROVE  TailOf(s)' \in Nat /\ journal'[s].floor \in Nat /\ journal'[s].referenceSafe \in Nat
  <1>1. PICK S : journal' \in [Nodes -> JournalRecord(S)] BY DEF JournalMoves
  <1>2. journal'[s] \in JournalRecord(S) BY <1>1
  <1>3. journal'[s].log \in Seq(S) /\ journal'[s].floor \in Nat /\ journal'[s].referenceSafe \in Nat
    BY <1>2 DEF JournalRecord
  <1>4. Len(journal'[s].log) \in Nat BY <1>3
  <1> QED BY <1>3, <1>4 DEF TailOf

LEMMA MovesPreserve ==
    ASSUME DeliveryInv, JournalMoves, CursorMoves, PassMoves
    PROVE  DeliveryInv'
  <1>1. Shaped' BY DEF Shaped, JournalMoves, CursorMoves, PassMoves
  <1>2. CutsOK'
    <2> SUFFICES ASSUME NEW s \in Nodes, NEW d \in Nodes
                 PROVE  /\ journal'[s].floor <= cursor'[d][s]
                        /\ journal'[s].referenceSafe <= cursor'[d][s]
                        /\ cursor'[d][s] <= TailOf(s)'
      BY DEF CutsOK, TailOf
    <2>1. cursor[d][s] \in Nat /\ cursor'[d][s] \in Nat BY DEF DeliveryInv, Shaped, CursorMoves
    <2>2. journal'[s].floor <= cursor[d][s] /\ journal'[s].referenceSafe <= cursor[d][s]
      BY DEF JournalMoves
    <2>3. cursor[d][s] <= cursor'[d][s] /\ cursor'[d][s] <= TailOf(s)' BY DEF CursorMoves
    <2> QED BY <2>1, <2>2, <2>3, TailNumberNext
  <1> QED BY <1>1, <1>2 DEF DeliveryInv, PassMoves

-----------------------------------------------------------------------------
(* The kinds of moves that the actions are made of.                         *)

LEMMA WiderJournal ==
    ASSUME NEW S, NEW T, NEW j \in JournalRecord(S)
    PROVE  j \in JournalRecord(S \cup T)
  <1>1. j.log \in Seq(S \cup T)
    <2>1. PICK g \in Seq(S) : g = j.log BY DEF JournalRecord
    <2>2. g \in Seq(S \cup T) OBVIOUS
    <2> QED BY <2>1, <2>2
  <1> QED BY <1>1 DEF JournalRecord

(* One journal changes.                                                     *)
LEMMA JournalUpdate ==
    ASSUME DeliveryInv, NEW n \in Nodes, NEW T, NEW k \in JournalRecord(T),
           journal' = [journal EXCEPT ![n] = k],
           TailOf(n) <= k.floor + Len(k.log),
           \A d \in Nodes : k.floor <= cursor[d][n] /\ k.referenceSafe <= cursor[d][n]
    PROVE  JournalMoves /\ TailOf(n)' = k.floor + Len(k.log)
                        /\ \A s \in Nodes \ {n} : TailOf(s)' = TailOf(s)
  <1>1. PICK S : journal \in [Nodes -> JournalRecord(S)] BY DEF DeliveryInv, Shaped
  <1>2. journal'[n] = k /\ \A s \in Nodes \ {n} : journal'[s] = journal[s] BY <1>1
  <1>3. TailOf(n)' = k.floor + Len(k.log) /\ \A s \in Nodes \ {n} : TailOf(s)' = TailOf(s)
    BY <1>2 DEF TailOf
  <1>4. journal' \in [Nodes -> JournalRecord(S \cup T)]
    <2>1. k \in JournalRecord(S \cup T)
      <3>1. k \in JournalRecord(T \cup S) BY WiderJournal, Zenon
      <3>2. T \cup S = S \cup T OBVIOUS
      <3> QED BY <3>1, <3>2
    <2>2. ASSUME NEW s \in Nodes PROVE journal[s] \in JournalRecord(S \cup T)
      <3>1. journal[s] \in JournalRecord(S) BY <1>1
      <3> QED BY <3>1, WiderJournal, Zenon
    <2>3. journal' = [s \in Nodes |-> IF s = n THEN k ELSE journal[s]] BY <1>1
    <2> HIDE DEF JournalRecord
    <2> QED BY <2>1, <2>2, <2>3
  <1>5. \A s \in Nodes : TailOf(s) <= TailOf(s)'
    <2> SUFFICES ASSUME NEW s \in Nodes PROVE TailOf(s) <= TailOf(s)' OBVIOUS
    <2>1. TailOf(s) \in Nat BY TailNumber DEF DeliveryInv
    <2> QED BY <1>3, <2>1
  <1>6. \A s, d \in Nodes :
          journal'[s].floor <= cursor[d][s] /\ journal'[s].referenceSafe <= cursor[d][s]
    BY <1>2 DEF DeliveryInv, CutsOK
  <1> QED BY <1>3, <1>4, <1>5, <1>6 DEF JournalMoves

LEMMA JournalKept ==
    ASSUME DeliveryInv, journal' = journal
    PROVE  JournalMoves /\ \A s \in Nodes : TailOf(s)' = TailOf(s)
  <1>1. \A s \in Nodes : TailOf(s)' = TailOf(s) BY DEF TailOf
  <1>2. \A s \in Nodes : TailOf(s) <= TailOf(s)'
    <2> SUFFICES ASSUME NEW s \in Nodes PROVE TailOf(s) <= TailOf(s)' OBVIOUS
    <2>1. TailOf(s) \in Nat BY TailNumber DEF DeliveryInv
    <2> QED BY <1>1, <2>1
  <1>3. \E S : journal' \in [Nodes -> JournalRecord(S)] BY DEF DeliveryInv, Shaped
  <1>4. \A s, d \in Nodes :
          journal'[s].floor <= cursor[d][s] /\ journal'[s].referenceSafe <= cursor[d][s]
    BY DEF DeliveryInv, CutsOK
  <1> QED BY <1>1, <1>2, <1>3, <1>4 DEF JournalMoves

LEMMA CursorKept ==
    ASSUME DeliveryInv, JournalMoves, cursor' = cursor
    PROVE  CursorMoves
  <1>1. ASSUME NEW s \in Nodes, NEW d \in Nodes
        PROVE  cursor[d][s] <= cursor'[d][s] /\ cursor'[d][s] <= TailOf(s)'
    <2>1. cursor[d][s] \in Nat BY DEF DeliveryInv, Shaped
    <2>2. cursor[d][s] <= TailOf(s) /\ TailOf(s) <= TailOf(s)'
      BY DEF DeliveryInv, CutsOK, JournalMoves
    <2> QED BY <2>1, <2>2, TailNumber, TailNumberNext DEF DeliveryInv
  <1> QED BY <1>1 DEF CursorMoves, DeliveryInv, Shaped

(* One cursor advances, at most to the tail.                                *)
LEMMA CursorUpdate ==
    ASSUME DeliveryInv, JournalMoves, NEW d \in Nodes, NEW s \in Nodes, NEW c \in Nat,
           cursor' = [cursor EXCEPT ![d][s] = c],
           cursor[d][s] <= c, c <= TailOf(s)'
    PROVE  CursorMoves
  <1>1. cursor \in [Nodes -> [Nodes -> Nat]] BY DEF DeliveryInv, Shaped
  <1>2. cursor' \in [Nodes -> [Nodes -> Nat]] BY <1>1
  <1>3. ASSUME NEW t \in Nodes, NEW e \in Nodes
        PROVE  cursor[e][t] <= cursor'[e][t] /\ cursor'[e][t] <= TailOf(t)'
    <2>1. cursor[e][t] \in Nat BY <1>1
    <2>2. cursor[e][t] <= TailOf(t) /\ TailOf(t) <= TailOf(t)'
      BY DEF DeliveryInv, CutsOK, JournalMoves
    <2>3. TailOf(t) \in Nat /\ TailOf(t)' \in Nat BY TailNumber, TailNumberNext DEF DeliveryInv
    <2>4. cursor'[e][t] = IF e = d /\ t = s THEN c ELSE cursor[e][t] BY <1>1
    <2> QED BY <2>1, <2>2, <2>3, <2>4
  <1> QED BY <1>2, <1>3 DEF CursorMoves

(* What holds of a pass holds after the other variables have moved.         *)
LEMMA PassKeptAt ==
    ASSUME DeliveryInv, JournalMoves, CursorMoves, NEW s \in Nodes, NEW d \in Nodes,
           pass'[s] = pass[s]
    PROVE  /\ pass'[s] \in PassRecord
           /\ pass'[s].seen[d] <= cursor'[d][s]
           /\ pass'[s].through <= TailOf(s)'
           /\ d \in pass'[s].todo => pass'[s].seen[d] < pass'[s].through
  <1>1. pass[s] \in PassRecord BY DEF DeliveryInv, Shaped
  <1>2. pass[s].seen[d] \in Nat /\ pass[s].through \in Nat BY <1>1 DEF PassRecord
  <1>3. cursor[d][s] \in Nat /\ cursor'[d][s] \in Nat /\ cursor[d][s] <= cursor'[d][s]
    BY DEF DeliveryInv, Shaped, CursorMoves
  <1>4. TailOf(s) \in Nat /\ TailOf(s)' \in Nat /\ TailOf(s) <= TailOf(s)'
    BY TailNumber, TailNumberNext DEF DeliveryInv, JournalMoves
  <1>5. /\ pass[s].seen[d] <= cursor[d][s]
        /\ pass[s].through <= TailOf(s)
        /\ d \in pass[s].todo => pass[s].seen[d] < pass[s].through
    BY DEF DeliveryInv, PassOK
  <1> QED BY <1>1, <1>2, <1>3, <1>4, <1>5

LEMMA PassKept ==
    ASSUME DeliveryInv, JournalMoves, CursorMoves, pass' = pass
    PROVE  PassMoves
  <1>1. PassOK' BY PassKeptAt DEF PassOK, TailOf
  <1> QED BY <1>1 DEF PassMoves, DeliveryInv, Shaped

(* One pass changes.                                                        *)
LEMMA PassUpdate ==
    ASSUME DeliveryInv, JournalMoves, CursorMoves, NEW s \in Nodes, NEW q \in PassRecord,
           pass' = [pass EXCEPT ![s] = q],
           q.through <= TailOf(s)',
           \A d \in Nodes : /\ q.seen[d] <= cursor'[d][s]
                            /\ d \in q.todo => q.seen[d] < q.through
    PROVE  PassMoves
  <1>1. pass \in [Nodes -> PassRecord] BY DEF DeliveryInv, Shaped
  <1>2. pass'[s] = q /\ \A t \in Nodes \ {s} : pass'[t] = pass[t] BY <1>1
  <1>3. pass' \in [Nodes -> PassRecord] BY <1>1
  <1>4. ASSUME NEW t \in Nodes, NEW d \in Nodes
        PROVE  /\ pass'[t].seen[d] <= cursor'[d][t]
               /\ pass'[t].through <= TailOf(t)'
               /\ d \in pass'[t].todo => pass'[t].seen[d] < pass'[t].through
    <2>1. CASE t = s BY <1>2, <2>1
    <2>2. CASE t # s BY <1>2, <2>2, PassKeptAt
    <2> QED BY <2>1, <2>2
  <1>5. PassOK' BY <1>4 DEF PassOK, TailOf
  <1> QED BY <1>3, <1>5 DEF PassMoves

LEMMA PassEnds ==
    ASSUME DeliveryInv, JournalMoves, CursorMoves, NEW s \in Nodes,
           pass' = [pass EXCEPT ![s] = IdlePass]
    PROVE  PassMoves
  <1>1. PICK q \in PassRecord : q = IdlePass BY DEF PassRecord, IdlePass
  <1>2. q.through = 0 /\ q.todo = {} /\ \A d \in Nodes : q.seen[d] = 0 BY <1>1 DEF IdlePass
  <1>3. TailOf(s)' \in Nat BY TailNumberNext
  <1>4. \A d \in Nodes : cursor'[d][s] \in Nat BY DEF CursorMoves
  <1>5. /\ q.through <= TailOf(s)'
        /\ \A d \in Nodes : q.seen[d] <= cursor'[d][s] /\ (d \in q.todo => q.seen[d] < q.through)
    BY <1>2, <1>3, <1>4
  <1>6. pass' = [pass EXCEPT ![s] = q] BY <1>1
  <1> QED BY <1>5, <1>6, PassUpdate

LEMMA JournaledNodes ==
    Journaled \subseteq Nodes /\ \A p \in Paths : Coordinator[p] \in Nodes
  BY PlacementAssumption DEF Journaled

(* A settled record appended on n, with the cursor that follows it.         *)
LEMMA InertMoves ==
    ASSUME DeliveryInv, NEW n \in Nodes, journal' = [journal EXCEPT ![n] = AppendInert(n)]
    PROVE  /\ JournalMoves
           /\ SelfCursor(n) \in Nat
           /\ cursor[n][n] <= SelfCursor(n) /\ SelfCursor(n) <= TailOf(n)'
  <1>1. PICK S : journal[n] \in JournalRecord(S) /\ journal[n].log \in Seq(S)
    BY TailNumber DEF DeliveryInv
  <1>2. /\ TailOf(n) \in Nat /\ Len(journal[n].log) \in Nat
        /\ journal[n].floor \in Nat /\ journal[n].settled \in Nat
        /\ journal[n].referenceSafe \in Nat /\ journal[n].derived \in Nat
    BY TailNumber DEF DeliveryInv
  <1>3. cursor[n][n] \in Nat /\ cursor[n][n] <= TailOf(n) BY DEF DeliveryInv, Shaped, CutsOK
  <1>4. \A d \in Nodes : journal[n].floor <= cursor[d][n] /\ journal[n].referenceSafe <= cursor[d][n]
    BY DEF DeliveryInv, CutsOK
  <1>5. CASE n \notin Journaled
    <2>1. PICK k \in JournalRecord(S) : k = journal[n] BY <1>1
    <2>2. journal' = [journal EXCEPT ![n] = k] BY <1>5, <2>1 DEF AppendInert
    <2>3. TailOf(n) = k.floor + Len(k.log) BY <2>1 DEF TailOf
    <2>4. TailOf(n) <= k.floor + Len(k.log) BY <1>2, <2>3
    <2>5. JournalMoves /\ TailOf(n)' = k.floor + Len(k.log)
      BY <1>4, <2>1, <2>2, <2>4, JournalUpdate
    <2>6. SelfCursor(n) = cursor[n][n] BY <1>5 DEF SelfCursor
    <2> QED BY <1>2, <1>3, <2>3, <2>5, <2>6
  <1>6. CASE n \in Journaled
    <2> DEFINE l == Append(journal[n].log, Lifecycle(0))
               u == IF journal[n].settled = TailOf(n) THEN journal[n].settled + 1 ELSE journal[n].settled
    <2>1. l \in Seq(S \cup {Lifecycle(0)}) /\ Len(l) = Len(journal[n].log) + 1
      BY <1>1, AppendShape, Zenon
    <2>2. u \in Nat BY <1>2
    <2>3. AppendInert(n) = [journal[n] EXCEPT !.log = l, !.settled = u]
      BY <1>6 DEF AppendInert
    <2> HIDE DEF l, u
    <2> DEFINE k == [log |-> l, floor |-> journal[n].floor, settled |-> u,
                     referenceSafe |-> journal[n].referenceSafe, derived |-> journal[n].derived]
    <2>4. AppendInert(n) = k BY <1>1, <2>3 DEF JournalRecord
    <2>5. k \in JournalRecord(S \cup {Lifecycle(0)}) BY <1>2, <2>1, <2>2 DEF JournalRecord
    <2>6. k.log = l /\ k.floor = journal[n].floor /\ k.referenceSafe = journal[n].referenceSafe OBVIOUS
    <2>7. journal' = [journal EXCEPT ![n] = k] BY <2>4
    <2> HIDE DEF k
    <2>8. k.floor + Len(k.log) = TailOf(n) + 1
      <3>1. PICK f \in Nat, g \in Nat : f = journal[n].floor /\ g = Len(journal[n].log) BY <1>2, Zenon
      <3>2. Len(k.log) = g + 1 BY <2>1, <2>6, <3>1, Zenon
      <3>3. TailOf(n) = f + g BY <3>1, Zenon DEF TailOf
      <3>4. k.floor = f BY <2>6, <3>1, Zenon
      <3>5. f + (g + 1) = (f + g) + 1 OBVIOUS
      <3> QED BY <3>2, <3>3, <3>4, <3>5, Zenon
    <2>9. TailOf(n) <= k.floor + Len(k.log) BY <1>2, <2>8
    <2>10. \A d \in Nodes : k.floor <= cursor[d][n] /\ k.referenceSafe <= cursor[d][n]
      BY <1>4, <2>6
    <2>11. JournalMoves /\ TailOf(n)' = TailOf(n) + 1
      BY <2>5, <2>7, <2>8, <2>9, <2>10, JournalUpdate
    <2>12. SelfCursor(n) = IF cursor[n][n] = TailOf(n) THEN TailOf(n) + 1 ELSE cursor[n][n]
      BY <1>6 DEF SelfCursor
    <2> QED BY <1>2, <1>3, <2>11, <2>12
  <1> QED BY <1>5, <1>6

(* A retention pass, after the reference-safe cut moved to one that every   *)
(* destination has passed.                                                  *)
LEMMA PrunedMoves ==
    ASSUME DeliveryInv, NEW n \in Nodes, NEW S, NEW j \in JournalRecord(S), NEW force \in BOOLEAN,
           journal' = [journal EXCEPT ![n] = Pruned(j, force)],
           j.floor = journal[n].floor, j.log = journal[n].log,
           \A d \in Nodes : j.referenceSafe <= cursor[d][n]
    PROVE  JournalMoves
  <1>1. j.referenceSafe \in Nat /\ j.floor \in Nat BY DEF JournalRecord
  <1>2. TailOf(n) \in Nat /\ TailOf(n) = j.floor + Len(j.log)
    BY TailNumber DEF DeliveryInv, TailOf
  <1>3. \A d \in Nodes : /\ cursor[d][n] \in Nat /\ cursor[d][n] <= TailOf(n)
                         /\ journal[n].floor <= cursor[d][n]
    BY DEF DeliveryInv, Shaped, CutsOK
  <1>4. j.referenceSafe <= j.floor + Len(j.log) BY <1>1, <1>2, <1>3
  <1>5. PICK T : \E k \in JournalRecord(T) :
             /\ Pruned(j, force) = k
             /\ k.referenceSafe = j.referenceSafe
             /\ k.floor = j.floor \/ k.floor <= j.referenceSafe
             /\ j.floor + Len(j.log) <= k.floor + Len(k.log)
    BY <1>4, PrunedFacts
  <1>6. PICK k \in JournalRecord(T) :
             /\ Pruned(j, force) = k
             /\ k.referenceSafe = j.referenceSafe
             /\ k.floor = j.floor \/ k.floor <= j.referenceSafe
             /\ j.floor + Len(j.log) <= k.floor + Len(k.log)
    BY <1>5
  <1>7. k.floor \in Nat BY DEF JournalRecord
  <1>8. \A d \in Nodes : k.floor <= cursor[d][n] /\ k.referenceSafe <= cursor[d][n]
    BY <1>1, <1>3, <1>6, <1>7
  <1>9. journal' = [journal EXCEPT ![n] = k] BY <1>6
  <1>10. TailOf(n) <= k.floor + Len(k.log) BY <1>2, <1>6
  <1> QED BY <1>8, <1>9, <1>10, JournalUpdate

(* One cut of a journal moves, its records stay.                            *)
LEMMA CutMoves ==
    ASSUME DeliveryInv, NEW n \in Nodes, NEW S, NEW k \in JournalRecord(S),
           journal' = [journal EXCEPT ![n] = k],
           k.floor = journal[n].floor, k.log = journal[n].log,
           \A d \in Nodes : k.referenceSafe <= cursor[d][n]
    PROVE  JournalMoves /\ TailOf(n)' = TailOf(n)
  <1>1. TailOf(n) \in Nat /\ TailOf(n) = k.floor + Len(k.log)
    BY TailNumber DEF DeliveryInv, TailOf
  <1>2. \A d \in Nodes : k.floor <= cursor[d][n] BY DEF DeliveryInv, CutsOK
  <1>3. TailOf(n) <= k.floor + Len(k.log) BY <1>1
  <1> QED BY <1>1, <1>2, <1>3, JournalUpdate

-----------------------------------------------------------------------------
(* The actions that touch a journal, a cursor or a pass.                    *)

LEMMA SealOrCollectPreserves ==
    ASSUME DeliveryInv, NEW n \in Nodes,
           journal' = [journal EXCEPT ![n] = AppendInert(n)],
           cursor' = [cursor EXCEPT ![n][n] = SelfCursor(n)],
           pass' = pass
    PROVE  DeliveryInv'
  <1>1. /\ JournalMoves /\ SelfCursor(n) \in Nat
        /\ cursor[n][n] <= SelfCursor(n) /\ SelfCursor(n) <= TailOf(n)'
    BY InertMoves
  <1>2. CursorMoves BY <1>1, CursorUpdate
  <1>3. PassMoves BY <1>1, <1>2, PassKept
  <1> QED BY <1>1, <1>2, <1>3, MovesPreserve

LEMMA JournalOnlyPreserves ==
    ASSUME DeliveryInv, JournalMoves, cursor' = cursor, pass' = pass
    PROVE  DeliveryInv'
  <1>1. CursorMoves BY CursorKept
  <1>2. PassMoves BY <1>1, PassKept
  <1> QED BY <1>1, <1>2, MovesPreserve

LEMMA CommitPreserves ==
    ASSUME DeliveryInv, NEW p \in Paths, CommitMutation(p)
    PROVE  DeliveryInv'
  <1>1. PICK c \in Nodes : c = Coordinator[p] BY JournaledNodes
  <1>2. PICK e : journal' = [journal EXCEPT ![c] = AppendDeferred(journal[c], e)]
    BY <1>1 DEF CommitMutation
  <1>3. cursor' = cursor /\ pass' = pass BY DEF CommitMutation
  <1>4. PICK S : journal[c] \in JournalRecord(S) /\ journal[c].log \in Seq(S)
    BY TailNumber DEF DeliveryInv
  <1>5. /\ TailOf(c) \in Nat /\ Len(journal[c].log) \in Nat
        /\ journal[c].floor \in Nat /\ journal[c].settled \in Nat
        /\ journal[c].referenceSafe \in Nat /\ journal[c].derived \in Nat
    BY TailNumber DEF DeliveryInv
  <1> DEFINE l == Append(journal[c].log, e)
  <1>6. l \in Seq(S \cup {e}) /\ Len(l) = Len(journal[c].log) + 1
    BY <1>4, AppendShape, Zenon
  <1>7. AppendDeferred(journal[c], e) = [journal[c] EXCEPT !.log = l] BY DEF AppendDeferred
  <1> HIDE DEF l
  <1> DEFINE k == [log |-> l, floor |-> journal[c].floor, settled |-> journal[c].settled,
                   referenceSafe |-> journal[c].referenceSafe, derived |-> journal[c].derived]
  <1>8. [journal[c] EXCEPT !.log = l] = k BY <1>4 DEF JournalRecord
  <1>9. k \in JournalRecord(S \cup {e}) BY <1>5, <1>6 DEF JournalRecord
  <1>10. k.log = l /\ k.floor = journal[c].floor /\ k.referenceSafe = journal[c].referenceSafe OBVIOUS
  <1>11. journal' = [journal EXCEPT ![c] = k] BY <1>2, <1>7, <1>8
  <1> HIDE DEF k
  <1>12. TailOf(c) <= k.floor + Len(k.log)
    <2>1. Len(k.log) = Len(journal[c].log) + 1 BY <1>6, <1>10
    <2>2. TailOf(c) = journal[c].floor + Len(journal[c].log) BY DEF TailOf
    <2>3. k.floor = journal[c].floor BY <1>10
    <2> QED BY <1>5, <2>1, <2>2, <2>3
  <1>13. \A d \in Nodes : k.floor <= cursor[d][c] /\ k.referenceSafe <= cursor[d][c]
    BY <1>10 DEF DeliveryInv, CutsOK
  <1>14. JournalMoves BY <1>9, <1>11, <1>12, <1>13, JournalUpdate
  <1> QED BY <1>3, <1>14, JournalOnlyPreserves

LEMMA WaitPreserves ==
    ASSUME DeliveryInv, NEW p \in Paths, WaitForCapacity(p)
    PROVE  DeliveryInv'
  <1>1. PICK c \in Nodes : c = Coordinator[p] BY JournaledNodes
  <1>2. journal' = [journal EXCEPT ![c] = Pruned(journal[c], TRUE)] /\ cursor' = cursor /\ pass' = pass
    BY <1>1 DEF WaitForCapacity
  <1>3. PICK S : journal[c] \in JournalRecord(S) BY TailNumber DEF DeliveryInv
  <1>4. PICK j \in JournalRecord(S) : j = journal[c] BY <1>3
  <1>5. journal' = [journal EXCEPT ![c] = Pruned(j, TRUE)] BY <1>2, <1>4
  <1>6. \A d \in Nodes : j.referenceSafe <= cursor[d][c] BY <1>4 DEF DeliveryInv, CutsOK
  <1>7. JournalMoves BY <1>4, <1>5, <1>6, PrunedMoves
  <1> QED BY <1>2, <1>7, JournalOnlyPreserves

LEMMA SettlePreserves ==
    ASSUME DeliveryInv, NEW s \in Nodes, SettlePosition(s)
    PROVE  DeliveryInv'
  <1>1. journal' = [journal EXCEPT ![s].settled = journal[s].settled + 1] /\ cursor' = cursor /\ pass' = pass
    BY DEF SettlePosition
  <1>2. PICK S : journal[s] \in JournalRecord(S) BY TailNumber DEF DeliveryInv
  <1>3. journal[s].settled \in Nat BY TailNumber DEF DeliveryInv
  <1>a. PICK u \in Nat : u = journal[s].settled + 1 BY <1>3
  <1>4. PICK k \in JournalRecord(S) : k = [journal[s] EXCEPT !.settled = u]
    BY <1>2 DEF JournalRecord
  <1>5. /\ k.floor = journal[s].floor /\ k.log = journal[s].log
        /\ k.referenceSafe = journal[s].referenceSafe
    BY <1>2, <1>4 DEF JournalRecord
  <1>6. journal' = [journal EXCEPT ![s] = k] BY <1>1, <1>a, <1>4
  <1>7. \A d \in Nodes : k.referenceSafe <= cursor[d][s] BY <1>5 DEF DeliveryInv, CutsOK
  <1>8. JournalMoves BY <1>5, <1>6, <1>7, CutMoves
  <1> QED BY <1>1, <1>8, JournalOnlyPreserves

LEMMA CheckpointPreserves ==
    ASSUME DeliveryInv, NEW s \in Nodes, DerivedCheckpoint(s)
    PROVE  DeliveryInv'
  <1>1. PICK S : journal[s] \in JournalRecord(S) BY TailNumber DEF DeliveryInv
  <1>2. journal[s].settled \in Nat BY TailNumber DEF DeliveryInv
  <1>3. PICK j \in JournalRecord(S) : j = [journal[s] EXCEPT !.derived = journal[s].settled]
    BY <1>1, <1>2 DEF JournalRecord
  <1>4. /\ j.floor = journal[s].floor /\ j.log = journal[s].log
        /\ j.referenceSafe = journal[s].referenceSafe
    BY <1>1, <1>3 DEF JournalRecord
  <1>5. journal' = [journal EXCEPT ![s] = Pruned(j, FALSE)] /\ cursor' = cursor /\ pass' = pass
    BY <1>3 DEF DerivedCheckpoint
  <1>6. \A d \in Nodes : j.referenceSafe <= cursor[d][s] BY <1>4 DEF DeliveryInv, CutsOK
  <1>7. JournalMoves BY <1>4, <1>5, <1>6, PrunedMoves
  <1> QED BY <1>5, <1>7, JournalOnlyPreserves

LEMMA ReadPreserves ==
    ASSUME DeliveryInv, NEW s \in Nodes, ReadCursors(s)
    PROVE  DeliveryInv'
  <1> DEFINE q(k) == [IdlePass EXCEPT !.phase = "read", !.seen = [d \in Nodes |-> cursor[d][s]],
                                      !.failed = k < TailOf(s)]
  <1>1. PICK m \in SettlementStops(s) :
          /\ journal' = [journal EXCEPT ![s].settled = m]
          /\ pass' = [pass EXCEPT ![s] = q(m)]
    BY DEF ReadCursors
  <1>2. cursor' = cursor BY DEF ReadCursors
  <1>3. PICK S : journal[s] \in JournalRecord(S) BY TailNumber DEF DeliveryInv
  <1>4. m \in Nat
    <2>1. journal[s].settled \in Nat /\ TailOf(s) \in Nat BY TailNumber DEF DeliveryInv
    <2>2. m \in journal[s].settled..TailOf(s) BY DEF SettlementStops
    <2> QED BY <2>1, <2>2
  <1>5. PICK k \in JournalRecord(S) : k = [journal[s] EXCEPT !.settled = m]
    BY <1>3, <1>4 DEF JournalRecord
  <1>6. /\ k.floor = journal[s].floor /\ k.log = journal[s].log
        /\ k.referenceSafe = journal[s].referenceSafe
    BY <1>3, <1>5 DEF JournalRecord
  <1>7. journal' = [journal EXCEPT ![s] = k] BY <1>1, <1>5
  <1>8. \A d \in Nodes : k.referenceSafe <= cursor[d][s] BY <1>6 DEF DeliveryInv, CutsOK
  <1>9. JournalMoves BY <1>6, <1>7, <1>8, CutMoves
  <1>10. CursorMoves BY <1>2, <1>9, CursorKept
  <1>11. \A d \in Nodes : cursor[d][s] \in Nat BY DEF DeliveryInv, Shaped
  <1>12. PICK b \in BOOLEAN : b = (m < TailOf(s))
    <2>1. (m < TailOf(s)) \in BOOLEAN OBVIOUS
    <2> QED BY <2>1, Zenon
  <1>13. q(m) = [phase |-> "read", seen |-> [d \in Nodes |-> cursor[d][s]], through |-> 0,
                 todo |-> {}, failed |-> b]
    <2>1. q(m) = [IdlePass EXCEPT !.phase = "read", !.seen = [d \in Nodes |-> cursor[d][s]],
                                  !.failed = b]
      BY <1>12, Zenon
    <2> HIDE DEF q
    <2> QED BY <2>1 DEF IdlePass
  <1>14. q(m) \in PassRecord
    <2> HIDE DEF q
    <2> QED BY <1>11, <1>13 DEF PassRecord
  <1>15. q(m).through = 0 /\ q(m).todo = {} /\ \A d \in Nodes : q(m).seen[d] = cursor[d][s]
    <2> HIDE DEF q
    <2> QED BY <1>13
  <1> HIDE DEF q
  <1>16. TailOf(s)' \in Nat BY <1>9, TailNumberNext
  <1>17. /\ q(m).through <= TailOf(s)'
         /\ \A d \in Nodes : /\ q(m).seen[d] <= cursor'[d][s]
                             /\ d \in q(m).todo => q(m).seen[d] < q(m).through
    BY <1>2, <1>11, <1>15, <1>16
  <1>18. PassMoves BY <1>1, <1>9, <1>10, <1>14, <1>17, PassUpdate
  <1> QED BY <1>9, <1>10, <1>18, MovesPreserve

LEMMA QuietMoves ==
    ASSUME DeliveryInv, journal' = journal, cursor' = cursor
    PROVE  JournalMoves /\ CursorMoves /\ \A s \in Nodes : TailOf(s)' = TailOf(s)
  BY JournalKept, CursorKept

LEMMA UnreadPreserves ==
    ASSUME DeliveryInv, NEW s \in Nodes, CursorsUnread(s)
    PROVE  DeliveryInv'
  <1>1. journal' = journal /\ cursor' = cursor /\ pass' = [pass EXCEPT ![s] = IdlePass]
    BY DEF CursorsUnread, EndPass
  <1> QED BY <1>1, QuietMoves, PassEnds, MovesPreserve

(* The slowest cursor a pass has seen is one a destination has passed.      *)
LEMMA SlowestSeen ==
    ASSUME DeliveryInv, NEW s \in Nodes
    PROVE  /\ Slowest(s) \in Nat
           /\ \A d \in Nodes : Slowest(s) <= pass[s].seen[d] /\ Slowest(s) <= cursor[d][s]
  <1> DEFINE T == {pass[s].seen[d] : d \in Nodes}
  <1>1. pass[s] \in PassRecord BY DEF DeliveryInv, Shaped
  <1>2. \A d \in Nodes : pass[s].seen[d] \in Nat BY <1>1 DEF PassRecord
  <1>3. T \in SUBSET Nat /\ T # {} BY <1>2
  <1>4. \A d \in Nodes : pass[s].seen[d] \in T OBVIOUS
  <1>5. Slowest(s) = Min(T) BY DEF Slowest
  <1> HIDE DEF T
  <1>6. Min(T) \in T /\ \A x \in T : Min(T) <= x BY <1>3, LeastNumber
  <1>7. Min(T) \in Nat BY <1>3, <1>6
  <1>8. \A d \in Nodes : Slowest(s) <= pass[s].seen[d] BY <1>4, <1>5, <1>6
  <1>9. \A d \in Nodes : pass[s].seen[d] <= cursor[d][s] BY DEF DeliveryInv, PassOK
  <1>10. \A d \in Nodes : cursor[d][s] \in Nat BY DEF DeliveryInv, Shaped
  <1> QED BY <1>2, <1>5, <1>7, <1>8, <1>9, <1>10

LEMMA PagePreserves ==
    ASSUME DeliveryInv, NEW s \in Nodes, NEW through \in Slowest(s)..TailOf(s), TakePage(s, through)
    PROVE  DeliveryInv'
  <1>1. journal' = journal /\ cursor' = cursor BY DEF TakePage
  <1>2. JournalMoves /\ CursorMoves /\ TailOf(s)' = TailOf(s) BY <1>1, QuietMoves
  <1>3. CASE pass' = [pass EXCEPT ![s] = IdlePass]
    BY <1>2, <1>3, PassEnds, MovesPreserve
  <1>4. CASE \E f \in BOOLEAN :
               pass' = [pass EXCEPT ![s].phase = "apply", ![s].through = through,
                        ![s].todo = {d \in Nodes : pass[s].seen[d] < through},
                        ![s].failed = f]
    <2>1. PICK f \in BOOLEAN :
               pass' = [pass EXCEPT ![s].phase = "apply", ![s].through = through,
                        ![s].todo = {d \in Nodes : pass[s].seen[d] < through},
                        ![s].failed = f]
      BY <1>4
    <2>2. pass \in [Nodes -> PassRecord] /\ pass[s] \in PassRecord BY DEF DeliveryInv, Shaped
    <2>3. through \in Nat /\ through <= TailOf(s)
      BY SlowestSeen, TailNumber DEF DeliveryInv
    <2> DEFINE todo == {d \in Nodes : pass[s].seen[d] < through}
               q == [pass[s] EXCEPT !.phase = "apply", !.through = through,
                                    !.todo = todo, !.failed = f]
    <2>4. pass' = [pass EXCEPT ![s] = q] BY <2>1, <2>2
    <2>5. todo \subseteq Nodes /\ \A d \in todo : pass[s].seen[d] < through OBVIOUS
    <2> HIDE DEF todo
    <2>6. PICK phase \in {"idle", "read", "apply"} : phase = "apply" OBVIOUS
    <2>7. q = [pass[s] EXCEPT !.phase = phase, !.through = through, !.todo = todo, !.failed = f]
      BY <2>6
    <2>8. q \in PassRecord BY <2>2, <2>3, <2>5, <2>7 DEF PassRecord
    <2>9. q.through = through /\ q.todo = todo /\ q.seen = pass[s].seen BY <2>2 DEF PassRecord
    <2> HIDE DEF q
    <2>11. \A d \in Nodes : pass[s].seen[d] <= cursor[d][s] BY DEF DeliveryInv, PassOK
    <2>12. /\ q.through <= TailOf(s)'
           /\ \A d \in Nodes : /\ q.seen[d] <= cursor'[d][s]
                               /\ d \in q.todo => q.seen[d] < q.through
      BY <1>1, <1>2, <2>3, <2>5, <2>9, <2>11
    <2>13. PassMoves BY <1>2, <2>4, <2>8, <2>12, PassUpdate
    <2> QED BY <1>2, <2>13, MovesPreserve
  <1>5. \/ pass' = [pass EXCEPT ![s] = IdlePass]
        \/ \E f \in BOOLEAN :
               pass' = [pass EXCEPT ![s].phase = "apply", ![s].through = through,
                        ![s].todo = {d \in Nodes : pass[s].seen[d] < through},
                        ![s].failed = f]
    <2>1. pass[s] \in PassRecord BY DEF DeliveryInv, Shaped
    <2>2. pass[s].failed \in BOOLEAN BY <2>1 DEF PassRecord
    <2>3. (pass[s].failed \/ (through < TailOf(s))) \in BOOLEAN OBVIOUS
    <2> QED BY <2>3, Zenon DEF TakePage, EndPass
  <1> QED BY <1>3, <1>4, <1>5

(* The answer of destination d, with what the pass then takes for its       *)
(* cursor.                                                                  *)
LEMMA AnswerMoves ==
    ASSUME DeliveryInv, JournalMoves, CursorMoves, NEW s \in Nodes, NEW d \in Nodes,
           NEW ok \in BOOLEAN, Answered(s, d, ok)
    PROVE  PassMoves
  <1>1. pass \in [Nodes -> PassRecord] /\ pass[s] \in PassRecord BY DEF DeliveryInv, Shaped
  <1>2. pass[s].seen \in [Nodes -> Nat] /\ pass[s].through \in Nat /\ pass[s].todo \in SUBSET Nodes
    BY <1>1 DEF PassRecord
  <1>3. \A e \in Nodes : cursor'[e][s] \in Nat BY DEF CursorMoves
  <1>4. PICK c \in Nat : c = IF ok THEN cursor'[d][s] ELSE pass[s].seen[d] BY <1>2, <1>3
  <1>5. ASSUME NEW e \in Nodes
        PROVE  /\ pass[s].seen[e] <= cursor'[e][s]
               /\ pass[s].through <= TailOf(s)'
               /\ e \in pass[s].todo => pass[s].seen[e] < pass[s].through
    <2>1. /\ pass[s].seen[e] <= cursor[e][s] /\ pass[s].through <= TailOf(s)
          /\ (e \in pass[s].todo => pass[s].seen[e] < pass[s].through)
      BY DEF DeliveryInv, PassOK
    <2>2. cursor[e][s] \in Nat /\ cursor[e][s] <= cursor'[e][s]
      BY DEF DeliveryInv, Shaped, CursorMoves
    <2>3. TailOf(s) \in Nat /\ TailOf(s)' \in Nat /\ TailOf(s) <= TailOf(s)'
      BY TailNumber, TailNumberNext DEF DeliveryInv, JournalMoves
    <2> QED BY <1>2, <1>3, <2>1, <2>2, <2>3
  <1>6. PICK f \in BOOLEAN :
          pass' = [pass EXCEPT ![s].todo = pass[s].todo \ {d}, ![s].seen[d] = c, ![s].failed = f]
    <2>1. (pass[s].failed \/ ~ok) \in BOOLEAN OBVIOUS
    <2>2. pass' = [pass EXCEPT ![s].todo = pass[s].todo \ {d}, ![s].seen[d] = c,
                               ![s].failed = pass[s].failed \/ ~ok]
      BY <1>4, Zenon DEF Answered
    <2> QED BY <2>1, <2>2, Zenon
  <1> DEFINE seen == [pass[s].seen EXCEPT ![d] = c]
             todo == pass[s].todo \ {d}
             q == [pass[s] EXCEPT !.todo = todo, !.seen = seen, !.failed = f]
  <1>7. pass' = [pass EXCEPT ![s] = q] BY <1>1, <1>6
  <1>8. /\ seen \in [Nodes -> Nat] /\ seen[d] = c
        /\ \A e \in Nodes \ {d} : seen[e] = pass[s].seen[e]
    BY <1>2
  <1>9. todo \in SUBSET Nodes /\ d \notin todo /\ todo \subseteq pass[s].todo BY <1>2
  <1> HIDE DEF seen, todo
  <1>10. q \in PassRecord BY <1>1, <1>8, <1>9 DEF PassRecord
  <1>11. q.seen = seen /\ q.todo = todo /\ q.through = pass[s].through BY <1>1 DEF PassRecord
  <1> HIDE DEF q
  <1>12. c <= cursor'[d][s] BY <1>3, <1>4, <1>5
  <1>13. q.through <= TailOf(s)' BY <1>5, <1>11
  <1>14. \A e \in Nodes : q.seen[e] <= cursor'[e][s] BY <1>5, <1>8, <1>11, <1>12
  <1>15. \A e \in Nodes : e \in q.todo => q.seen[e] < q.through BY <1>5, <1>8, <1>9, <1>11
  <1> QED BY <1>7, <1>10, <1>13, <1>14, <1>15, PassUpdate

LEMMA ApplyPreserves ==
    ASSUME DeliveryInv, NEW s \in Nodes, NEW d \in Nodes, NEW ok \in BOOLEAN, ApplyBatch(s, d, ok)
    PROVE  DeliveryInv'
  <1> DEFINE batch == Routed(s, d)
  <1>1. /\ d \in pass[s].todo /\ pass[s].seen[d] = cursor[d][s] /\ Answered(s, d, ok)
        /\ journal' = (IF batch = {} THEN journal ELSE [journal EXCEPT ![d] = AppendInert(d)])
        /\ cursor' = [cursor EXCEPT ![d] =
                [(IF batch = {} THEN cursor[d] ELSE [cursor[d] EXCEPT ![d] = SelfCursor(d)])
                    EXCEPT ![s] = pass[s].through]]
    BY DEF ApplyBatch
  <1> HIDE DEF batch
  <1>2. JournalMoves /\ (batch # {} => /\ SelfCursor(d) \in Nat /\ cursor[d][d] <= SelfCursor(d)
                                          /\ SelfCursor(d) <= TailOf(d)')
    BY <1>1, InertMoves, JournalKept
  <1>3. pass[s].through \in Nat /\ cursor \in [Nodes -> [Nodes -> Nat]]
    <2>1. pass[s] \in PassRecord BY DEF DeliveryInv, Shaped
    <2> QED BY <2>1 DEF DeliveryInv, Shaped, PassRecord
  <1>4. cursor[d][s] < pass[s].through /\ pass[s].through <= TailOf(s)
    BY <1>1 DEF DeliveryInv, PassOK
  <1>5. PICK c \in Nat : c = IF batch = {} THEN cursor[d][d] ELSE SelfCursor(d)
    BY <1>2, <1>3
  <1>6. cursor' = [cursor EXCEPT ![d] = [[cursor[d] EXCEPT ![d] = c] EXCEPT ![s] = pass[s].through]]
    <2>1. cursor[d] = [cursor[d] EXCEPT ![d] = cursor[d][d]] BY <1>3
    <2> QED BY <1>1, <1>5, <2>1
  <1>7. \A e, t \in Nodes : cursor'[e][t] = IF e # d THEN cursor[e][t]
                                            ELSE IF t = s THEN pass[s].through
                                            ELSE IF t = d THEN c ELSE cursor[e][t]
    BY <1>3, <1>6
  <1>8. cursor' \in [Nodes -> [Nodes -> Nat]] BY <1>3, <1>6
  <1>9. ASSUME NEW t \in Nodes, NEW e \in Nodes
        PROVE  cursor[e][t] <= cursor'[e][t] /\ cursor'[e][t] <= TailOf(t)'
    <2>1. cursor[e][t] \in Nat /\ cursor[e][t] <= TailOf(t) /\ TailOf(t) <= TailOf(t)'
      BY <1>2, <1>3 DEF DeliveryInv, CutsOK, JournalMoves
    <2>2. TailOf(t) \in Nat /\ TailOf(t)' \in Nat
      BY <1>2, TailNumber, TailNumberNext DEF DeliveryInv
    <2>3. CASE e = d /\ t = s
      <3>1. cursor'[e][t] = pass[s].through BY <1>7, <2>3
      <3> QED BY <1>3, <1>4, <2>1, <2>2, <2>3, <3>1
    <2>4. CASE e = d /\ t # s /\ t = d
      <3>1. cursor'[e][t] = c BY <1>7, <2>4
      <3>2. CASE batch = {} BY <1>5, <2>1, <2>2, <2>4, <3>1, <3>2
      <3>3. CASE batch # {} BY <1>2, <1>5, <2>4, <3>1, <3>3
      <3> QED BY <3>2, <3>3
    <2>5. CASE e # d \/ (t # s /\ t # d)
      <3>1. cursor'[e][t] = cursor[e][t] BY <1>7, <2>5
      <3> QED BY <2>1, <2>2, <3>1
    <2> QED BY <2>3, <2>4, <2>5
  <1>10. CursorMoves BY <1>8, <1>9 DEF CursorMoves
  <1>11. PassMoves BY <1>1, <1>2, <1>10, AnswerMoves
  <1> QED BY <1>2, <1>10, <1>11, MovesPreserve

LEMMA NoAnswerPreserves ==
    ASSUME DeliveryInv, NEW s \in Nodes, NEW d \in Nodes, ReplayBatch(s, d) \/ BatchFails(s, d)
    PROVE  DeliveryInv'
  <1>1. journal' = journal /\ cursor' = cursor BY DEF ReplayBatch, BatchFails
  <1>2. \E ok \in BOOLEAN : Answered(s, d, ok) BY DEF ReplayBatch, BatchFails
  <1>3. JournalMoves /\ CursorMoves BY <1>1, QuietMoves
  <1>4. PassMoves BY <1>2, <1>3, AnswerMoves
  <1> QED BY <1>3, <1>4, MovesPreserve

LEMMA CompactionPreserves ==
    ASSUME DeliveryInv, NEW s \in Nodes, FinishCompaction(s)
    PROVE  DeliveryInv'
  <1>1. PICK S : journal[s] \in JournalRecord(S) BY TailNumber DEF DeliveryInv
  <1>2. journal[s].referenceSafe \in Nat BY TailNumber DEF DeliveryInv
  <1>3. PICK u \in Nat : u = IF Slowest(s) > journal[s].referenceSafe THEN Slowest(s)
                             ELSE journal[s].referenceSafe
    BY <1>2, SlowestSeen
  <1>4. PICK j \in JournalRecord(S) : j = [journal[s] EXCEPT !.referenceSafe = u]
    BY <1>1 DEF JournalRecord
  <1>5. j.floor = journal[s].floor /\ j.log = journal[s].log /\ j.referenceSafe = u
    BY <1>1, <1>4 DEF JournalRecord
  <1>6. journal' = [journal EXCEPT ![s] = Pruned(j, FALSE)] /\ cursor' = cursor
    BY <1>3, <1>4 DEF FinishCompaction
  <1>7. pass' = [pass EXCEPT ![s] = IdlePass] BY DEF FinishCompaction, EndPass
  <1>8. \A d \in Nodes : j.referenceSafe <= cursor[d][s]
    BY <1>3, <1>5, SlowestSeen DEF DeliveryInv, CutsOK
  <1>9. JournalMoves BY <1>5, <1>6, <1>8, PrunedMoves
  <1>10. CursorMoves BY <1>6, <1>9, CursorKept
  <1>11. PassMoves BY <1>7, <1>9, <1>10, PassEnds
  <1> QED BY <1>9, <1>10, <1>11, MovesPreserve

LEMMA RestartPreserves ==
    ASSUME DeliveryInv, NEW n \in Nodes, Restart(n)
    PROVE  DeliveryInv'
  <1>1. /\ journal' = [journal EXCEPT ![n].referenceSafe = journal[n].floor]
        /\ pass' = [pass EXCEPT ![n] = IdlePass] /\ cursor' = cursor
    BY DEF Restart
  <1>2. PICK S : journal[n] \in JournalRecord(S) BY TailNumber DEF DeliveryInv
  <1>3. journal[n].floor \in Nat BY TailNumber DEF DeliveryInv
  <1>4. PICK k \in JournalRecord(S) : k = [journal[n] EXCEPT !.referenceSafe = journal[n].floor]
    BY <1>2, <1>3 DEF JournalRecord
  <1>5. k.floor = journal[n].floor /\ k.log = journal[n].log /\ k.referenceSafe = journal[n].floor
    BY <1>2, <1>4 DEF JournalRecord
  <1>6. journal' = [journal EXCEPT ![n] = k] BY <1>1, <1>4
  <1>7. \A d \in Nodes : k.referenceSafe <= cursor[d][n] BY <1>5 DEF DeliveryInv, CutsOK
  <1>8. JournalMoves BY <1>5, <1>6, <1>7, CutMoves
  <1>9. CursorMoves BY <1>1, <1>8, CursorKept
  <1>10. PassMoves BY <1>1, <1>8, <1>9, PassEnds
  <1> QED BY <1>8, <1>9, <1>10, MovesPreserve

-----------------------------------------------------------------------------
LEMMA InitDelivery ==
    ASSUME Init
    PROVE  DeliveryInv
  <1>1. PICK p \in Paths, retention \in {"pending", "released"} : Published(p, retention)
    BY DEF Init
  <1> DEFINE c == Coordinator[p]
             e == Record(1, p, 1)
             retained == IF retention = "pending" THEN <<e>> ELSE <<>>
             cut == Len(retained)
             j(s) == IF s # c THEN EmptyJournal
                     ELSE [log |-> retained, floor |-> 0, settled |-> cut,
                           referenceSafe |-> cut, derived |-> cut]
  <1>2. journal = [s \in Nodes |-> j(s)]
    BY <1>1 DEF Published
  <1>3. cursor = [d \in Nodes |-> [s \in Nodes |-> IF s = c THEN cut ELSE 0]]
    BY <1>1 DEF Published
  <1>4. retained \in Seq({e}) /\ cut \in Nat OBVIOUS
  <1> HIDE DEF e
  <1>5. pass = [s \in Nodes |-> IdlePass] BY DEF Init
  <1> HIDE DEF retained
  <1>6. ASSUME NEW s \in Nodes
        PROVE  /\ j(s) \in JournalRecord({e})
               /\ j(s).floor = 0 /\ j(s).referenceSafe = Len(j(s).log)
               /\ Len(j(s).log) = IF s = c THEN cut ELSE 0
    <2>1. CASE s = c BY <1>4, <2>1 DEF JournalRecord
    <2>2. CASE s # c BY <2>2 DEF JournalRecord, EmptyJournal
    <2> QED BY <2>1, <2>2
  <1> HIDE DEF j, cut
  <1>7. journal \in [Nodes -> JournalRecord({e})] BY <1>2, <1>6
  <1>8. cursor \in [Nodes -> [Nodes -> Nat]] BY <1>3, <1>4
  <1>9. IdlePass \in PassRecord BY DEF IdlePass, PassRecord
  <1>10. pass \in [Nodes -> PassRecord] BY <1>5, <1>9
  <1>11. Shaped BY <1>7, <1>8, <1>10 DEF Shaped
  <1>12. CutsOK
    <2> SUFFICES ASSUME NEW s \in Nodes, NEW d \in Nodes
                 PROVE  /\ journal[s].floor <= cursor[d][s]
                        /\ journal[s].referenceSafe <= cursor[d][s]
                        /\ cursor[d][s] <= TailOf(s)
      BY DEF CutsOK
    <2>1. journal[s] = j(s) BY <1>2
    <2>2. cursor[d][s] = Len(j(s).log) BY <1>3, <1>6
    <2>3. TailOf(s) = 0 + Len(j(s).log) BY <1>6, <2>1 DEF TailOf
    <2>4. Len(j(s).log) \in Nat BY <1>4, <1>6
    <2> QED BY <1>6, <2>1, <2>2, <2>3, <2>4
  <1>13. PassOK
    <2> SUFFICES ASSUME NEW s \in Nodes, NEW d \in Nodes
                 PROVE  /\ pass[s].seen[d] <= cursor[d][s]
                        /\ pass[s].through <= TailOf(s)
                        /\ d \in pass[s].todo => pass[s].seen[d] < pass[s].through
      BY DEF PassOK
    <2>1. pass[s].seen[d] = 0 /\ pass[s].through = 0 /\ pass[s].todo = {} BY <1>5 DEF IdlePass
    <2>2. TailOf(s) \in Nat BY <1>11, TailNumber
    <2>3. cursor[d][s] \in Nat BY <1>8
    <2> QED BY <2>1, <2>2, <2>3
  <1> QED BY <1>11, <1>12, <1>13 DEF DeliveryInv

LEMMA StepDelivery ==
    ASSUME DeliveryInv, [Next]_vars
    PROVE  DeliveryInv'
  <1>q. ASSUME journal' = journal, cursor' = cursor, pass' = pass
        PROVE  DeliveryInv'
    BY <1>q, JournalKept, JournalOnlyPreserves
  <1>1. CASE UNCHANGED vars BY <1>1, <1>q DEF vars
  <1>2. ASSUME NEW p \in Paths, ClientStep(p) PROVE DeliveryInv'
    <2>1. ASSUME NEW u \in Gateways, Upload(p, u) PROVE DeliveryInv'
      <3>1. u \in Nodes BY PlacementAssumption
      <3>2. /\ journal' = [journal EXCEPT ![u] = AppendInert(u)]
            /\ cursor' = [cursor EXCEPT ![u][u] = SelfCursor(u)] /\ pass' = pass
        BY <2>1 DEF Upload
      <3> QED BY <3>1, <3>2, SealOrCollectPreserves
    <2>2. CASE StartDelete(p) BY <2>2, <1>q DEF StartDelete
    <2>3. CASE Abandon(p) BY <2>3, <1>q DEF Abandon
    <2> QED BY <1>2, <2>1, <2>2, <2>3 DEF ClientStep
  <1>3. ASSUME NEW p \in Paths, RequestStep(p) PROVE DeliveryInv'
    <2>1. CASE PreparePayload(p) BY <2>1, <1>q DEF PreparePayload
    <2>2. CASE CommitMutation(p) BY <2>2, CommitPreserves
    <2>3. CASE CommitRefused(p) BY <2>3, <1>q DEF CommitRefused
    <2>4. CASE WaitForCapacity(p) BY <2>4, WaitPreserves
    <2> QED BY <1>3, <2>1, <2>2, <2>3, <2>4 DEF RequestStep
  <1>4. ASSUME NEW s \in Nodes, PassStep(s) PROVE DeliveryInv'
    <2>1. CASE ReadCursors(s) BY <2>1, ReadPreserves
    <2>2. CASE CursorsUnread(s) BY <2>2, UnreadPreserves
    <2>3. ASSUME NEW through \in Slowest(s)..TailOf(s), TakePage(s, through) PROVE DeliveryInv'
      BY <2>3, PagePreserves
    <2>4. ASSUME NEW d \in Nodes, DeliverBatch(s, d) PROVE DeliveryInv'
      BY <2>4, ApplyPreserves, NoAnswerPreserves DEF DeliverBatch
    <2>5. CASE FinishCompaction(s) BY <2>5, CompactionPreserves
    <2> QED BY <1>4, <2>1, <2>2, <2>3, <2>4, <2>5 DEF PassStep
  <1>5. ASSUME NEW s \in Nodes, CutStep(s) PROVE DeliveryInv'
    BY <1>5, SettlePreserves, CheckpointPreserves DEF CutStep
  <1>6. ASSUME NEW n \in Nodes, CollectionStep(n) PROVE DeliveryInv'
    <2>1. CASE StartCollection(n) BY <2>1, <1>q DEF StartCollection
    <2>2. ASSUME NEW s \in Journaled, CheckSource(n, s) PROVE DeliveryInv'
      BY <2>2, <1>q DEF CheckSource
    <2>3. CASE Collect(n)
      <3>1. pass' = pass BY <2>3 DEF Collect
      <3>2. \/ journal' = journal /\ cursor' = cursor
            \/ /\ journal' = [journal EXCEPT ![n] = AppendInert(n)]
               /\ cursor' = [cursor EXCEPT ![n][n] = SelfCursor(n)]
        BY <2>3 DEF Collect
      <3> QED BY <3>1, <3>2, <1>q, SealOrCollectPreserves
    <2> QED BY <1>6, <2>1, <2>2, <2>3 DEF CollectionStep
  <1>7. ASSUME NEW n \in Nodes, Restart(n) PROVE DeliveryInv'
    BY <1>7, RestartPreserves
  <1>8. CASE Tick BY <1>8, <1>q DEF Tick
  <1> QED BY <1>1, <1>2, <1>3, <1>4, <1>5, <1>6, <1>7, <1>8, JournaledNodes DEF Next

(* Retention never removes a record a destination has yet to apply, however *)
(* restarts, lost answers and replays interleave with the passes of         *)
(* ReferenceDelivery::deliver_once and the retention that follows them      *)
(* (enforce_local_watch_retention_inner): the floor of every source journal *)
(* stays at or below the durable cursor of every destination, and no cursor *)
(* passes the tail.                                                         *)
THEOREM NothingPrunedUnapplied == Spec => []NoDestinationGap
  <1>1. DeliveryInv /\ [Next]_vars => DeliveryInv' BY StepDelivery
  <1>2. DeliveryInv => NoDestinationGap BY DEF DeliveryInv, CutsOK, NoDestinationGap
  <1> QED BY <1>1, <1>2, InitDelivery, PTL DEF Spec

-----------------------------------------------------------------------------
(* Counting. *)

LEMMA CountUnion ==
    ASSUME NEW S, NEW T, IsFiniteSet(S), IsFiniteSet(T), S \cap T = {}
    PROVE  /\ IsFiniteSet(S \cup T)
           /\ Cardinality(S \cup T) = Cardinality(S) + Cardinality(T)
           /\ Cardinality(S) \in Nat /\ Cardinality(T) \in Nat
  <1>1. Cardinality(S) \in Nat /\ Cardinality(T) \in Nat BY FS_CardinalityType
  <1>2. Cardinality(S \cap T) = 0 BY FS_EmptySet
  <1>3. /\ IsFiniteSet(S \cup T)
        /\ Cardinality(S \cup T) = Cardinality(S) + Cardinality(T) - Cardinality(S \cap T)
    BY FS_Union
  <1> QED BY <1>1, <1>2, <1>3

LEMMA CountDifference ==
    ASSUME NEW S, NEW T, IsFiniteSet(S), T \subseteq S
    PROVE  /\ IsFiniteSet(S \ T) /\ IsFiniteSet(T)
           /\ Cardinality(S \ T) + Cardinality(T) = Cardinality(S)
           /\ Cardinality(S) \in Nat /\ Cardinality(T) \in Nat /\ Cardinality(S \ T) \in Nat
  <1>1. IsFiniteSet(T) /\ IsFiniteSet(S \ T) BY FS_Subset
  <1>2. (S \ T) \cap T = {} /\ (S \ T) \cup T = S OBVIOUS
  <1>3. Cardinality((S \ T) \cup T) = Cardinality(S \ T) + Cardinality(T)
    BY <1>1, <1>2, CountUnion
  <1>4. Cardinality(S) \in Nat /\ Cardinality(T) \in Nat /\ Cardinality(S \ T) \in Nat
    BY <1>1, FS_CardinalityType
  <1> QED BY <1>1, <1>2, <1>3, <1>4

(* Two sets that correspond one to one.                                     *)
LEMMA CountSame ==
    ASSUME NEW S, NEW T, IsFiniteSet(S), NEW f \in [S -> T],
           \A x, y \in S : f[x] = f[y] => x = y,
           \A t \in T : \E x \in S : f[x] = t
    PROVE  IsFiniteSet(T) /\ Cardinality(T) = Cardinality(S)
  <1>1. f \in Injection(S, T) BY DEF Injection, IsInjective
  <1>2. f \in Surjection(S, T) BY DEF Surjection
  <1>3. f \in Bijection(S, T) BY <1>1, <1>2 DEF Bijection
  <1>4. ExistsBijection(S, T) BY <1>3 DEF ExistsBijection
  <1> QED BY <1>4, FS_Bijection

-----------------------------------------------------------------------------
(* The records of a journal by their offsets. *)

Entry(j, o) ==
    IF o \in (j.floor + 1)..(j.floor + Len(j.log)) THEN j.log[o - j.floor] ELSE Lifecycle(0)

LEMMA AtEntry ==
    ASSUME NEW s, NEW o
    PROVE  At(s, o) = Entry(journal[s], o) /\ At(s, o)' = Entry(journal'[s], o)
  BY DEF At, Entry, TailOf

LEMMA EntryAppended ==
    ASSUME NEW S, NEW j \in JournalRecord(S), NEW k, NEW e, NEW o \in Nat,
           k.floor = j.floor, k.log = Append(j.log, e)
    PROVE  Entry(k, o) = IF o = j.floor + Len(j.log) + 1 THEN e ELSE Entry(j, o)
  <1>1. PICK g \in Seq(S), f \in Nat : g = j.log /\ f = j.floor BY DEF JournalRecord
  <1>2. /\ Len(Append(g, e)) = Len(g) + 1
        /\ \A i \in 1..Len(g) : Append(g, e)[i] = g[i]
        /\ Append(g, e)[Len(g) + 1] = e
    OBVIOUS
  <1>3. Len(g) \in Nat OBVIOUS
  <1>4. k.floor = f /\ k.log = Append(g, e) BY <1>1
  <1>5. CASE o = f + Len(g) + 1
    <2>1. o \in (f + 1)..(f + (Len(g) + 1)) /\ o - f = Len(g) + 1 BY <1>3, <1>5
    <2> QED BY <1>1, <1>2, <1>4, <1>5, <2>1 DEF Entry
  <1>6. CASE o # f + Len(g) + 1
    <2>1. o \in (f + 1)..(f + (Len(g) + 1)) <=> o \in (f + 1)..(f + Len(g)) BY <1>3, <1>6
    <2>2. o \in (f + 1)..(f + Len(g)) => o - f \in 1..Len(g) BY <1>3
    <2> QED BY <1>1, <1>2, <1>4, <1>6, <2>1, <2>2 DEF Entry
  <1> QED BY <1>1, <1>5, <1>6

LEMMA EntryKept ==
    ASSUME NEW S, NEW j \in JournalRecord(S), NEW k, NEW o \in Nat,
           NEW R, NEW r \in Seq(R), NEW c \in Nat, c <= Len(j.log),
           k.floor = j.floor + c, k.log = Kept(j.log, c, r)
    PROVE  Entry(k, o) = IF o \in (j.floor + Len(j.log) + 1)..(j.floor + Len(j.log) + Len(r))
                         THEN r[o - (j.floor + Len(j.log))]
                         ELSE IF o <= j.floor + c THEN Lifecycle(0) ELSE Entry(j, o)
  <1>1. PICK g \in Seq(S), f \in Nat : g = j.log /\ f = j.floor BY DEF JournalRecord
  <1>2. PICK m \in Nat, q \in Nat : m = Len(g) /\ q = Len(r) OBVIOUS
  <1> DEFINE t == SubSeq(g, c + 1, m)
  <1>3. t \in Seq(S) /\ Len(t) = m - c /\ \A i \in 1..(m - c) : t[i] = g[c + i]
    BY <1>1, <1>2
  <1> HIDE DEF t
  <1>4. /\ Len(t \o r) = (m - c) + q
        /\ \A i \in 1..(m - c) : (t \o r)[i] = t[i]
        /\ \A i \in (m - c + 1)..(m - c + q) : (t \o r)[i] = r[i - (m - c)]
    <2>1. t \in Seq(S \cup R) /\ r \in Seq(S \cup R) BY <1>3
    <2>a. c <= m BY <1>1, <1>2
    <2>b. m - c \in Nat BY <1>2, <2>a
    <2>2. PICK a \in Nat : a = m - c /\ a = Len(t) BY <1>3, <2>b
    <2>3. Len(t \o r) = Len(t) + Len(r) BY <2>1
    <2>4. \A i \in 1..Len(t) : (t \o r)[i] = t[i] BY <2>1
    <2>c. \A i \in 1..(Len(t) + Len(r)) :
            (t \o r)[i] = IF i <= Len(t) THEN t[i] ELSE r[i - Len(t)]
      BY <2>1
    <2>d. \A i \in (a + 1)..(a + q) : i \in 1..(a + q) /\ ~(i <= a) BY <1>2, <2>2
    <2>5. \A i \in (a + 1)..(a + q) : (t \o r)[i] = r[i - a] BY <1>2, <2>2, <2>c, <2>d
    <2> QED BY <1>2, <2>2, <2>3, <2>4, <2>5
  <1>5. k.log = t \o r /\ k.floor = f + c BY <1>1, <1>2 DEF t, Kept
  <1>6. c <= m BY <1>1, <1>2
  <1>7. k.floor + Len(k.log) = f + m + q BY <1>2, <1>4, <1>5, <1>6
  <1>8. Entry(k, o) = IF o \in (f + c + 1)..(f + m + q) THEN (t \o r)[o - (f + c)] ELSE Lifecycle(0)
    BY <1>5, <1>7 DEF Entry
  <1>9. Entry(j, o) = IF o \in (f + 1)..(f + m) THEN g[o - f] ELSE Lifecycle(0)
    BY <1>1, <1>2 DEF Entry
  <1>10. CASE o \in (f + m + 1)..(f + m + q)
    <2>1. o \in (f + c + 1)..(f + m + q) /\ o - (f + c) \in (m - c + 1)..(m - c + q)
      BY <1>2, <1>6, <1>10
    <2>2. (o - (f + c)) - (m - c) = o - (f + m) BY <1>2, <1>6
    <2> QED BY <1>1, <1>2, <1>4, <1>8, <1>10, <2>1, <2>2
  <1>11. CASE o \in (f + c + 1)..(f + m)
    <2>1. /\ o \in (f + c + 1)..(f + m + q) /\ o - (f + c) \in 1..(m - c)
          /\ o \in (f + 1)..(f + m) /\ c + (o - (f + c)) = o - f
          /\ ~(o \in (f + m + 1)..(f + m + q)) /\ ~(o <= f + c)
      BY <1>2, <1>6, <1>11
    <2>2. Entry(k, o) = g[o - f]
      BY <1>3, <1>4, <1>8, <2>1
    <2> QED BY <1>1, <1>2, <1>9, <2>1, <2>2
  <1>12. CASE ~(o \in (f + m + 1)..(f + m + q)) /\ ~(o \in (f + c + 1)..(f + m))
    <2>1. ~(o \in (f + c + 1)..(f + m + q)) BY <1>2, <1>6, <1>12
    <2>2. ~(o <= f + c) => ~(o \in (f + 1)..(f + m)) BY <1>2, <1>6, <1>12
    <2> QED BY <1>1, <1>2, <1>8, <1>9, <1>12, <2>1, <2>2
  <1> QED BY <1>10, <1>11, <1>12

-----------------------------------------------------------------------------
(* The references in flight to a destination, by their sign. *)

Acquiring(d) == {r \in InFlight(d) : Delta(r) > 0}
Releasing(d) == {r \in InFlight(d) : Delta(r) < 0}

LEMMA FiniteRow ==
    ASSUME NEW s, NEW a \in Nat, NEW b \in Nat
    PROVE  IsFiniteSet({<<s, o>> : o \in a..b})
  <1> DEFINE f == [o \in a..b |-> <<s, o>>]
             T == {<<s, o>> : o \in a..b}
  <1>1. f \in [a..b -> T] /\ \A t \in T : \E o \in a..b : f[o] = t OBVIOUS
  <1>2. IsFiniteSet(a..b) BY FS_Interval
  <1> HIDE DEF f, T
  <1>3. f \in Surjection(a..b, T) BY <1>1 DEF Surjection
  <1>4. IsFiniteSet(T) BY <1>2, <1>3, FS_Surjection
  <1> QED BY <1>4 DEF T

LEMMA FiniteInFlight ==
    ASSUME Shaped, NEW d \in Nodes
    PROVE  IsFiniteSet(InFlight(d)) /\ IsFiniteSet(Acquiring(d)) /\ IsFiniteSet(Releasing(d))
  <1> DEFINE Row(s) == {<<s, o>> : o \in (cursor[d][s] + 1)..TailOf(s)}
             f == [s \in Journaled |-> Row(s)]
             T == {Row(s) : s \in Journaled}
  <1>1. ASSUME NEW s \in Journaled PROVE IsFiniteSet(Row(s))
    <2>1. s \in Nodes BY JournaledNodes
    <2>2. PICK a \in Nat, b \in Nat : a = cursor[d][s] + 1 /\ b = TailOf(s)
      BY <2>1, TailNumber DEF Shaped
    <2>3. IsFiniteSet({<<s, o>> : o \in a..b}) BY FiniteRow
    <2> QED BY <2>2, <2>3
  <1>2. InFlight(d) = UNION T BY DEF InFlight
  <1> HIDE DEF Row
  <1>3. f \in [Journaled -> T] /\ \A t \in T : \E s \in Journaled : f[s] = t OBVIOUS
  <1>4. \A t \in T : IsFiniteSet(t) BY <1>1
  <1>5. IsFiniteSet(Journaled) BY JournaledNodes, PlacementAssumption, FS_Subset
  <1> HIDE DEF f, T
  <1>6. f \in Surjection(Journaled, T) BY <1>3 DEF Surjection
  <1>7. IsFiniteSet(T) BY <1>5, <1>6, FS_Surjection
  <1>8. IsFiniteSet(InFlight(d)) BY <1>2, <1>4, <1>7, FS_UNION
  <1>9. Acquiring(d) \subseteq InFlight(d) /\ Releasing(d) \subseteq InFlight(d)
    BY DEF Acquiring, Releasing
  <1> QED BY <1>8, <1>9, FS_Subset

(* A record outside a journal has no delta, so that the offsets in flight   *)
(* need no upper bound.                                                     *)
LEMMA FlightMembers ==
    Shaped => \A d \in Nodes : \A r :
      /\ r \in Acquiring(d) <=> \E s \in Journaled, o \in Nat :
            r = <<s, o>> /\ cursor[d][s] < o /\ At(s, o).delta > 0
      /\ r \in Releasing(d) <=> \E s \in Journaled, o \in Nat :
            r = <<s, o>> /\ cursor[d][s] < o /\ At(s, o).delta < 0
  <1> SUFFICES ASSUME Shaped, NEW d \in Nodes, NEW r
      PROVE  /\ r \in Acquiring(d) <=> \E s \in Journaled, o \in Nat :
                   r = <<s, o>> /\ cursor[d][s] < o /\ At(s, o).delta > 0
             /\ r \in Releasing(d) <=> \E s \in Journaled, o \in Nat :
                   r = <<s, o>> /\ cursor[d][s] < o /\ At(s, o).delta < 0
    BY Zenon
  <1>1. \A s \in Journaled : cursor[d][s] \in Nat /\ TailOf(s) \in Nat /\ journal[s].floor \in Nat
    BY JournaledNodes, TailNumber DEF Shaped
  <1>2. ASSUME NEW s \in Journaled, NEW o \in Nat, At(s, o).delta # 0
        PROVE  o <= TailOf(s)
    <2>1. Lifecycle(0).delta = 0 BY DEF Lifecycle, Record
    <2> QED BY <1>1, <1>2, <2>1 DEF At
  <1>3. r \in InFlight(d) <=> \E s \in Journaled : \E o \in (cursor[d][s] + 1)..TailOf(s) : r = <<s, o>>
    BY DEF InFlight
  <1>4. r \in InFlight(d) <=> \E s \in Journaled : \E o \in Nat :
              r = <<s, o>> /\ cursor[d][s] < o /\ o <= TailOf(s)
    BY <1>1, <1>3
  <1>5. ASSUME NEW s \in Journaled, NEW o \in Nat, r = <<s, o>>
        PROVE  Delta(r) = At(s, o).delta
    BY <1>5 DEF Delta
  <1>6. ASSUME r \in Acquiring(d)
        PROVE  \E s \in Journaled, o \in Nat : r = <<s, o>> /\ cursor[d][s] < o /\ At(s, o).delta > 0
    <2>1. r \in InFlight(d) /\ Delta(r) > 0 BY <1>6 DEF Acquiring
    <2>2. PICK s \in Journaled, o \in Nat : r = <<s, o>> /\ cursor[d][s] < o BY <1>4, <2>1
    <2> QED BY <1>5, <2>1, <2>2
  <1>7. ASSUME r \in Releasing(d)
        PROVE  \E s \in Journaled, o \in Nat : r = <<s, o>> /\ cursor[d][s] < o /\ At(s, o).delta < 0
    <2>1. r \in InFlight(d) /\ Delta(r) < 0 BY <1>7 DEF Releasing
    <2>2. PICK s \in Journaled, o \in Nat : r = <<s, o>> /\ cursor[d][s] < o BY <1>4, <2>1
    <2> QED BY <1>5, <2>1, <2>2
  <1>8. ASSUME NEW s \in Journaled, NEW o \in Nat, r = <<s, o>>, cursor[d][s] < o,
               At(s, o).delta > 0 \/ At(s, o).delta < 0
        PROVE  r \in InFlight(d) /\ Delta(r) = At(s, o).delta
    <2>1. At(s, o).delta # 0 BY <1>8
    <2> QED BY <1>2, <1>4, <1>5, <1>8, <2>1
  <1> QED BY <1>6, <1>7, <1>8 DEF Acquiring, Releasing

LEMMA FlightMembersNext ==
    Shaped' => \A d \in Nodes : \A r :
      /\ r \in Acquiring(d)' <=> \E s \in Journaled, o \in Nat :
            r = <<s, o>> /\ cursor'[d][s] < o /\ At(s, o)'.delta > 0
      /\ r \in Releasing(d)' <=> \E s \in Journaled, o \in Nat :
            r = <<s, o>> /\ cursor'[d][s] < o /\ At(s, o)'.delta < 0
  <1>1. (Shaped => \A d \in Nodes : \A r :
      /\ r \in Acquiring(d) <=> \E s \in Journaled, o \in Nat :
            r = <<s, o>> /\ cursor[d][s] < o /\ At(s, o).delta > 0
      /\ r \in Releasing(d) <=> \E s \in Journaled, o \in Nat :
            r = <<s, o>> /\ cursor[d][s] < o /\ At(s, o).delta < 0)'
    BY FlightMembers, PTL
  <1> QED BY <1>1

LEMMA FiniteInFlightNext ==
    Shaped' => \A d \in Nodes : IsFiniteSet(Acquiring(d))' /\ IsFiniteSet(Releasing(d))'
  <1>1. Shaped => \A d \in Nodes : IsFiniteSet(Acquiring(d)) /\ IsFiniteSet(Releasing(d))
    BY FiniteInFlight
  <1>2. (Shaped => \A d \in Nodes : IsFiniteSet(Acquiring(d)) /\ IsFiniteSet(Releasing(d)))'
    BY <1>1, PTL
  <1> QED BY <1>2

-----------------------------------------------------------------------------
(* What a retention pass releases. *)

Rank(E, i) == Cardinality({h \in E : h <= i})

(* Ranks number a set of offsets from one on, without a gap.                *)
LEMMA RankFacts ==
    ASSUME NEW c \in Nat, NEW E \in SUBSET (1..c)
    PROVE  /\ IsFiniteSet(E) /\ Cardinality(E) \in Nat
           /\ \A i \in E : Rank(E, i) \in 1..Cardinality(E) /\ Nth(E, Rank(E, i)) = i
           /\ \A m \in 1..Cardinality(E) : Nth(E, m) \in E /\ Rank(E, Nth(E, m)) = m
  <1>1. IsFiniteSet(E) /\ Cardinality(E) \in Nat
    <2>1. IsFiniteSet(1..c) BY FS_Interval
    <2> QED BY <2>1, FS_Subset, FS_CardinalityType
  <1>a. \A h \in E : h \in Int OBVIOUS
  <1> DEFINE upto(i) == {h \in E : h <= i}
             f == [i \in E |-> Cardinality(upto(i))]
             N == 1..Cardinality(E)
  <1>2. ASSUME NEW i \in E
        PROVE  IsFiniteSet(upto(i)) /\ Cardinality(upto(i)) \in N
    <2>1. upto(i) \in SUBSET E /\ i \in upto(i) OBVIOUS
    <2>2. /\ IsFiniteSet(upto(i)) /\ Cardinality(upto(i)) \in Nat
          /\ Cardinality(upto(i)) <= Cardinality(E)
      BY <1>1, <2>1, FS_Subset, FS_CardinalityType
    <2>3. Cardinality(upto(i)) # 0 BY <2>1, <2>2, FS_EmptySet
    <2> QED BY <1>1, <2>2, <2>3
  <1>3. ASSUME NEW i \in E, NEW k \in E, i < k
        PROVE  Cardinality(upto(i)) # Cardinality(upto(k))
    <2>a. \A h \in E : h <= i => h <= k BY <1>a, <1>3
    <2>1. upto(i) \in SUBSET upto(k) BY <2>a
    <2>2. k \in upto(k) /\ k \notin upto(i) BY <1>3
    <2>3. upto(k) # upto(i) BY <2>2
    <2> HIDE DEF upto
    <2> QED BY <1>2, <2>1, <2>3, FS_Subset
  <1>4. ASSUME NEW i \in E, NEW k \in E, Cardinality(upto(i)) = Cardinality(upto(k))
        PROVE  i = k
    <2>1. i \in Int /\ k \in Int OBVIOUS
    <2>2. ~(i < k) /\ ~(k < i) BY <1>3, <1>4
    <2> QED BY <2>1, <2>2
  <1>5. Cardinality(N) = Cardinality(E) /\ IsFiniteSet(N) BY <1>1, FS_Interval
  <1> HIDE DEF upto, N
  <1>6. f \in [E -> N] BY <1>2
  <1>7. f \in Injection(E, N) BY <1>4, <1>6 DEF Injection, IsInjective
  <1>8. f \in Surjection(E, N) BY <1>5, <1>7, FS_Injection
  <1>9. \A m \in N : \E i \in E : f[i] = m BY <1>8 DEF Surjection
  <1>10. \A i \in E : f[i] = Rank(E, i) BY DEF Rank, upto
  <1>11. \A m : Nth(E, m) = CHOOSE i \in E : Rank(E, i) = m BY DEF Nth, Rank
  <1>12. ASSUME NEW m \in N PROVE Nth(E, m) \in E /\ Rank(E, Nth(E, m)) = m
    <2>1. \E i \in E : Rank(E, i) = m BY <1>9, <1>10
    <2> QED BY <1>11, <2>1
  <1>13. ASSUME NEW i \in E PROVE Rank(E, i) \in N /\ Nth(E, Rank(E, i)) = i
    <2>1. Rank(E, i) \in N BY <1>6, <1>10
    <2>2. Nth(E, Rank(E, i)) \in E /\ Rank(E, Nth(E, Rank(E, i))) = Rank(E, i) BY <1>12, <2>1
    <2> QED BY <1>4, <2>1, <2>2 DEF Rank, upto
  <1> QED BY <1>1, <1>12, <1>13 DEF N

VersionRecord ==
    [path : Paths, id : Nat \ {0}, put : BOOLEAN, retention : {"pending", "released"}]

(* The versions a pass leaves without a head event, and those of them that  *)
(* hold a reference.                                                        *)
Retired(j, force) == {v \in PrunedPending(j, force) : ~IsCurrent(v)}
RetiredPuts(j, force) == {v \in Retired(j, force) : v.put}

(* A pass over a journal that names a version at most once appends one      *)
(* negative record for every reference it retires.                          *)
LEMMA ReleasesCounted ==
    ASSUME NEW S, NEW j \in JournalRecord(S), NEW force \in BOOLEAN,
           stored \subseteq VersionRecord,
           \A v, w \in stored : v.id = w.id => v = w,
           \A i, k \in 1..PruneCount(j, force) :
              j.log[i].id = j.log[k].id /\ j.log[i].id # 0 => i = k
    PROVE  /\ Len(DelayedReleases(j, force)) \in Nat
           /\ DelayedReleases(j, force) \in Seq({Lifecycle(-1), Lifecycle(0)})
           /\ Cardinality({m \in 1..Len(DelayedReleases(j, force)) : DelayedReleases(j, force)[m].delta < 0})
                = Cardinality(RetiredPuts(j, force))
  <1> DEFINE V == Retired(j, force)
             VP == RetiredPuts(j, force)
             E == {i \in 1..PruneCount(j, force) : \E v \in V : v.id = j.log[i].id}
             holds(record) == \E v \in V : v.id = record.id /\ v.put
             r == DelayedReleases(j, force)
             delta(m) == IF holds(j.log[Nth(E, m)]) THEN -1 ELSE 0
  <1>1. r = [m \in 1..Cardinality(E) |-> Lifecycle(delta(m))]
    BY DEF DelayedReleases, Retired
  <1>2. PICK c \in Nat : c = PruneCount(j, force) BY PruneCountBound
  <1>3. E \in SUBSET (1..c) BY <1>2
  <1>4. /\ IsFiniteSet(E) /\ Cardinality(E) \in Nat
        /\ \A i \in E : Rank(E, i) \in 1..Cardinality(E) /\ Nth(E, Rank(E, i)) = i
        /\ \A m \in 1..Cardinality(E) : Nth(E, m) \in E /\ Rank(E, Nth(E, m)) = m
    BY <1>3, RankFacts, Zenon
  <1>5. PICK n \in Nat : n = Cardinality(E) BY <1>4
  <1>6. \A m : delta(m) \in {-1, 0} /\ (delta(m) < 0 <=> holds(j.log[Nth(E, m)]))
    <2> HIDE DEF holds, E
    <2> QED OBVIOUS
  <1>7. V \subseteq stored /\ VP \subseteq V /\ \A v \in VP : v.put
    BY DEF Retired, RetiredPuts, PrunedPending
  <1>8. \A v \in V : v.id # 0 /\ \E i \in E : v.id = j.log[i].id
    <2> SUFFICES ASSUME NEW v \in V PROVE v.id # 0 /\ \E i \in E : v.id = j.log[i].id OBVIOUS
    <2>1. v.id \in PrunedIds(j, force) BY DEF Retired, PrunedPending
    <2>2. PICK i \in 1..PruneCount(j, force) : v.id = j.log[i].id /\ v.id # 0
      BY <2>1 DEF PrunedIds
    <2>3. i \in E BY <2>2
    <2> QED BY <2>2, <2>3
  <1>9. \A m : holds(j.log[Nth(E, m)]) <=> \E v \in VP : v.id = j.log[Nth(E, m)].id
    BY DEF RetiredPuts
  <1>a. \A i \in E : i \in 1..PruneCount(j, force) OBVIOUS
  <1> HIDE DEF E, V, VP, holds, delta
  <1>10. Lifecycle(-1).delta = -1 /\ Lifecycle(0).delta = 0 BY DEF Lifecycle, Record
  <1>11. r = [m \in 1..n |-> Lifecycle(delta(m))] BY <1>1, <1>5
  <1> HIDE DEF r
  <1>12. \A m \in 1..n : r[m] = Lifecycle(delta(m)) /\ r[m] \in {Lifecycle(-1), Lifecycle(0)}
    BY <1>6, <1>11
  <1>13. r \in [1..n -> {Lifecycle(-1), Lifecycle(0)}] BY <1>11, <1>12
  <1>14. r \in Seq({Lifecycle(-1), Lifecycle(0)}) /\ Len(r) = n
    <2> DEFINE R == {Lifecycle(-1), Lifecycle(0)}
    <2> HIDE DEF R
    <2>1. r \in [1..n -> R] BY <1>13 DEF R
    <2>2. r \in Seq(R) /\ Len(r) = n BY <2>1
    <2> QED BY <2>2 DEF R
  <1> DEFINE D == {m \in 1..n : r[m].delta < 0}
  <1>15. \A m \in 1..n : m \in D <=> \E v \in VP : v.id = j.log[Nth(E, m)].id
    <2> SUFFICES ASSUME NEW m \in 1..n
                 PROVE  r[m].delta < 0 <=> \E v \in VP : v.id = j.log[Nth(E, m)].id
      OBVIOUS
    <2>1. r[m].delta = delta(m) BY <1>6, <1>10, <1>12
    <2> QED BY <1>6, <1>9, <2>1
  <1>16. D \subseteq 1..n OBVIOUS
  <1> HIDE DEF D
  <1> DEFINE f == [m \in D |-> CHOOSE v \in VP : v.id = j.log[Nth(E, m)].id]
  <1>17. \A m \in D : f[m] \in VP /\ f[m].id = j.log[Nth(E, m)].id BY <1>15, <1>16
  <1>18. f \in [D -> VP] BY <1>17
  <1> HIDE DEF f
  <1>19. ASSUME NEW x \in D, NEW y \in D, f[x] = f[y] PROVE x = y
    <2>1. x \in 1..n /\ y \in 1..n BY <1>16
    <2>2. Nth(E, x) \in E /\ Nth(E, y) \in E BY <1>4, <1>5, <2>1
    <2>3. j.log[Nth(E, x)].id = j.log[Nth(E, y)].id BY <1>17, <1>19
    <2>4. j.log[Nth(E, x)].id # 0
      <3>1. f[x] \in V /\ f[x].id = j.log[Nth(E, x)].id BY <1>7, <1>17
      <3>2. f[x].id # 0 BY <1>8, <3>1
      <3> QED BY <3>1, <3>2
    <2>5. Nth(E, x) = Nth(E, y) BY <1>a, <2>2, <2>3, <2>4
    <2> QED BY <1>4, <1>5, <2>1, <2>5
  <1>20. ASSUME NEW v \in VP PROVE \E x \in D : f[x] = v
    <2>1. v \in V /\ v \in stored BY <1>7
    <2>2. PICK i \in E : v.id = j.log[i].id BY <1>8, <2>1
    <2>3. PICK x \in 1..n : x = Rank(E, i) /\ Nth(E, x) = i BY <1>4, <1>5
    <2>4. x \in D BY <1>15, <2>2, <2>3
    <2>5. f[x] \in VP /\ f[x].id = v.id BY <1>17, <2>2, <2>3, <2>4
    <2>6. f[x] \in stored BY <1>7, <2>5
    <2> QED BY <2>1, <2>4, <2>5, <2>6
  <1>21. IsFiniteSet(D)
    <2>1. IsFiniteSet(1..n) BY FS_Interval
    <2> QED BY <1>16, <2>1, FS_Subset
  <1>22. Cardinality(VP) = Cardinality(D)
    <2>1. \A x, y \in D : f[x] = f[y] => x = y BY <1>19
    <2>2. \A t \in VP : \E x \in D : f[x] = t BY <1>20
    <2> QED BY <1>18, <1>21, <2>1, <2>2, CountSame
  <1> QED BY <1>14, <1>22 DEF D, r, VP

Puts == {v \in stored : v.put}

(* The versions kept by a pass: those without a pruned event, and the       *)
(* current one, whose descriptor is released.                               *)
LEMMA RetainedCounted ==
    ASSUME NEW j, NEW force \in BOOLEAN,
           stored \subseteq VersionRecord, IsFiniteSet(stored),
           \A v, w \in stored : v.id = w.id => v = w
    PROVE  LET kept == RetainedVersions(j, force)
           IN  /\ kept \subseteq VersionRecord /\ IsFiniteSet(kept)
               /\ \A v \in kept : \E w \in stored \ Retired(j, force) :
                     v.id = w.id /\ v.path = w.path /\ v.put = w.put
               /\ \A w \in stored \ Retired(j, force) : \E v \in kept :
                     v.id = w.id /\ v.path = w.path /\ v.put = w.put
               /\ \A v, w \in kept : v.id = w.id => v = w
               /\ Cardinality({v \in kept : v.put}) + Cardinality(RetiredPuts(j, force))
                    = Cardinality(Puts)
  <1> DEFINE PP == PrunedPending(j, force)
             V == Retired(j, force)
             W == stored \ V
             out(w) == IF w \in PP THEN [w EXCEPT !.retention = "released"] ELSE w
             kept == RetainedVersions(j, force)
  <1>1. PP \subseteq stored /\ V = {v \in PP : ~IsCurrent(v)}
    BY DEF PrunedPending, Retired
  <1>2. kept = (stored \ PP) \cup {[v EXCEPT !.retention = "released"] : v \in {w \in PP : IsCurrent(w)}}
    BY DEF RetainedVersions
  <1> HIDE DEF PP, V, kept
  <1>3. ASSUME NEW w \in W
        PROVE  /\ out(w) \in kept /\ out(w) \in VersionRecord
               /\ out(w).id = w.id /\ out(w).path = w.path /\ out(w).put = w.put
    <2>1. w \in VersionRecord BY <1>1
    <2>2. CASE w \in PP
      <3>1. IsCurrent(w) BY <1>1, <2>2
      <3>2. out(w) = [w EXCEPT !.retention = "released"] BY <2>2
      <3>3. out(w) \in kept BY <1>2, <2>2, <3>1, <3>2
      <3> QED BY <2>1, <3>2, <3>3 DEF VersionRecord
    <2>3. CASE w \notin PP
      <3>1. out(w) = w BY <2>3
      <3>2. out(w) \in kept BY <1>2, <2>3, <3>1
      <3> QED BY <2>1, <3>1, <3>2
    <2> QED BY <2>2, <2>3
  <1>4. ASSUME NEW v \in kept PROVE \E w \in W : v = out(w)
    <2>1. CASE v \in stored \ PP BY <1>1, <2>1
    <2>2. ASSUME NEW w \in PP, IsCurrent(w), v = [w EXCEPT !.retention = "released"]
          PROVE  \E x \in W : v = out(x)
      BY <1>1, <2>2
    <2> QED BY <1>2, <2>1, <2>2
  <1> HIDE DEF out
  <1>5. \A x, y \in W : out(x) = out(y) => x = y
    <2> SUFFICES ASSUME NEW x \in W, NEW y \in W, out(x) = out(y) PROVE x = y OBVIOUS
    <2>1. x.id = y.id BY <1>3
    <2> QED BY <2>1
  <1>6. kept \subseteq VersionRecord BY <1>3, <1>4
  <1>7. IsFiniteSet(W) /\ W \subseteq stored BY FS_Subset
  <1>8. IsFiniteSet(kept)
    <2> DEFINE f == [w \in W |-> out(w)]
    <2>1. f \in [W -> kept] BY <1>3
    <2>2. \A t \in kept : \E x \in W : f[x] = t BY <1>4
    <2>3. \A x, y \in W : f[x] = f[y] => x = y BY <1>5
    <2> HIDE DEF f, W
    <2> QED BY <1>7, <2>1, <2>2, <2>3, CountSame
  <1>9. \A v \in kept : \E w \in W : v.id = w.id /\ v.path = w.path /\ v.put = w.put
    BY <1>3, <1>4
  <1>10. \A w \in W : \E v \in kept : v.id = w.id /\ v.path = w.path /\ v.put = w.put
    BY <1>3
  <1>11. \A v, w \in kept : v.id = w.id => v = w
    <2> SUFFICES ASSUME NEW v \in kept, NEW w \in kept, v.id = w.id PROVE v = w OBVIOUS
    <2>1. PICK x \in W, y \in W : v = out(x) /\ w = out(y) BY <1>4
    <2>2. x.id = y.id BY <1>3, <2>1
    <2>3. x \in stored /\ y \in stored OBVIOUS
    <2>4. x = y BY <2>2, <2>3
    <2> QED BY <2>1, <2>4
  <1>12. Cardinality({v \in kept : v.put}) + Cardinality(RetiredPuts(j, force)) = Cardinality(Puts)
    <2> DEFINE WP == {w \in W : w.put}
               KP == {v \in kept : v.put}
               VP == RetiredPuts(j, force)
               f == [w \in WP |-> out(w)]
    <2>1. f \in [WP -> KP] BY <1>3
    <2>2. \A t \in KP : \E x \in WP : f[x] = t
      <3> SUFFICES ASSUME NEW t \in KP PROVE \E x \in WP : f[x] = t OBVIOUS
      <3>1. PICK w \in W : t = out(w) BY <1>4
      <3>2. w.put BY <1>3, <3>1
      <3> QED BY <3>1, <3>2
    <2>3. \A x, y \in WP : f[x] = f[y] => x = y BY <1>5
    <2>4. VP = {v \in V : v.put} BY DEF RetiredPuts, V
    <2>5. WP = Puts \ VP /\ VP \subseteq Puts BY <1>1, <2>4 DEF Puts
    <2>6. IsFiniteSet(Puts) BY FS_Subset DEF Puts
    <2>7. /\ Cardinality(Puts \ VP) + Cardinality(VP) = Cardinality(Puts)
          /\ IsFiniteSet(Puts \ VP)
      <3> HIDE DEF VP
      <3> QED BY <2>5, <2>6, CountDifference
    <2> HIDE DEF f, WP, KP, VP
    <2>8. Cardinality(KP) = Cardinality(WP) BY <2>1, <2>2, <2>3, <2>5, <2>7, CountSame
    <2> QED BY <2>5, <2>7, <2>8 DEF KP, VP
  <1> QED BY <1>6, <1>8, <1>9, <1>10, <1>11, <1>12 DEF kept, V

-----------------------------------------------------------------------------
(* What a step does to the records, by their offsets. *)

SameRecords == \A s \in Nodes, o \in Nat : At(s, o)' = At(s, o)

LEMMA SameWhenKept ==
    ASSUME journal' = journal
    PROVE  SameRecords
  BY AtEntry DEF SameRecords

LEMMA OtherRecords ==
    ASSUME DeliveryInv, NEW n \in Nodes, NEW k, journal' = [journal EXCEPT ![n] = k]
    PROVE  /\ journal'[n] = k
           /\ \A s \in Nodes \ {n} : journal'[s] = journal[s]
           /\ \A s \in Nodes \ {n}, o \in Nat : At(s, o)' = At(s, o)
           /\ \A o \in Nat : At(n, o)' = Entry(k, o)
  <1>1. PICK S : journal \in [Nodes -> JournalRecord(S)] BY DEF DeliveryInv, Shaped
  <1>2. journal'[n] = k /\ \A s \in Nodes \ {n} : journal'[s] = journal[s] BY <1>1
  <1> QED BY <1>2, AtEntry

LEMMA SameWhenCut ==
    ASSUME DeliveryInv, NEW n \in Nodes, NEW k, journal' = [journal EXCEPT ![n] = k],
           k.floor = journal[n].floor, k.log = journal[n].log
    PROVE  SameRecords
  <1>1. \A o \in Nat : At(n, o)' = At(n, o)
    BY OtherRecords, AtEntry DEF Entry
  <1> QED BY <1>1, OtherRecords DEF SameRecords

LEMMA TailUnused ==
    ASSUME DeliveryInv, NEW s \in Nodes
    PROVE  At(s, TailOf(s) + 1) = Lifecycle(0)
  <1>1. TailOf(s) \in Nat /\ journal[s].floor \in Nat BY TailNumber DEF DeliveryInv
  <1> QED BY <1>1 DEF At

LEMMA SameWhenInert ==
    ASSUME DeliveryInv, NEW n \in Nodes, journal' = [journal EXCEPT ![n] = AppendInert(n)]
    PROVE  SameRecords
  <1>1. CASE n \notin Journaled
    <2>1. AppendInert(n) = journal[n] BY <1>1 DEF AppendInert
    <2>2. PICK k : k = journal[n] OBVIOUS
    <2> QED BY <2>1, <2>2, SameWhenCut
  <1>2. CASE n \in Journaled
    <2>1. PICK S : journal[n] \in JournalRecord(S) BY TailNumber DEF DeliveryInv
    <2>2. PICK j \in JournalRecord(S) : j = journal[n] BY <2>1
    <2>3. PICK u : u = IF j.settled = TailOf(n) THEN j.settled + 1 ELSE j.settled OBVIOUS
    <2>4. PICK k : k = AppendInert(n) OBVIOUS
    <2>5. k = [j EXCEPT !.log = Append(j.log, Lifecycle(0)), !.settled = u]
      BY <1>2, <2>2, <2>3, <2>4 DEF AppendInert
    <2>6. k.floor = j.floor /\ k.log = Append(j.log, Lifecycle(0)) BY <2>5 DEF JournalRecord
    <2>7. \E T : k \in JournalRecord(T)
      <3>1. j.settled \in Nat /\ TailOf(n) \in Nat BY <2>2, TailNumber DEF DeliveryInv
      <3>2. u \in Nat BY <2>3, <3>1
      <3>3. j.log \in Seq(S) BY DEF JournalRecord
      <3>4. Append(j.log, Lifecycle(0)) \in Seq(S \cup {Lifecycle(0)}) BY <3>3, AppendShape, Zenon
      <3>5. k \in JournalRecord(S \cup {Lifecycle(0)}) BY <2>5, <3>2, <3>4 DEF JournalRecord
      <3> QED BY <3>5
    <2>8. PICK T : k \in JournalRecord(T) BY <2>7
    <2>9. ASSUME NEW o \in Nat PROVE Entry(k, o) = Entry(j, o)
      <3>1. Entry(k, o) = IF o = j.floor + Len(j.log) + 1 THEN Lifecycle(0) ELSE Entry(j, o)
        BY <2>6, <2>8, EntryAppended
      <3>2. Entry(j, TailOf(n) + 1) = Lifecycle(0) BY <2>2, TailUnused, AtEntry
      <3>3. TailOf(n) = j.floor + Len(j.log) BY <2>2 DEF TailOf
      <3> QED BY <3>1, <3>2, <3>3
    <2>10. \A o \in Nat : At(n, o)' = At(n, o) BY <2>2, <2>4, <2>9, OtherRecords, AtEntry
    <2> QED BY <2>10, OtherRecords DEF SameRecords
  <1> QED BY <1>1, <1>2

(* An appended head event.                                                  *)
LEMMA DeferredRecords ==
    ASSUME DeliveryInv, NEW n \in Nodes, NEW e,
           journal' = [journal EXCEPT ![n] = AppendDeferred(journal[n], e)]
    PROVE  /\ \A s \in Nodes, o \in Nat :
                At(s, o)' = IF s = n /\ o = TailOf(n) + 1 THEN e ELSE At(s, o)
           /\ \A s \in Nodes : TailOf(s)' = IF s = n THEN TailOf(n) + 1 ELSE TailOf(s)
           /\ \A s \in Nodes : /\ journal'[s].floor = journal[s].floor
                               /\ journal'[s].settled = journal[s].settled
                               /\ journal'[s].derived = journal[s].derived
  <1>1. PICK S : journal[n] \in JournalRecord(S) BY TailNumber DEF DeliveryInv
  <1>2. PICK j \in JournalRecord(S) : j = journal[n] BY <1>1
  <1>3. PICK k : k = AppendDeferred(j, e) OBVIOUS
  <1>4. k = [j EXCEPT !.log = Append(j.log, e)] BY <1>3 DEF AppendDeferred
  <1>5. /\ k.floor = j.floor /\ k.log = Append(j.log, e)
        /\ k.settled = j.settled /\ k.derived = j.derived
    BY <1>4 DEF JournalRecord
  <1>6. j.log \in Seq(S) BY DEF JournalRecord
  <1>7. Append(j.log, e) \in Seq(S \cup {e}) /\ Len(Append(j.log, e)) = Len(j.log) + 1
    BY <1>6, AppendShape, Zenon
  <1>8. k \in JournalRecord(S \cup {e}) BY <1>4, <1>7 DEF JournalRecord
  <1>9. \A o \in Nat : Entry(k, o) = IF o = j.floor + Len(j.log) + 1 THEN e ELSE Entry(j, o)
    BY <1>5, <1>8, EntryAppended
  <1>10. TailOf(n) = j.floor + Len(j.log) /\ j.floor \in Nat /\ Len(j.log) \in Nat
    BY <1>2, TailNumber DEF TailOf, DeliveryInv
  <1>11. /\ journal'[n] = k /\ \A s \in Nodes \ {n} : journal'[s] = journal[s]
         /\ \A s \in Nodes \ {n}, o \in Nat : At(s, o)' = At(s, o)
         /\ \A o \in Nat : At(n, o)' = Entry(k, o)
    BY <1>2, <1>3, OtherRecords
  <1>12. \A o \in Nat : At(n, o) = Entry(j, o) BY <1>2, AtEntry
  <1>13. k.floor + Len(k.log) = TailOf(n) + 1
    BY <1>5, <1>7, <1>10
  <1>14. \A s \in Nodes : TailOf(s)' = IF s = n THEN TailOf(n) + 1 ELSE TailOf(s)
    BY <1>11, <1>13 DEF TailOf
  <1> QED BY <1>2, <1>5, <1>9, <1>10, <1>11, <1>12, <1>14

(* The records after a retention pass over n's journal: the first c are     *)
(* gone, and the delayed releases r follow the tail.                        *)
PrunedRecords(n, c, r) ==
    /\ c \in Nat /\ r \in Seq({Lifecycle(-1), Lifecycle(0)})
    /\ c <= Len(journal[n].log)
    /\ \A s \in Nodes \ {n}, o \in Nat : At(s, o)' = At(s, o)
    /\ \A o \in Nat : At(n, o)' = IF o \in (TailOf(n) + 1)..(TailOf(n) + Len(r)) THEN r[o - TailOf(n)]
                                  ELSE IF o <= journal[n].floor + c THEN Lifecycle(0) ELSE At(n, o)
    /\ \A d \in Nodes : journal[n].floor + c <= cursor[d][n]
    /\ \A s \in Nodes : TailOf(s)' = IF s = n THEN TailOf(n) + Len(r) ELSE TailOf(s)

LEMMA PassRecords ==
    ASSUME DeliveryInv, NEW n \in Nodes, NEW S, NEW j \in JournalRecord(S), NEW force \in BOOLEAN,
           journal' = [journal EXCEPT ![n] = Pruned(j, force)],
           j.floor = journal[n].floor, j.log = journal[n].log,
           \A d \in Nodes : j.referenceSafe <= cursor[d][n]
    PROVE  /\ PrunedRecords(n, PruneCount(j, force), DelayedReleases(j, force))
           /\ \A s \in Nodes \ {n} : journal'[s] = journal[s]
           /\ journal'[n].floor = j.floor + PruneCount(j, force)
           /\ journal'[n].settled = j.settled /\ journal'[n].derived = j.derived
           /\ PruneCount(j, force) = 0 \/ journal'[n].floor <= j.derived
  <1>1. PICK c \in Nat : /\ c = PruneCount(j, force)
                         /\ \/ c = 0
                            \/ j.floor + c <= j.referenceSafe /\ j.floor + c <= j.derived
    BY PruneCountBound
  <1>2. PICK r \in Seq({Lifecycle(-1), Lifecycle(0)}) : r = DelayedReleases(j, force)
    BY ReleasesShape
  <1>3. /\ j.log \in Seq(S) /\ Len(j.log) \in Nat /\ j.floor \in Nat /\ j.referenceSafe \in Nat
        /\ j.settled \in Nat /\ j.derived \in Nat
        /\ j = [log |-> j.log, floor |-> j.floor, settled |-> j.settled,
                referenceSafe |-> j.referenceSafe, derived |-> j.derived]
    BY DEF JournalRecord
  <1>4. TailOf(n) = j.floor + Len(j.log) BY DEF TailOf
  <1>5. \A d \in Nodes : /\ cursor[d][n] \in Nat /\ cursor[d][n] <= TailOf(n)
                         /\ journal[n].floor <= cursor[d][n]
    BY DEF DeliveryInv, Shaped, CutsOK
  <1>6. \A d \in Nodes : j.floor + c <= cursor[d][n] BY <1>1, <1>3, <1>5
  <1>7. c <= Len(j.log) BY <1>3, <1>4, <1>5, <1>6
  <1> DEFINE R == {Lifecycle(-1), Lifecycle(0)}
             kept == Kept(j.log, c, r)
  <1>8. r \in Seq(R) OBVIOUS
  <1> HIDE DEF R
  <1>9. kept \in Seq(S \cup R) /\ Len(kept) = Len(j.log) - c + Len(r)
    <2>1. PICK g \in Seq(S) : g = j.log BY <1>3
    <2>2. c <= Len(g) BY <1>7, <2>1
    <2>3. KeptShape(S, R, g, c, r) BY <1>8, <2>2, SuffixShape, Zenon
    <2> QED BY <2>1, <2>3 DEF KeptShape
  <1>10. Pruned(j, force) = [j EXCEPT !.log = kept, !.floor = j.floor + c]
    BY <1>1, <1>2 DEF Pruned, Kept
  <1>11. kept = Kept(j.log, c, r) OBVIOUS
  <1> HIDE DEF kept
  <1>12. PICK k : k = Pruned(j, force) OBVIOUS
  <1>13. /\ k.log = kept /\ k.floor = j.floor + c /\ k.settled = j.settled /\ k.derived = j.derived
         /\ k \in JournalRecord(S \cup R)
    <2>1. PICK f \in Nat : f = j.floor + c BY <1>3
    <2>2. k = [log |-> kept, floor |-> f, settled |-> j.settled,
               referenceSafe |-> j.referenceSafe, derived |-> j.derived]
      BY <1>3, <1>10, <1>12, <2>1
    <2>3. k \in JournalRecord(S \cup R) BY <1>3, <1>9, <2>2 DEF JournalRecord
    <2> QED BY <2>1, <2>2, <2>3
  <1>14. \A o \in Nat :
           Entry(k, o) = IF o \in (j.floor + Len(j.log) + 1)..(j.floor + Len(j.log) + Len(r))
                         THEN r[o - (j.floor + Len(j.log))]
                         ELSE IF o <= j.floor + c THEN Lifecycle(0) ELSE Entry(j, o)
    BY <1>7, <1>8, <1>11, <1>13, EntryKept
  <1>15. \A o \in Nat : At(n, o) = Entry(j, o) BY AtEntry DEF Entry
  <1>16. /\ journal'[n] = k /\ \A s \in Nodes \ {n} : journal'[s] = journal[s]
         /\ \A s \in Nodes \ {n}, o \in Nat : At(s, o)' = At(s, o)
         /\ \A o \in Nat : At(n, o)' = Entry(k, o)
    BY <1>12, OtherRecords
  <1>17. Len(r) \in Nat OBVIOUS
  <1>18. k.floor + Len(k.log) = TailOf(n) + Len(r)
    <2>1. PICK f \in Nat, g \in Nat, h \in Nat : f = j.floor /\ g = Len(j.log) /\ h = Len(r)
      BY <1>3, <1>17
    <2>2. k.floor = f + c /\ Len(k.log) = g - c + h BY <1>9, <1>13, <2>1
    <2>3. \A x, y, z, w \in Nat : (x + w) + (y - w + z) = (x + y) + z OBVIOUS
    <2>4. (f + c) + (g - c + h) = (f + g) + h BY <2>3
    <2> QED BY <1>4, <2>1, <2>2, <2>4
  <1>19. \A s \in Nodes : TailOf(s)' = IF s = n THEN TailOf(n) + Len(r) ELSE TailOf(s)
    BY <1>16, <1>18 DEF TailOf
  <1>20. \A o \in Nat :
           At(n, o)' = IF o \in (TailOf(n) + 1)..(TailOf(n) + Len(r)) THEN r[o - TailOf(n)]
                       ELSE IF o <= journal[n].floor + c THEN Lifecycle(0) ELSE At(n, o)
    BY <1>4, <1>14, <1>15, <1>16
  <1>21. PrunedRecords(n, c, r)
    BY <1>6, <1>7, <1>16, <1>19, <1>20 DEF PrunedRecords
  <1>22. /\ journal'[n].floor = j.floor + c
         /\ journal'[n].settled = j.settled /\ journal'[n].derived = j.derived
         /\ c = 0 \/ journal'[n].floor <= j.derived
    BY <1>1, <1>13, <1>16
  <1> QED BY <1>1, <1>2, <1>16, <1>21, <1>22

-----------------------------------------------------------------------------
(* The invariant of the counts. *)

CopyRecord == [held : BOOLEAN, refs : Nat, awaiting : BOOLEAN, age : 0..Ttl]
RequestRecord ==
    [phase : {"idle", "ready", "verified", "waiting"}, put : BOOLEAN,
     source : Nodes \cup {"-"}, id : Nat, age : Nat]
GcRecord == [phase : {"idle", "checking", "safe"}, left : SUBSET Nodes, age : Nat]
EventRecord == [id : Nat, path : Paths \cup {"-"}, delta : -1..1]

Open(p) == request[p].phase # "idle"

(* A copy that is not held counts nothing, and a reservation counts as one. *)
CopyOK(copy) ==
    /\ copy \in CopyRecord
    /\ ~copy.held => copy.refs = 0
    /\ copy.awaiting => copy.refs = 1

(* Deltas are routed to owners only.                                        *)
LifeOK ==
    /\ life \in [Nodes -> CopyRecord]
    /\ \A n \in Nodes : CopyOK(life[n]) /\ (n \notin Owners => Counted(life[n]) = 0)

Typed ==
    /\ request \in [Paths -> RequestRecord]
    /\ requests \in Nat
    /\ stored \subseteq VersionRecord /\ IsFiniteSet(stored)
    /\ head \in [Paths -> Nat]
    /\ \A s \in Nodes, o \in Nat : At(s, o) \in EventRecord

(* A request's number names at most one descriptor, and at most one record  *)
(* of a journal; that of an open request names none yet.                    *)
IdsOK ==
    /\ \A v \in stored : v.id <= requests
    /\ \A v, w \in stored : v.id = w.id => v = w
    /\ \A s \in Nodes, o \in Nat : At(s, o).id <= requests
    /\ \A s \in Nodes, o, u \in Nat : At(s, o).id = At(s, u).id /\ At(s, o).id # 0 => o = u
    /\ \A p \in Paths : Open(p) =>
        /\ request[p].id \in 1..requests
        /\ \A v \in stored : v.id # request[p].id
        /\ \A s \in Nodes, o \in Nat : At(s, o).id # request[p].id
    /\ \A p, q \in Paths : Open(p) /\ Open(q) /\ request[p].id = request[q].id => p = q

Conserved ==
    \A d \in Owners :
        Counted(life[d]) + Cardinality(Acquiring(d)) - Cardinality(Releasing(d)) = Cardinality(Puts)

(* Every reference stored or being released comes from a request of its     *)
(* own: this bounds the counts.                                             *)
OpenPuts == {i \in 1..requests : \E p \in Paths : Open(p) /\ request[p].put /\ request[p].id = i}
Budget ==
    \A d \in Owners :
        Cardinality(Puts) + Cardinality(Releasing(d)) + Cardinality(OpenPuts) <= requests

CountInv == Typed /\ LifeOK /\ IdsOK /\ Conserved /\ Budget

LEMMA ConservedMeans == Conserved <=> ReferencesConserved
  BY DEF Conserved, ReferencesConserved, Net, Acquiring, Releasing, Puts

LEMMA FiniteCounts ==
    (Shaped /\ Typed) =>
      /\ IsFiniteSet(Puts) /\ Cardinality(Puts) \in Nat
      /\ IsFiniteSet(OpenPuts) /\ Cardinality(OpenPuts) \in Nat
      /\ \A d \in Nodes : /\ IsFiniteSet(Acquiring(d)) /\ Cardinality(Acquiring(d)) \in Nat
                          /\ IsFiniteSet(Releasing(d)) /\ Cardinality(Releasing(d)) \in Nat
  <1> SUFFICES ASSUME Shaped, Typed
      PROVE  /\ IsFiniteSet(Puts) /\ Cardinality(Puts) \in Nat
             /\ IsFiniteSet(OpenPuts) /\ Cardinality(OpenPuts) \in Nat
             /\ \A d \in Nodes : /\ IsFiniteSet(Acquiring(d)) /\ Cardinality(Acquiring(d)) \in Nat
                                 /\ IsFiniteSet(Releasing(d)) /\ Cardinality(Releasing(d)) \in Nat
    BY Zenon
  <1>1. IsFiniteSet(Puts)
    <2>1. IsFiniteSet(stored) /\ Puts \subseteq stored BY DEF Typed, Puts
    <2> QED BY <2>1, FS_Subset
  <1>2. IsFiniteSet(OpenPuts)
    <2>1. IsFiniteSet(1..requests) BY FS_Interval DEF Typed
    <2>2. OpenPuts \subseteq 1..requests BY DEF OpenPuts
    <2> QED BY <2>1, <2>2, FS_Subset
  <1> QED BY <1>1, <1>2, FiniteInFlight, FS_CardinalityType

LEMMA FiniteCountsNext ==
    Shaped' /\ Typed' =>
      /\ IsFiniteSet(Puts)' /\ Cardinality(Puts)' \in Nat
      /\ IsFiniteSet(OpenPuts)' /\ Cardinality(OpenPuts)' \in Nat
      /\ \A d \in Nodes : /\ IsFiniteSet(Acquiring(d))' /\ Cardinality(Acquiring(d))' \in Nat
                          /\ IsFiniteSet(Releasing(d))' /\ Cardinality(Releasing(d))' \in Nat
  <1>1. ((Shaped /\ Typed) =>
      /\ IsFiniteSet(Puts) /\ Cardinality(Puts) \in Nat
      /\ IsFiniteSet(OpenPuts) /\ Cardinality(OpenPuts) \in Nat
      /\ \A d \in Nodes : /\ IsFiniteSet(Acquiring(d)) /\ Cardinality(Acquiring(d)) \in Nat
                          /\ IsFiniteSet(Releasing(d)) /\ Cardinality(Releasing(d)) \in Nat)'
    BY FiniteCounts, PTL
  <1> QED BY <1>1

-----------------------------------------------------------------------------
(* Steps that neither deliver nor journal a reference. *)

(* The cursors of d pass only records without a delta.                      *)
QuietAt(d) ==
    \A s \in Nodes :
        /\ cursor[d][s] <= cursor'[d][s]
        /\ \A o \in Nat : cursor[d][s] < o /\ o <= cursor'[d][s] => At(s, o).delta = 0
QuietCursors == \A d \in Nodes : QuietAt(d)

LEMMA QuietWhenKept ==
    ASSUME DeliveryInv, cursor' = cursor
    PROVE  QuietCursors
  <1>1. \A d, s \in Nodes : cursor[d][s] \in Nat BY DEF DeliveryInv, Shaped
  <1> QED BY <1>1 DEF QuietCursors, QuietAt

LEMMA QuietWhenInert ==
    ASSUME DeliveryInv, NEW n \in Nodes, cursor' = [cursor EXCEPT ![n][n] = SelfCursor(n)]
    PROVE  QuietCursors
  <1>1. cursor \in [Nodes -> [Nodes -> Nat]] BY DEF DeliveryInv, Shaped
  <1>2. TailOf(n) \in Nat BY TailNumber DEF DeliveryInv
  <1>3. \A d, s \in Nodes : cursor'[d][s] = IF d = n /\ s = n THEN SelfCursor(n) ELSE cursor[d][s]
    BY <1>1
  <1>4. \/ SelfCursor(n) = cursor[n][n]
        \/ cursor[n][n] = TailOf(n) /\ SelfCursor(n) = TailOf(n) + 1
    BY DEF SelfCursor
  <1>5. At(n, TailOf(n) + 1).delta = 0 BY TailUnused DEF Lifecycle, Record
  <1> SUFFICES ASSUME NEW d \in Nodes, NEW s \in Nodes
               PROVE  /\ cursor[d][s] <= cursor'[d][s]
                      /\ \A o \in Nat : cursor[d][s] < o /\ o <= cursor'[d][s] => At(s, o).delta = 0
    BY DEF QuietCursors, QuietAt
  <1>6. cursor[d][s] \in Nat BY <1>1
  <1>7. CASE cursor'[d][s] = cursor[d][s] BY <1>6, <1>7
  <1>8. CASE cursor'[d][s] # cursor[d][s]
    <2>1. d = n /\ s = n /\ cursor[d][s] = TailOf(n) /\ cursor'[d][s] = TailOf(n) + 1
      BY <1>3, <1>4, <1>8
    <2>2. \A o \in Nat : cursor[d][s] < o /\ o <= cursor'[d][s] => o = TailOf(n) + 1
      BY <1>2, <2>1
    <2>3. cursor[d][s] <= cursor'[d][s] BY <1>2, <2>1
    <2> QED BY <1>5, <2>1, <2>2, <2>3
  <1> QED BY <1>7, <1>8

LEMMA FlightKept ==
    ASSUME DeliveryInv, DeliveryInv', SameRecords, NEW d \in Nodes, QuietAt(d)
    PROVE  Acquiring(d)' = Acquiring(d) /\ Releasing(d)' = Releasing(d)
  <1>1. ASSUME NEW s \in Journaled, NEW o \in Nat, At(s, o).delta # 0
        PROVE  At(s, o)' = At(s, o) /\ (cursor[d][s] < o <=> cursor'[d][s] < o)
    <2>1. s \in Nodes BY JournaledNodes
    <2>2. cursor[d][s] \in Nat /\ cursor'[d][s] \in Nat BY <2>1 DEF DeliveryInv, Shaped
    <2>3. At(s, o)' = At(s, o) BY <2>1 DEF SameRecords
    <2>4. cursor[d][s] <= cursor'[d][s] /\ ~(cursor[d][s] < o /\ o <= cursor'[d][s])
      BY <1>1, <2>1 DEF QuietAt
    <2> QED BY <2>2, <2>3, <2>4
  <1>2. \A s \in Journaled, o \in Nat : At(s, o)' = At(s, o)
    BY JournaledNodes DEF SameRecords
  <1>3. \A s \in Journaled, o \in Nat :
          /\ cursor[d][s] < o /\ At(s, o).delta > 0 <=> cursor'[d][s] < o /\ At(s, o)'.delta > 0
          /\ cursor[d][s] < o /\ At(s, o).delta < 0 <=> cursor'[d][s] < o /\ At(s, o)'.delta < 0
    <2> SUFFICES ASSUME NEW s \in Journaled, NEW o \in Nat
                 PROVE  /\ cursor[d][s] < o /\ At(s, o).delta > 0 <=> cursor'[d][s] < o /\ At(s, o)'.delta > 0
                        /\ cursor[d][s] < o /\ At(s, o).delta < 0 <=> cursor'[d][s] < o /\ At(s, o)'.delta < 0
      BY Zenon
    <2>1. At(s, o)'.delta = At(s, o).delta BY <1>2
    <2>2. CASE At(s, o).delta = 0 BY <2>1, <2>2
    <2>3. CASE At(s, o).delta # 0 BY <1>1, <2>1, <2>3
    <2> QED BY <2>2, <2>3
  <1>4. Shaped /\ Shaped' BY DEF DeliveryInv
  <1>5. \A r : r \in Acquiring(d)' <=> r \in Acquiring(d)
    <2> SUFFICES ASSUME NEW r PROVE r \in Acquiring(d)' <=> r \in Acquiring(d) OBVIOUS
    <2>1. r \in Acquiring(d)' <=> \E s \in Journaled, o \in Nat :
            r = <<s, o>> /\ cursor'[d][s] < o /\ At(s, o)'.delta > 0
      BY <1>4, FlightMembersNext
    <2>2. r \in Acquiring(d) <=> \E s \in Journaled, o \in Nat :
            r = <<s, o>> /\ cursor[d][s] < o /\ At(s, o).delta > 0
      BY <1>4, FlightMembers
    <2> QED BY <1>3, <2>1, <2>2
  <1>6. \A r : r \in Releasing(d)' <=> r \in Releasing(d)
    <2> SUFFICES ASSUME NEW r PROVE r \in Releasing(d)' <=> r \in Releasing(d) OBVIOUS
    <2>1. r \in Releasing(d)' <=> \E s \in Journaled, o \in Nat :
            r = <<s, o>> /\ cursor'[d][s] < o /\ At(s, o)'.delta < 0
      BY <1>4, FlightMembersNext
    <2>2. r \in Releasing(d) <=> \E s \in Journaled, o \in Nat :
            r = <<s, o>> /\ cursor[d][s] < o /\ At(s, o).delta < 0
      BY <1>4, FlightMembers
    <2> QED BY <1>3, <2>1, <2>2
  <1> QED BY <1>5, <1>6

CountsKept == \A d \in Owners : Counted(life'[d]) = Counted(life[d])

LEMMA ConservedKept ==
    ASSUME DeliveryInv, DeliveryInv', Conserved, SameRecords, QuietCursors, CountsKept, stored' = stored
    PROVE  Conserved'
  <1> SUFFICES ASSUME NEW d \in Owners
               PROVE  Counted(life'[d]) + Cardinality(Acquiring(d)') - Cardinality(Releasing(d)')
                        = Cardinality(Puts')
    BY DEF Conserved, Counted
  <1>1. d \in Nodes BY PlacementAssumption
  <1>2. Acquiring(d)' = Acquiring(d) /\ Releasing(d)' = Releasing(d) BY <1>1, FlightKept DEF QuietCursors
  <1>3. Puts' = Puts BY DEF Puts
  <1> QED BY <1>2, <1>3 DEF Conserved, CountsKept

(* Requests end or move on, and none starts.                                *)
RequestsKept ==
    /\ request' \in [Paths -> RequestRecord] /\ requests' = requests
    /\ \A p \in Paths : Open(p)' =>
        /\ Open(p)
        /\ request'[p].id = request[p].id /\ request'[p].put = request[p].put
        /\ request'[p].source = request[p].source

LEMMA IdsKept ==
    ASSUME IdsOK, SameRecords, RequestsKept, stored' = stored
    PROVE  IdsOK'
  <1>1. requests' = requests BY DEF RequestsKept
  <1>2. \A s \in Nodes, o \in Nat : At(s, o)' = At(s, o) BY DEF SameRecords
  <1>3. \A p \in Paths : Open(p)' => Open(p) /\ request'[p].id = request[p].id BY DEF RequestsKept
  <1>4. \A s \in Nodes, o \in Nat : At(s, o)'.id <= requests' BY <1>1, <1>2 DEF IdsOK
  <1>5. \A s \in Nodes, o, u \in Nat : At(s, o)'.id = At(s, u)'.id /\ At(s, o)'.id # 0 => o = u
    BY <1>2 DEF IdsOK
  <1>6. \A p \in Paths : Open(p)' =>
          /\ request'[p].id \in 1..requests'
          /\ \A v \in stored' : v.id # request'[p].id
          /\ \A s \in Nodes, o \in Nat : At(s, o)'.id # request'[p].id
    BY <1>1, <1>2, <1>3 DEF IdsOK
  <1>7. \A p, q \in Paths : Open(p)' /\ Open(q)' /\ request'[p].id = request'[q].id => p = q
    BY <1>3 DEF IdsOK
  <1>8. (\A v \in stored' : v.id <= requests') /\ (\A v, w \in stored' : v.id = w.id => v = w)
    BY <1>1 DEF IdsOK
  <1> QED BY <1>4, <1>5, <1>6, <1>7, <1>8 DEF IdsOK

LEMMA TypedKept ==
    ASSUME Typed, SameRecords, RequestsKept, stored' = stored, head' = head
    PROVE  Typed'
  <1>1. \A s \in Nodes, o \in Nat : At(s, o)' \in EventRecord BY DEF Typed, SameRecords
  <1> QED BY <1>1 DEF Typed, RequestsKept

LEMMA OpenPutsKept ==
    ASSUME RequestsKept, Shaped, Typed
    PROVE  OpenPuts' \subseteq OpenPuts /\ Cardinality(OpenPuts') <= Cardinality(OpenPuts)
  <1>1. OpenPuts' \subseteq OpenPuts BY DEF OpenPuts, RequestsKept
  <1>2. IsFiniteSet(OpenPuts) BY FiniteCounts
  <1> QED BY <1>1, <1>2, FS_Subset

LEMMA BudgetKept ==
    ASSUME DeliveryInv, DeliveryInv', Typed, Typed', Budget, SameRecords, QuietCursors,
           RequestsKept, stored' = stored
    PROVE  Budget'
  <1> SUFFICES ASSUME NEW d \in Owners
               PROVE  Cardinality(Puts') + Cardinality(Releasing(d)') + Cardinality(OpenPuts') <= requests'
    BY DEF Budget
  <1>1. d \in Nodes BY PlacementAssumption
  <1>2. Releasing(d)' = Releasing(d) BY <1>1, FlightKept DEF QuietCursors
  <1>3. Puts' = Puts BY DEF Puts
  <1>4. Cardinality(OpenPuts') <= Cardinality(OpenPuts) BY OpenPutsKept DEF DeliveryInv
  <1>5. /\ Cardinality(Puts) \in Nat /\ Cardinality(Releasing(d)) \in Nat
        /\ Cardinality(OpenPuts) \in Nat /\ Cardinality(OpenPuts') \in Nat
    BY <1>1, FiniteCounts, FiniteCountsNext DEF DeliveryInv
  <1>6. Cardinality(Puts) + Cardinality(Releasing(d)) + Cardinality(OpenPuts) <= requests BY DEF Budget
  <1>7. requests' = requests /\ requests \in Nat BY DEF RequestsKept, Typed
  <1> QED BY <1>2, <1>3, <1>4, <1>5, <1>6, <1>7

-----------------------------------------------------------------------------
(* What a step does to the copies. *)

(* A copy keeps its count, and is not lost or older.                        *)
Refreshed(old, new) ==
    /\ CopyOK(new) /\ Counted(new) = Counted(old)
    /\ old.held => new.held /\ new.age <= old.age

LifeRefreshed ==
    /\ life' \in [Nodes -> CopyRecord]
    /\ \A n \in Nodes : Refreshed(life[n], life'[n])

LEMMA RefreshedSelf ==
    ASSUME NEW copy, CopyOK(copy)
    PROVE  Refreshed(copy, copy)
  <1>1. copy.age \in Int BY GraceAssumption DEF CopyOK, CopyRecord
  <1> QED BY <1>1 DEF Refreshed

LEMMA SealedCopy ==
    ASSUME NEW copy, CopyOK(copy)
    PROVE  Refreshed(copy, Sealed(copy)) /\ Sealed(copy).held /\ Sealed(copy).age = 0
  <1>1. copy \in CopyRecord /\ 0 \in 0..Ttl /\ copy.age \in Nat
    BY GraceAssumption DEF CopyOK, CopyRecord
  <1>2. CASE Valid(copy)
    <2>1. Sealed(copy) = [copy EXCEPT !.age = 0] BY <1>2 DEF Sealed
    <2>2. PICK k \in CopyRecord : k = [copy EXCEPT !.age = 0] BY <1>1 DEF CopyRecord
    <2>3. /\ k.held = copy.held /\ k.refs = copy.refs /\ k.awaiting = copy.awaiting /\ k.age = 0
      BY <1>1, <2>2 DEF CopyRecord
    <2>4. CopyOK(k) /\ Counted(k) = Counted(copy) BY <2>3 DEF CopyOK, Counted
    <2> QED BY <1>1, <1>2, <2>1, <2>2, <2>3, <2>4 DEF Refreshed, Valid
  <1>3. CASE ~Valid(copy)
    <2>1. PICK k \in CopyRecord : k = [held |-> TRUE, refs |-> 1, awaiting |-> TRUE, age |-> 0]
      BY <1>1 DEF CopyRecord
    <2>2. Sealed(copy) = k BY <1>3, <2>1 DEF Sealed
    <2>3. CopyOK(k) /\ Counted(k) = 0 /\ k.held /\ k.age = 0 BY <2>1 DEF CopyOK, Counted
    <2>4. copy.refs = 0 BY <1>3 DEF Valid, CopyOK
    <2>5. Counted(copy) = 0 BY <2>4 DEF Counted
    <2> QED BY <1>1, <2>2, <2>3, <2>5 DEF Refreshed
  <1> QED BY <1>2, <1>3

LEMMA RefreshedTwice ==
    ASSUME NEW a, NEW b, NEW c, CopyOK(a), Refreshed(a, b), Refreshed(b, c)
    PROVE  Refreshed(a, c)
  <1>1. a.age \in Int /\ b.age \in Int /\ c.age \in Int
    BY GraceAssumption DEF Refreshed, CopyOK, CopyRecord
  <1> QED BY <1>1 DEF Refreshed

LEMMA LifeUnchanged ==
    ASSUME LifeOK, life' = life
    PROVE  LifeRefreshed
  BY RefreshedSelf DEF LifeOK, LifeRefreshed

LEMMA LifeSealed ==
    ASSUME LifeOK, NEW u \in Nodes, life' = [life EXCEPT ![u] = Sealed(life[u])]
    PROVE  LifeRefreshed /\ life'[u].held /\ life'[u].age = 0
  <1>1. \A n \in Nodes : CopyOK(life[n]) /\ life[n] \in CopyRecord BY DEF LifeOK
  <1>2. \A n \in Nodes : life'[n] = IF n = u THEN Sealed(life[u]) ELSE life[n] BY DEF LifeOK
  <1>3. \A n \in Nodes : Refreshed(life[n], life'[n]) BY <1>1, <1>2, RefreshedSelf, SealedCopy
  <1>4. \A n \in Nodes : life'[n] \in CopyRecord BY <1>3 DEF Refreshed, CopyOK
  <1>5. life' \in [Nodes -> CopyRecord] BY <1>4 DEF LifeOK
  <1> QED BY <1>1, <1>2, <1>3, <1>5, SealedCopy DEF LifeRefreshed

LEMMA CopiesPlaced ==
    ASSUME NEW copies, \A n \in Nodes : CopyOK(copies[n])
    PROVE  /\ Placed(copies) \in [Nodes -> CopyRecord]
           /\ \A n \in Nodes : Refreshed(copies[n], Placed(copies)[n])
           /\ \A n \in Owners : Placed(copies)[n].held /\ Placed(copies)[n].age = 0
  <1>1. \A n \in Nodes : Placed(copies)[n] = IF n \in Owners THEN Sealed(copies[n]) ELSE copies[n]
    BY DEF Placed
  <1>2. \A n \in Nodes : Refreshed(copies[n], Placed(copies)[n])
    BY <1>1, RefreshedSelf, SealedCopy
  <1>3. \A n \in Nodes : Placed(copies)[n] \in CopyRecord BY <1>2 DEF Refreshed, CopyOK
  <1>4. Placed(copies) \in [Nodes -> CopyRecord] BY <1>3 DEF Placed
  <1>5. \A n \in Owners : Placed(copies)[n].held /\ Placed(copies)[n].age = 0
    BY <1>1, SealedCopy, PlacementAssumption
  <1> QED BY <1>2, <1>4, <1>5

LEMMA LifePlaced ==
    ASSUME LifeOK, life' \in {life, Placed(life)}
    PROVE  LifeRefreshed
  <1>1. CASE life' = life BY <1>1, LifeUnchanged
  <1>2. CASE life' = Placed(life) BY <1>2, CopiesPlaced DEF LifeOK, LifeRefreshed
  <1> QED BY <1>1, <1>2

LEMMA LifePrepared ==
    ASSUME LifeOK, NEW s \in Nodes, life' = PreparedCopies(s)
    PROVE  LifeRefreshed /\ \A n \in Owners : life'[n].held /\ life'[n].age = 0
  <1> DEFINE copies == [life EXCEPT ![s] = IF Valid(life[s]) THEN life[s] ELSE Sealed(life[s])]
  <1>1. life' = Placed(copies) BY DEF PreparedCopies
  <1>2. \A n \in Nodes : CopyOK(life[n]) BY DEF LifeOK
  <1>3. \A n \in Nodes : copies[n] = IF n = s /\ ~Valid(life[s]) THEN Sealed(life[s]) ELSE life[n]
    BY DEF LifeOK
  <1> HIDE DEF copies
  <1>4. \A n \in Nodes : Refreshed(life[n], copies[n]) BY <1>2, <1>3, RefreshedSelf, SealedCopy
  <1>5. \A n \in Nodes : CopyOK(copies[n]) BY <1>4 DEF Refreshed
  <1>6. /\ Placed(copies) \in [Nodes -> CopyRecord]
        /\ \A n \in Nodes : Refreshed(copies[n], Placed(copies)[n])
        /\ \A n \in Owners : Placed(copies)[n].held /\ Placed(copies)[n].age = 0
    BY <1>5, CopiesPlaced
  <1>7. \A n \in Nodes : Refreshed(life[n], life'[n]) BY <1>1, <1>2, <1>4, <1>6, RefreshedTwice
  <1> QED BY <1>1, <1>6, <1>7 DEF LifeRefreshed

LEMMA LifeRefreshedMeans ==
    ASSUME LifeOK, LifeRefreshed
    PROVE  LifeOK' /\ CountsKept
  <1>1. \A n \in Nodes : CopyOK(life'[n]) /\ Counted(life'[n]) = Counted(life[n])
    BY DEF LifeRefreshed, Refreshed
  <1>2. CountsKept BY <1>1, PlacementAssumption DEF CountsKept
  <1>3. \A n \in Nodes : CopyOK(life'[n]) /\ (n \notin Owners => Counted(life'[n]) = 0)
    BY <1>1 DEF LifeOK
  <1>4. life' \in [Nodes -> CopyRecord] BY DEF LifeRefreshed
  <1>5. LifeOK' = (/\ life' \in [Nodes -> CopyRecord]
                   /\ \A n \in Nodes : CopyOK(life'[n]) /\ (n \notin Owners => Counted(life'[n]) = 0))
    BY DEF LifeOK
  <1> QED BY <1>2, <1>3, <1>4, <1>5

(* A copy is collected when it counts nothing.                              *)
LEMMA LifeCollected ==
    ASSUME LifeOK, NEW n \in Nodes, Garbage(life[n]), life' = [life EXCEPT ![n] = NoCopy]
    PROVE  LifeOK' /\ CountsKept
  <1>1. \A m \in Nodes : life'[m] = IF m = n THEN NoCopy ELSE life[m] BY DEF LifeOK
  <1>2. Counted(NoCopy) = 0 /\ CopyOK(NoCopy)
    <2>1. 0 \in 0..Ttl BY GraceAssumption
    <2>2. NoCopy \in CopyRecord BY <2>1 DEF NoCopy, CopyRecord
    <2> QED BY <2>2 DEF NoCopy, CopyOK, Counted
  <1>3. Counted(life[n]) = 0 BY DEF Garbage, Unclaimed, Counted
  <1>4. \A m \in Nodes : CopyOK(life[m]) /\ (m \notin Owners => Counted(life[m]) = 0) BY DEF LifeOK
  <1>5. \A m \in Nodes : CopyOK(life'[m]) /\ Counted(life'[m]) = Counted(life[m])
    BY <1>1, <1>2, <1>3, <1>4
  <1>6. life' \in [Nodes -> CopyRecord] BY <1>2 DEF LifeOK, CopyOK
  <1>7. LifeOK' = (/\ life' \in [Nodes -> CopyRecord]
                   /\ \A m \in Nodes : CopyOK(life'[m]) /\ (m \notin Owners => Counted(life'[m]) = 0))
    BY DEF LifeOK
  <1> QED BY <1>4, <1>5, <1>6, <1>7, PlacementAssumption DEF CountsKept

LEMMA LifeTicked ==
    ASSUME LifeOK, Tick
    PROVE  /\ LifeOK' /\ CountsKept
           /\ \A n \in Nodes : /\ life'[n].held = life[n].held
                               /\ life'[n].age <= life[n].age + 1
  <1> DEFINE t(n) == IF life[n].held /\ life[n].age < Ttl THEN life[n].age + 1 ELSE life[n].age
  <1>1. life' = [n \in Nodes |-> [life[n] EXCEPT !.age = t(n)]] BY DEF Tick
  <1>2. ASSUME NEW n \in Nodes
        PROVE  /\ CopyOK(life'[n]) /\ Counted(life'[n]) = Counted(life[n])
               /\ life'[n].held = life[n].held /\ life'[n].age <= life[n].age + 1
    <2>1. life[n] \in CopyRecord /\ CopyOK(life[n]) BY DEF LifeOK
    <2>2. life[n].age \in 0..Ttl BY <2>1 DEF CopyRecord
    <2>3. t(n) \in 0..Ttl /\ t(n) <= life[n].age + 1 BY <2>2, GraceAssumption
    <2> HIDE DEF t
    <2>4. PICK k \in CopyRecord : k = [life[n] EXCEPT !.age = t(n)] BY <2>1, <2>3 DEF CopyRecord
    <2>5. /\ k.held = life[n].held /\ k.refs = life[n].refs
          /\ k.awaiting = life[n].awaiting /\ k.age = t(n)
      BY <2>1, <2>4 DEF CopyRecord
    <2>6. life'[n] = k BY <1>1, <2>4
    <2> QED BY <2>1, <2>3, <2>5, <2>6 DEF CopyOK, Counted
  <1> HIDE DEF t
  <1>3. life' \in [Nodes -> CopyRecord] BY <1>1, <1>2 DEF CopyOK
  <1>4. \A m \in Nodes : m \notin Owners => Counted(life[m]) = 0 BY DEF LifeOK
  <1>5. LifeOK' = (/\ life' \in [Nodes -> CopyRecord]
                   /\ \A m \in Nodes : CopyOK(life'[m]) /\ (m \notin Owners => Counted(life'[m]) = 0))
    BY DEF LifeOK
  <1>6. LifeOK' BY <1>2, <1>3, <1>4, <1>5
  <1> QED BY <1>2, <1>6, PlacementAssumption DEF CountsKept

-----------------------------------------------------------------------------
(* A batch is applied. *)

PositiveOf(F) == {r \in F : Delta(r) > 0}
NegativeOf(F) == {r \in F : Delta(r) < 0}

LEMMA RoutedRecords ==
    ASSUME DeliveryInv, NEW s \in Nodes, NEW d \in Nodes
    PROVE  /\ IsFiniteSet(Routed(s, d))
           /\ \A r : r \in Routed(s, d) <=>
                \E o \in Nat : /\ r = <<s, o>> /\ d \in Owners
                               /\ pass[s].seen[d] < o /\ o <= pass[s].through
                               /\ At(s, o).delta # 0
  <1>1. pass[s] \in PassRecord BY DEF DeliveryInv, Shaped
  <1>2. PICK a \in Nat, b \in Nat : a = pass[s].seen[d] /\ b = pass[s].through
    BY <1>1 DEF PassRecord
  <1> DEFINE Row == {<<s, o>> : o \in (a + 1)..b}
  <1>3. IsFiniteSet(Row)
    <2>1. PICK c \in Nat : c = a + 1 OBVIOUS
    <2>2. IsFiniteSet({<<s, o>> : o \in c..b}) BY FiniteRow
    <2> QED BY <2>1, <2>2
  <1>4. Routed(s, d) = {r \in Row : d \in Owners /\ Delta(r) # 0} BY <1>2 DEF Routed
  <1>5. IsFiniteSet(Routed(s, d))
    <2>1. Routed(s, d) \subseteq Row BY <1>4
    <2> HIDE DEF Row
    <2> QED BY <1>3, <2>1, FS_Subset
  <1>6. \A o : Delta(<<s, o>>) = At(s, o).delta BY DEF Delta
  <1>7. \A r : r \in Row <=> \E o \in Nat : r = <<s, o>> /\ a < o /\ o <= b OBVIOUS
  <1>8. ASSUME NEW r
        PROVE  r \in Routed(s, d) <=>
                \E o \in Nat : /\ r = <<s, o>> /\ d \in Owners
                               /\ a < o /\ o <= b
                               /\ At(s, o).delta # 0
    <2> HIDE DEF Row
    <2> QED BY <1>4, <1>6, <1>7
  <1> QED BY <1>2, <1>5, <1>8

(* The records applied are those in flight to d up to the end of the page.  *)
LEMMA BatchFlight ==
    ASSUME DeliveryInv, DeliveryInv', NEW s \in Journaled, NEW d \in Owners, SameRecords,
           pass[s].seen[d] = cursor[d][s], cursor[d][s] <= pass[s].through,
           cursor'[d][s] = pass[s].through,
           \A t \in Nodes \ {s} : /\ cursor[d][t] <= cursor'[d][t]
                                  /\ \A o \in Nat : cursor[d][t] < o /\ o <= cursor'[d][t]
                                                        => At(t, o).delta = 0
    PROVE  /\ Acquiring(d)' = Acquiring(d) \ PositiveOf(Routed(s, d))
           /\ Releasing(d)' = Releasing(d) \ NegativeOf(Routed(s, d))
           /\ PositiveOf(Routed(s, d)) \subseteq Acquiring(d)
           /\ NegativeOf(Routed(s, d)) \subseteq Releasing(d)
  <1>1. s \in Nodes /\ d \in Nodes BY JournaledNodes, PlacementAssumption
  <1>2. \A t \in Nodes : cursor[d][t] \in Nat /\ cursor'[d][t] \in Nat
    BY <1>1 DEF DeliveryInv, Shaped
  <1>3. \A t \in Journaled, o \in Nat : At(t, o)' = At(t, o)
    BY JournaledNodes DEF SameRecords
  <1>4. ASSUME NEW t \in Journaled, NEW o \in Nat, At(t, o).delta # 0
        PROVE  cursor'[d][t] < o <=> cursor[d][t] < o /\ <<t, o>> \notin Routed(s, d)
    <2>1. t \in Nodes BY JournaledNodes
    <2>2. CASE t = s
      <3>1. <<t, o>> \in Routed(s, d) <=> pass[s].seen[d] < o /\ o <= pass[s].through
        BY <1>1, <1>4, <2>2, RoutedRecords
      <3> QED BY <1>1, <1>2, <2>2, <3>1
    <2>3. CASE t # s
      <3>1. <<t, o>> \notin Routed(s, d) BY <1>1, <2>3, RoutedRecords
      <3>2. cursor[d][t] <= cursor'[d][t] /\ ~(cursor[d][t] < o /\ o <= cursor'[d][t])
        BY <1>4, <2>1, <2>3
      <3>3. cursor[d][t] \in Nat /\ cursor'[d][t] \in Nat BY <1>2, <2>1
      <3> QED BY <3>1, <3>2, <3>3
    <2> QED BY <2>2, <2>3
  <1>5. \A t, o : Delta(<<t, o>>) = At(t, o).delta BY DEF Delta
  <1>6. ASSUME NEW r
        PROVE  /\ r \in Acquiring(d)' <=> \E t \in Journaled, o \in Nat :
                    r = <<t, o>> /\ cursor'[d][t] < o /\ At(t, o)'.delta > 0
               /\ r \in Releasing(d)' <=> \E t \in Journaled, o \in Nat :
                    r = <<t, o>> /\ cursor'[d][t] < o /\ At(t, o)'.delta < 0
               /\ r \in Acquiring(d) <=> \E t \in Journaled, o \in Nat :
                    r = <<t, o>> /\ cursor[d][t] < o /\ At(t, o).delta > 0
               /\ r \in Releasing(d) <=> \E t \in Journaled, o \in Nat :
                    r = <<t, o>> /\ cursor[d][t] < o /\ At(t, o).delta < 0
    BY <1>1, FlightMembers, FlightMembersNext DEF DeliveryInv
  <1>7. ASSUME NEW r PROVE r \in Acquiring(d)' <=> r \in Acquiring(d) \ PositiveOf(Routed(s, d))
    <2>1. ASSUME r \in Acquiring(d)' PROVE r \in Acquiring(d) /\ r \notin PositiveOf(Routed(s, d))
      <3>1. PICK t \in Journaled, o \in Nat : r = <<t, o>> /\ cursor'[d][t] < o /\ At(t, o)'.delta > 0
        BY <1>6, <2>1
      <3>2. At(t, o).delta > 0 BY <1>3, <3>1
      <3>3. At(t, o).delta # 0 BY <3>2
      <3>4. cursor[d][t] < o /\ r \notin Routed(s, d) BY <1>4, <3>1, <3>3
      <3> QED BY <1>6, <3>1, <3>2, <3>4 DEF PositiveOf
    <2>2. ASSUME r \in Acquiring(d), r \notin PositiveOf(Routed(s, d)) PROVE r \in Acquiring(d)'
      <3>1. PICK t \in Journaled, o \in Nat : r = <<t, o>> /\ cursor[d][t] < o /\ At(t, o).delta > 0
        BY <1>6, <2>2
      <3>2. At(t, o)'.delta > 0 /\ At(t, o).delta # 0 BY <1>3, <3>1
      <3>3. r \notin Routed(s, d) BY <1>5, <2>2, <3>1 DEF PositiveOf
      <3>4. cursor'[d][t] < o BY <1>4, <3>1, <3>2, <3>3
      <3> QED BY <1>6, <3>1, <3>2, <3>4
    <2> QED BY <2>1, <2>2
  <1>8. ASSUME NEW r PROVE r \in Releasing(d)' <=> r \in Releasing(d) \ NegativeOf(Routed(s, d))
    <2>1. ASSUME r \in Releasing(d)' PROVE r \in Releasing(d) /\ r \notin NegativeOf(Routed(s, d))
      <3>1. PICK t \in Journaled, o \in Nat : r = <<t, o>> /\ cursor'[d][t] < o /\ At(t, o)'.delta < 0
        BY <1>6, <2>1
      <3>2. At(t, o).delta < 0 BY <1>3, <3>1
      <3>3. At(t, o).delta # 0 BY <3>2
      <3>4. cursor[d][t] < o /\ r \notin Routed(s, d) BY <1>4, <3>1, <3>3
      <3> QED BY <1>6, <3>1, <3>2, <3>4 DEF NegativeOf
    <2>2. ASSUME r \in Releasing(d), r \notin NegativeOf(Routed(s, d)) PROVE r \in Releasing(d)'
      <3>1. PICK t \in Journaled, o \in Nat : r = <<t, o>> /\ cursor[d][t] < o /\ At(t, o).delta < 0
        BY <1>6, <2>2
      <3>2. At(t, o)'.delta < 0 /\ At(t, o).delta # 0 BY <1>3, <3>1
      <3>3. r \notin Routed(s, d) BY <1>5, <2>2, <3>1 DEF NegativeOf
      <3>4. cursor'[d][t] < o BY <1>4, <3>1, <3>2, <3>3
      <3> QED BY <1>6, <3>1, <3>2, <3>4
    <2> QED BY <2>1, <2>2
  <1>9. ASSUME NEW r \in Routed(s, d)
        PROVE  (Delta(r) > 0 => r \in Acquiring(d)) /\ (Delta(r) < 0 => r \in Releasing(d))
    <2>1. PICK o \in Nat : r = <<s, o>> /\ pass[s].seen[d] < o
      BY <1>1, RoutedRecords
    <2> QED BY <1>5, <1>6, <2>1
  <1>10. /\ PositiveOf(Routed(s, d)) \subseteq Acquiring(d)
         /\ NegativeOf(Routed(s, d)) \subseteq Releasing(d)
    BY <1>9 DEF PositiveOf, NegativeOf
  <1> QED BY <1>7, <1>8, <1>10

LEMMA NetOf ==
    ASSUME NEW F, IsFiniteSet(F)
    PROVE  /\ IsFiniteSet(PositiveOf(F)) /\ Cardinality(PositiveOf(F)) \in Nat
           /\ IsFiniteSet(NegativeOf(F)) /\ Cardinality(NegativeOf(F)) \in Nat
           /\ Net(F) = Cardinality(PositiveOf(F)) - Cardinality(NegativeOf(F))
  <1>1. PositiveOf(F) \subseteq F /\ NegativeOf(F) \subseteq F BY DEF PositiveOf, NegativeOf
  <1>2. IsFiniteSet(PositiveOf(F)) /\ IsFiniteSet(NegativeOf(F)) BY <1>1, FS_Subset
  <1> QED BY <1>2, FS_CardinalityType DEF Net, PositiveOf, NegativeOf

(* A batch that is applicable record by record leaves a count that is not   *)
(* negative: look at its last negative record.                              *)
LEMMA CountStaysNatural ==
    ASSUME DeliveryInv, NEW s \in Nodes, NEW d \in Nodes, NEW copy, CopyOK(copy),
           Applicable(copy, Routed(s, d))
    PROVE  Counted(copy) + Net(Routed(s, d)) \in Nat
  <1> DEFINE B == Routed(s, d)
             Pos == PositiveOf(B)
             Neg == NegativeOf(B)
  <1>1. IsFiniteSet(B) BY RoutedRecords
  <1>2. /\ IsFiniteSet(Pos) /\ Cardinality(Pos) \in Nat
        /\ IsFiniteSet(Neg) /\ Cardinality(Neg) \in Nat
        /\ Net(B) = Cardinality(Pos) - Cardinality(Neg)
    <2> HIDE DEF B
    <2> QED BY <1>1, NetOf
  <1>3. Counted(copy) \in Nat BY DEF CopyOK, CopyRecord, Counted
  <1>4. CASE Neg = {}
    <2>1. Cardinality(Neg) = 0 BY <1>4, FS_EmptySet
    <2> QED BY <1>2, <1>3, <2>1
  <1>5. CASE Neg # {}
    <2>1. pass[s] \in PassRecord BY DEF DeliveryInv, Shaped
    <2>2. PICK b \in Nat : b = pass[s].through BY <2>1 DEF PassRecord
    <2>3. \A r \in B : \E o \in Nat : r = <<s, o>> /\ o <= b BY <2>2, RoutedRecords
    <2>4. Neg \subseteq B /\ Pos \subseteq B BY DEF PositiveOf, NegativeOf
    <2> DEFINE T == {t \in Nat : \E o \in Nat : <<s, o>> \in Neg /\ t = b - o}
    <2>5. T # {}
      <3>1. PICK r \in Neg : TRUE BY <1>5
      <3>2. PICK o \in Nat : r = <<s, o>> /\ o <= b BY <2>3, <2>4, <3>1
      <3>3. b - o \in Nat BY <3>2
      <3> QED BY <3>1, <3>2, <3>3
    <2>6. T \in SUBSET Nat OBVIOUS
    <2>7. PICK m \in T : \A x \in T : m <= x
      <3> HIDE DEF T
      <3> QED BY <2>5, <2>6, LeastNumber
    <2>8. PICK z \in Nat : <<s, z>> \in Neg /\ m = b - z BY <2>7
    <2>9. ASSUME NEW o \in Nat, <<s, o>> \in Neg PROVE o <= z
      <3>1. PICK u \in Nat : <<s, o>> = <<s, u>> /\ u <= b BY <2>3, <2>4, <2>9
      <3>2. o <= b BY <3>1
      <3>3. b - o \in T BY <2>9, <3>2
      <3>4. m <= b - o BY <2>7, <3>3
      <3> QED BY <2>8, <3>4
    <2> DEFINE last == <<s, z>>
               F == {h \in B : h[2] < last[2]}
    <2>10. last \in B /\ Delta(last) < 0 /\ last[2] = z BY <2>4, <2>8 DEF NegativeOf
    <2>11. B # {} BY <2>10
    <2>12. Counted(copy) + Net(F) > 0
      <3>1. \A r \in B : Delta(r) < 0 => Counted(copy) + Net({h \in B : h[2] < r[2]}) > 0
        BY <2>11 DEF Applicable
      <3> QED BY <2>10, <3>1
    <2>13. IsFiniteSet(F) BY <1>1, FS_Subset
    <2>14. /\ Cardinality(PositiveOf(F)) \in Nat /\ Cardinality(NegativeOf(F)) \in Nat
           /\ IsFiniteSet(NegativeOf(F))
           /\ Net(F) = Cardinality(PositiveOf(F)) - Cardinality(NegativeOf(F))
      <3> HIDE DEF F
      <3> QED BY <2>13, NetOf
    <2>15. PositiveOf(F) \subseteq Pos BY DEF PositiveOf
    <2>16. Cardinality(PositiveOf(F)) <= Cardinality(Pos)
      <3> HIDE DEF F, Pos
      <3> QED BY <1>2, <2>15, FS_Subset
    <2>17. Neg = NegativeOf(F) \cup {last} /\ last \notin NegativeOf(F)
      <3>1. ASSUME NEW r \in Neg, r # last PROVE r \in NegativeOf(F)
        <4>1. PICK o \in Nat : r = <<s, o>> BY <2>3, <2>4, <3>1
        <4>2. o <= z BY <2>9, <3>1, <4>1
        <4>3. o # z BY <3>1, <4>1
        <4>4. r[2] < last[2] BY <2>10, <4>1, <4>2, <4>3
        <4> QED BY <2>4, <3>1, <4>4 DEF NegativeOf
      <3>2. NegativeOf(F) \subseteq Neg BY DEF NegativeOf
      <3>3. last \notin F BY <2>10
      <3>4. last \in Neg BY <2>8
      <3> QED BY <3>1, <3>2, <3>3, <3>4 DEF NegativeOf
    <2>18. Cardinality(Neg) = Cardinality(NegativeOf(F)) + 1
      <3> HIDE DEF F, Neg, last
      <3> QED BY <2>14, <2>17, FS_AddElement
    <2> HIDE DEF F, Pos, Neg, B
    <2> QED BY <1>2, <1>3, <2>12, <2>14, <2>16, <2>18 DEF B
  <1> QED BY <1>4, <1>5

(* The step that applies a batch on d.                                      *)
LEMMA ApplyCursors ==
    ASSUME DeliveryInv, NEW s \in Nodes, NEW d \in Nodes, NEW ok \in BOOLEAN, ApplyBatch(s, d, ok)
    PROVE  /\ SameRecords
           /\ \A e \in Nodes \ {d} : cursor'[e] = cursor[e]
           /\ cursor'[d][s] = pass[s].through
           /\ pass[s].seen[d] = cursor[d][s] /\ cursor[d][s] <= pass[s].through
           /\ \A t \in Nodes \ {s} :
                /\ cursor[d][t] <= cursor'[d][t]
                /\ \A o \in Nat : cursor[d][t] < o /\ o <= cursor'[d][t] => At(t, o).delta = 0
  <1> DEFINE batch == Routed(s, d)
             c == IF batch = {} THEN cursor[d][d] ELSE SelfCursor(d)
  <1>1. /\ d \in pass[s].todo /\ pass[s].seen[d] = cursor[d][s]
        /\ journal' = (IF batch = {} THEN journal ELSE [journal EXCEPT ![d] = AppendInert(d)])
        /\ cursor' = [cursor EXCEPT ![d] =
                [(IF batch = {} THEN cursor[d] ELSE [cursor[d] EXCEPT ![d] = SelfCursor(d)])
                    EXCEPT ![s] = pass[s].through]]
    BY DEF ApplyBatch
  <1> HIDE DEF batch
  <1>2. SameRecords BY <1>1, SameWhenKept, SameWhenInert
  <1>3. cursor \in [Nodes -> [Nodes -> Nat]] BY DEF DeliveryInv, Shaped
  <1>4. /\ \A e \in Nodes \ {d} : cursor'[e] = cursor[e]
        /\ \A t \in Nodes : cursor'[d][t] = IF t = s THEN pass[s].through
                                            ELSE IF t = d THEN c ELSE cursor[d][t]
    BY <1>1, <1>3
  <1>5. cursor[d][s] < pass[s].through BY <1>1 DEF DeliveryInv, PassOK
  <1>6. cursor[d][s] \in Nat /\ pass[s].through \in Nat
    <2>1. pass[s] \in PassRecord BY DEF DeliveryInv, Shaped
    <2> QED BY <1>3, <2>1 DEF PassRecord
  <1>8. ASSUME NEW t \in Nodes \ {s}
        PROVE  /\ cursor[d][t] <= cursor'[d][t]
               /\ \A o \in Nat : cursor[d][t] < o /\ o <= cursor'[d][t] => At(t, o).delta = 0
    <2>1. cursor[d][t] \in Nat BY <1>3
    <2>2. CASE t = d /\ c # cursor[d][d]
      <3>1. cursor[d][d] = TailOf(d) /\ c = TailOf(d) + 1 BY <2>2 DEF SelfCursor
      <3>2. cursor'[d][t] = TailOf(d) + 1 /\ cursor[d][t] = TailOf(d) BY <1>4, <2>2, <3>1
      <3>3. TailOf(d) \in Nat BY TailNumber DEF DeliveryInv
      <3>4. At(d, TailOf(d) + 1).delta = 0 BY TailUnused DEF Lifecycle, Record
      <3>5. \A o \in Nat : TailOf(d) < o /\ o <= TailOf(d) + 1 => o = TailOf(d) + 1 BY <3>3
      <3> QED BY <2>2, <3>2, <3>3, <3>4, <3>5
    <2>3. CASE ~(t = d /\ c # cursor[d][d])
      <3>1. cursor'[d][t] = cursor[d][t] BY <1>4, <2>3
      <3> QED BY <2>1, <3>1
    <2> QED BY <2>2, <2>3
  <1>9. cursor'[d][s] = pass[s].through BY <1>4
  <1>10. pass[s].seen[d] = cursor[d][s] BY <1>1
  <1>11. cursor[d][s] <= pass[s].through BY <1>5, <1>6
  <1>12. \A e \in Nodes \ {d} : cursor'[e] = cursor[e] BY <1>4
  <1>13. \A t \in Nodes \ {s} :
            /\ cursor[d][t] <= cursor'[d][t]
            /\ \A o \in Nat : cursor[d][t] < o /\ o <= cursor'[d][t] => At(t, o).delta = 0
    BY <1>8
  <1> QED BY <1>2, <1>9, <1>10, <1>11, <1>12, <1>13

LEMMA ApplyLife ==
    ASSUME DeliveryInv, LifeOK, NEW s \in Nodes, NEW d \in Nodes, NEW ok \in BOOLEAN,
           ApplyBatch(s, d, ok)
    PROVE  /\ LifeOK'
           /\ Counted(life'[d]) = Counted(life[d]) + Net(Routed(s, d))
           /\ \A n \in Nodes \ {d} : life'[n] = life[n]
           /\ life[d].held => life'[d].held /\ life'[d].age <= life[d].age
  <1> DEFINE B == Routed(s, d)
  <1>1. Applicable(life[d], B) /\ life' = [life EXCEPT ![d] = Applied(life[d], B)]
    BY DEF ApplyBatch
  <1>2. life \in [Nodes -> CopyRecord] /\ \A n \in Nodes : CopyOK(life[n]) BY DEF LifeOK
  <1>3. life'[d] = Applied(life[d], B) /\ \A n \in Nodes \ {d} : life'[n] = life[n] BY <1>1, <1>2
  <1>4. life[d].age \in Nat /\ Counted(life[d]) \in Nat /\ life[d] \in CopyRecord
    BY <1>2, GraceAssumption DEF CopyRecord, Counted
  <1>5. PICK k : k = Applied(life[d], B) OBVIOUS
  <1>6. /\ CopyOK(k) /\ Counted(k) = Counted(life[d]) + Net(B)
        /\ d \notin Owners => Counted(k) = Counted(life[d])
        /\ life[d].held => k.held /\ k.age <= life[d].age
    <2>1. CASE B = {}
      <3>1. k = life[d] BY <1>5, <2>1 DEF Applied
      <3>2. Net(B) = 0
        <4>1. {r \in B : Delta(r) > 0} = {} /\ {r \in B : Delta(r) < 0} = {} BY <2>1
        <4>2. Cardinality({r \in B : Delta(r) > 0}) = 0 /\ Cardinality({r \in B : Delta(r) < 0}) = 0
          BY <4>1, FS_EmptySet
        <4> QED BY <4>2 DEF Net
      <3> HIDE DEF B
      <3> QED BY <1>2, <1>4, <3>1, <3>2
    <2>2. CASE B # {}
      <3>1. PICK f \in Nat : f = Counted(life[d]) + Net(B) BY <1>1, <1>2, CountStaysNatural
      <3>2. d \in Owners BY <2>2, RoutedRecords
      <3>3. life[d].held BY <1>1, <2>2 DEF Applicable
      <3> HIDE DEF B
      <3>4. k = [life[d] EXCEPT !.refs = f, !.awaiting = FALSE, !.age = 0]
        BY <1>5, <2>2, <3>1 DEF Applied
      <3>5. 0 \in 0..Ttl BY GraceAssumption
      <3>6. /\ k.held /\ k.refs = f /\ k.awaiting = FALSE /\ k.age = 0 /\ k \in CopyRecord
        BY <1>4, <3>3, <3>4, <3>5 DEF CopyRecord
      <3>7. CopyOK(k) /\ Counted(k) = f BY <3>6 DEF CopyOK, Counted
      <3> QED BY <1>4, <3>1, <3>2, <3>6, <3>7
    <2> QED BY <2>1, <2>2
  <1> HIDE DEF B
  <1>7. \A n \in Nodes : CopyOK(life'[n]) /\ (n \notin Owners => Counted(life'[n]) = 0)
    BY <1>2, <1>3, <1>5, <1>6 DEF LifeOK
  <1>8. life' \in [Nodes -> CopyRecord] BY <1>1, <1>2, <1>5, <1>6 DEF CopyOK
  <1>9. LifeOK' = (/\ life' \in [Nodes -> CopyRecord]
                   /\ \A m \in Nodes : CopyOK(life'[m]) /\ (m \notin Owners => Counted(life'[m]) = 0))
    BY DEF LifeOK
  <1> QED BY <1>3, <1>5, <1>6, <1>7, <1>8, <1>9 DEF B

LEMMA ApplyCounts ==
    ASSUME DeliveryInv, DeliveryInv', CountInv, NEW s \in Journaled, NEW d \in Nodes, NEW ok \in BOOLEAN,
           ApplyBatch(s, d, ok)
    PROVE  CountInv'
  <1>1. s \in Nodes BY JournaledNodes
  <1>2. stored' = stored /\ head' = head /\ request' = request /\ requests' = requests
    BY DEF ApplyBatch
  <1>3. RequestsKept BY <1>2 DEF RequestsKept, CountInv, Typed, Open
  <1>4. SameRecords BY <1>1, ApplyCursors
  <1>5. Typed' /\ IdsOK' BY <1>2, <1>3, <1>4, TypedKept, IdsKept DEF CountInv
  <1>6. LifeOK' BY <1>1, ApplyLife DEF CountInv
  <1>7. Puts' = Puts /\ OpenPuts' = OpenPuts BY <1>2 DEF Puts, OpenPuts, Open
  <1>8. ASSUME NEW e \in Owners
        PROVE  /\ Counted(life'[e]) + Cardinality(Acquiring(e)') - Cardinality(Releasing(e)') = Cardinality(Puts)
               /\ Cardinality(Puts) + Cardinality(Releasing(e)') + Cardinality(OpenPuts) <= requests
    <2>1. e \in Nodes BY PlacementAssumption
    <2>2. /\ Counted(life[e]) + Cardinality(Acquiring(e)) - Cardinality(Releasing(e)) = Cardinality(Puts)
          /\ Cardinality(Puts) + Cardinality(Releasing(e)) + Cardinality(OpenPuts) <= requests
      BY DEF CountInv, Conserved, Budget
    <2>3. /\ Cardinality(Acquiring(e)) \in Nat /\ Cardinality(Releasing(e)) \in Nat
          /\ IsFiniteSet(Acquiring(e)) /\ IsFiniteSet(Releasing(e))
          /\ Cardinality(Puts) \in Nat /\ Cardinality(OpenPuts) \in Nat
      BY <2>1, FiniteCounts DEF CountInv, DeliveryInv
    <2>4. CASE e # d
      <3>1. life'[e] = life[e] BY <1>1, <2>1, <2>4, ApplyLife DEF CountInv
      <3>2. cursor'[e] = cursor[e] BY <1>1, <2>1, <2>4, ApplyCursors
      <3>3. \A t \in Nodes : cursor[e][t] \in Nat BY <2>1 DEF DeliveryInv, Shaped
      <3>4. QuietAt(e) BY <3>2, <3>3 DEF QuietAt
      <3>5. Acquiring(e)' = Acquiring(e) /\ Releasing(e)' = Releasing(e) BY <1>4, <2>1, <3>4, FlightKept
      <3> QED BY <2>2, <3>1, <3>5
    <2>5. CASE e = d
      <3> DEFINE P == PositiveOf(Routed(s, d))
                 N == NegativeOf(Routed(s, d))
      <3>1. /\ cursor'[d][s] = pass[s].through
            /\ pass[s].seen[d] = cursor[d][s] /\ cursor[d][s] <= pass[s].through
            /\ \A t \in Nodes \ {s} :
                 /\ cursor[d][t] <= cursor'[d][t]
                 /\ \A o \in Nat : cursor[d][t] < o /\ o <= cursor'[d][t] => At(t, o).delta = 0
        BY <1>1, ApplyCursors
      <3>2. /\ Acquiring(e)' = Acquiring(e) \ P /\ Releasing(e)' = Releasing(e) \ N
            /\ P \subseteq Acquiring(e) /\ N \subseteq Releasing(e)
        BY <1>4, <2>5, <3>1, BatchFlight
      <3>3. /\ Net(Routed(s, d)) = Cardinality(P) - Cardinality(N)
            /\ Cardinality(P) \in Nat /\ Cardinality(N) \in Nat
        BY <1>1, RoutedRecords, NetOf
      <3>4. Counted(life'[e]) = Counted(life[e]) + Net(Routed(s, d)) BY <1>1, <2>5, ApplyLife DEF CountInv
      <3>5. Counted(life[e]) \in Nat BY <2>1 DEF CountInv, LifeOK, CopyOK, CopyRecord, Counted
      <3> HIDE DEF P, N
      <3>6. /\ Cardinality(Acquiring(e)') + Cardinality(P) = Cardinality(Acquiring(e))
            /\ Cardinality(Acquiring(e)') \in Nat
        BY <2>3, <3>2, CountDifference
      <3>7. /\ Cardinality(Releasing(e)') + Cardinality(N) = Cardinality(Releasing(e))
            /\ Cardinality(Releasing(e)') \in Nat
        BY <2>3, <3>2, CountDifference
      <3>8. requests \in Nat BY DEF CountInv, Typed
      <3> QED BY <2>2, <2>3, <3>3, <3>4, <3>5, <3>6, <3>7, <3>8
    <2> QED BY <2>4, <2>5
  <1>9. Conserved' BY <1>7, <1>8 DEF Conserved, Counted
  <1>10. Budget' BY <1>2, <1>7, <1>8 DEF Budget
  <1> QED BY <1>5, <1>6, <1>9, <1>10 DEF CountInv

-----------------------------------------------------------------------------
(* Steps that leave the references alone, and requests that start. *)

LEMMA QuietCounts ==
    ASSUME DeliveryInv, DeliveryInv', CountInv, SameRecords, QuietCursors, RequestsKept,
           LifeOK', CountsKept, stored' = stored, head' = head
    PROVE  CountInv'
  <1>1. Typed' BY TypedKept DEF CountInv
  <1>2. IdsOK' BY IdsKept DEF CountInv
  <1>3. Conserved' BY ConservedKept DEF CountInv
  <1>4. Budget' BY <1>1, BudgetKept DEF CountInv
  <1> QED BY <1>1, <1>2, <1>3, <1>4 DEF CountInv

LEMMA StartCounts ==
    ASSUME DeliveryInv, DeliveryInv', CountInv, SameRecords, QuietCursors, LifeOK', CountsKept,
           stored' = stored, head' = head, NEW p \in Paths, NEW q \in RequestRecord,
           q.phase # "idle", q.id = requests + 1, requests' = requests + 1,
           request' = [request EXCEPT ![p] = q]
    PROVE  CountInv'
  <1>1. /\ request \in [Paths -> RequestRecord] /\ requests \in Nat
        /\ stored \subseteq VersionRecord
        /\ \A s \in Nodes, o \in Nat : At(s, o) \in EventRecord
    BY DEF CountInv, Typed
  <1>2. /\ request' \in [Paths -> RequestRecord]
        /\ \A x \in Paths : request'[x] = IF x = p THEN q ELSE request[x]
    BY <1>1
  <1>3. \A s \in Nodes, o \in Nat : At(s, o)' = At(s, o) BY DEF SameRecords
  <1>4. Typed' BY <1>1, <1>2, <1>3 DEF CountInv, Typed
  <1>5. \A x \in Paths : Open(x)' => x = p \/ (Open(x) /\ request'[x] = request[x])
    BY <1>2 DEF Open
  <1>6. PICK m \in Nat : m = requests + 1 /\ m > requests BY <1>1
  <1>7. IdsOK'
    <2>1. \A v \in stored : v.id \in Nat /\ v.id <= requests BY <1>1 DEF CountInv, IdsOK, VersionRecord
    <2>2. \A s \in Nodes, o \in Nat : At(s, o).id \in Nat /\ At(s, o).id <= requests
      BY <1>1 DEF CountInv, IdsOK, EventRecord
    <2>3. \A x \in Paths : Open(x) => request[x].id \in 1..requests BY DEF CountInv, IdsOK
    <2>4. \A v \in stored : v.id <= m /\ v.id # m BY <1>1, <1>6, <2>1
    <2>5. \A s \in Nodes, o \in Nat : At(s, o).id <= m /\ At(s, o).id # m BY <1>1, <1>6, <2>2
    <2>6. \A x \in Paths : Open(x) => request[x].id \in 1..m /\ request[x].id # m
      BY <1>1, <1>6, <2>3
    <2>7. m \in 1..m BY <1>1, <1>6
    <2>8. \A x \in Paths : Open(x)' =>
            /\ request'[x].id \in 1..requests'
            /\ \A v \in stored' : v.id # request'[x].id
            /\ \A s \in Nodes, o \in Nat : At(s, o)'.id # request'[x].id
      <3> SUFFICES ASSUME NEW x \in Paths, Open(x)'
                   PROVE  /\ request'[x].id \in 1..m
                          /\ \A v \in stored : v.id # request'[x].id
                          /\ \A s \in Nodes, o \in Nat : At(s, o).id # request'[x].id
        BY <1>3, <1>6
      <3>1. CASE x = p BY <1>2, <1>6, <2>4, <2>5, <2>7, <3>1
      <3>2. CASE x # p BY <1>5, <2>6, <3>2 DEF CountInv, IdsOK
      <3> QED BY <3>1, <3>2
    <2>9. \A x, y \in Paths : Open(x)' /\ Open(y)' /\ request'[x].id = request'[y].id => x = y
      <3>1. \A x, y \in Paths : Open(x) /\ Open(y) /\ request[x].id = request[y].id => x = y
        BY DEF CountInv, IdsOK
      <3> QED BY <1>2, <1>5, <1>6, <2>6, <3>1
    <2>10. \A s \in Nodes, o, u \in Nat : At(s, o)'.id = At(s, u)'.id /\ At(s, o)'.id # 0 => o = u
      BY <1>3 DEF CountInv, IdsOK
    <2>11. \A v, w \in stored' : v.id = w.id => v = w BY DEF CountInv, IdsOK
    <2>12. (\A v \in stored' : v.id <= requests') /\ (\A s \in Nodes, o \in Nat : At(s, o)'.id <= requests')
      BY <1>3, <1>6, <2>4, <2>5
    <2> QED BY <2>8, <2>9, <2>10, <2>11, <2>12 DEF IdsOK
  <1>8. Conserved' BY ConservedKept DEF CountInv
  <1>9. Budget'
    <2> SUFFICES ASSUME NEW d \in Owners
                 PROVE  Cardinality(Puts') + Cardinality(Releasing(d)') + Cardinality(OpenPuts') <= requests'
      BY DEF Budget
    <2>1. d \in Nodes BY PlacementAssumption
    <2>2. Releasing(d)' = Releasing(d) /\ Puts' = Puts
      BY <2>1, FlightKept DEF QuietCursors, Puts
    <2>3. /\ IsFiniteSet(OpenPuts) /\ Cardinality(OpenPuts) \in Nat /\ Cardinality(OpenPuts') \in Nat
          /\ Cardinality(Puts) \in Nat /\ Cardinality(Releasing(d)) \in Nat
      BY <1>4, <2>1, FiniteCounts, FiniteCountsNext DEF CountInv, DeliveryInv
    <2>4. OpenPuts' \subseteq OpenPuts \cup {m}
      <3> SUFFICES ASSUME NEW i \in OpenPuts', i # m PROVE i \in OpenPuts OBVIOUS
      <3>1. PICK x \in Paths : Open(x)' /\ request'[x].put /\ request'[x].id = i BY DEF OpenPuts
      <3>2. x # p BY <1>2, <1>6, <3>1
      <3>3. Open(x) /\ request'[x] = request[x] BY <1>5, <3>1, <3>2
      <3>4. i \in 1..requests BY <3>1, <3>3 DEF CountInv, IdsOK
      <3> QED BY <3>1, <3>3, <3>4 DEF OpenPuts
    <2>5. /\ IsFiniteSet(OpenPuts \cup {m})
          /\ Cardinality(OpenPuts \cup {m}) <= Cardinality(OpenPuts) + 1
      <3>1. PICK O : O = OpenPuts OBVIOUS
      <3>2. IsFiniteSet(O) BY <2>3, <3>1
      <3>3. /\ IsFiniteSet(O \cup {m})
            /\ Cardinality(O \cup {m}) = IF m \in O THEN Cardinality(O) ELSE Cardinality(O) + 1
        BY <3>2, FS_AddElement
      <3> QED BY <2>3, <3>1, <3>3
    <2>6. Cardinality(OpenPuts') <= Cardinality(OpenPuts \cup {m}) BY <2>4, <2>5, FS_Subset
    <2>7. Cardinality(OpenPuts \cup {m}) \in Nat BY <2>5, FS_CardinalityType
    <2>8. Cardinality(Puts) + Cardinality(Releasing(d)) + Cardinality(OpenPuts) <= requests
      BY DEF CountInv, Budget
    <2> QED BY <1>1, <2>2, <2>3, <2>5, <2>6, <2>7, <2>8
  <1> QED BY <1>4, <1>7, <1>8, <1>9 DEF CountInv

LEMMA UploadCounts ==
    ASSUME DeliveryInv, DeliveryInv', CountInv, NEW p \in Paths, NEW u \in Nodes, Upload(p, u)
    PROVE  CountInv'
  <1>1. /\ life' = [life EXCEPT ![u] = Sealed(life[u])]
        /\ journal' = [journal EXCEPT ![u] = AppendInert(u)]
        /\ cursor' = [cursor EXCEPT ![u][u] = SelfCursor(u)]
        /\ requests' = requests + 1 /\ stored' = stored /\ head' = head
        /\ request' = [request EXCEPT ![p] =
                         [phase |-> "ready", put |-> TRUE, source |-> u, id |-> requests + 1, age |-> 0]]
    BY DEF Upload
  <1>2. SameRecords BY <1>1, SameWhenInert
  <1>3. QuietCursors BY <1>1, QuietWhenInert
  <1>4. LifeRefreshed BY <1>1, LifeSealed DEF CountInv
  <1>5. LifeOK' /\ CountsKept BY <1>4, LifeRefreshedMeans DEF CountInv
  <1>6. requests + 1 \in Nat BY DEF CountInv, Typed
  <1>7. PICK q \in RequestRecord :
          q = [phase |-> "ready", put |-> TRUE, source |-> u, id |-> requests + 1, age |-> 0]
    BY <1>6 DEF RequestRecord
  <1>8. q.phase # "idle" /\ q.id = requests + 1 BY <1>7
  <1> QED BY <1>1, <1>2, <1>3, <1>5, <1>7, <1>8, StartCounts

LEMMA StartDeleteCounts ==
    ASSUME DeliveryInv, DeliveryInv', CountInv, NEW p \in Paths, StartDelete(p)
    PROVE  CountInv'
  <1>1. /\ life' = life /\ journal' = journal /\ cursor' = cursor
        /\ requests' = requests + 1 /\ stored' = stored /\ head' = head
        /\ request' = [request EXCEPT ![p] = [Idle EXCEPT !.phase = "verified", !.id = requests + 1]]
    BY DEF StartDelete
  <1>2. SameRecords BY <1>1, SameWhenKept
  <1>3. QuietCursors BY <1>1, QuietWhenKept
  <1>4. LifeRefreshed BY <1>1, LifeUnchanged DEF CountInv
  <1>5. LifeOK' /\ CountsKept BY <1>4, LifeRefreshedMeans DEF CountInv
  <1>6. requests + 1 \in Nat BY DEF CountInv, Typed
  <1>7. PICK q \in RequestRecord : q = [Idle EXCEPT !.phase = "verified", !.id = requests + 1]
    BY <1>6 DEF RequestRecord, Idle
  <1>8. q.phase # "idle" /\ q.id = requests + 1 BY <1>7 DEF Idle
  <1> QED BY <1>1, <1>2, <1>3, <1>5, <1>7, <1>8, StartCounts

-----------------------------------------------------------------------------
(* A commit: its head event carries what it changes. *)

LEMMA CommitFlight ==
    ASSUME DeliveryInv, DeliveryInv', NEW n \in Journaled, NEW e, e.delta \in -1..1,
           journal' = [journal EXCEPT ![n] = AppendDeferred(journal[n], e)], cursor' = cursor,
           NEW d \in Nodes
    PROVE  /\ Acquiring(d)' = Acquiring(d) \cup (IF e.delta > 0 THEN {<<n, TailOf(n) + 1>>} ELSE {})
           /\ Releasing(d)' = Releasing(d) \cup (IF e.delta < 0 THEN {<<n, TailOf(n) + 1>>} ELSE {})
           /\ <<n, TailOf(n) + 1>> \notin Acquiring(d)
           /\ <<n, TailOf(n) + 1>> \notin Releasing(d)
  <1>1. n \in Nodes /\ Shaped /\ Shaped' BY JournaledNodes DEF DeliveryInv
  <1>2. PICK t \in Nat : t = TailOf(n) + 1 BY <1>1, TailNumber
  <1>3. \A s \in Journaled, o \in Nat : At(s, o)' = IF s = n /\ o = t THEN e ELSE At(s, o)
    BY <1>1, <1>2, JournaledNodes, DeferredRecords
  <1>4. cursor[d][n] < t
    <2>1. cursor[d][n] \in Nat /\ TailOf(n) \in Nat /\ cursor[d][n] <= TailOf(n)
      BY <1>1, TailNumber DEF DeliveryInv, Shaped, CutsOK
    <2> QED BY <1>2, <2>1
  <1>5. At(n, t).delta = 0 BY <1>1, <1>2, TailUnused DEF Lifecycle, Record
  <1>6. \A r : r \in Acquiring(d)' <=> (r \in Acquiring(d) \/ (r = <<n, t>> /\ e.delta > 0))
    <2> SUFFICES ASSUME NEW r
                 PROVE  r \in Acquiring(d)' <=> (r \in Acquiring(d) \/ (r = <<n, t>> /\ e.delta > 0))
      OBVIOUS
    <2>1. r \in Acquiring(d)' <=> \E s \in Journaled, o \in Nat :
            r = <<s, o>> /\ cursor[d][s] < o /\ At(s, o)'.delta > 0
      BY <1>1, FlightMembersNext
    <2>2. r \in Acquiring(d) <=> \E s \in Journaled, o \in Nat :
            r = <<s, o>> /\ cursor[d][s] < o /\ At(s, o).delta > 0
      BY <1>1, FlightMembers
    <2>3. ASSUME NEW s \in Journaled, NEW o \in Nat
          PROVE  At(s, o)'.delta > 0 <=> (At(s, o).delta > 0 \/ (s = n /\ o = t /\ e.delta > 0))
      <3>1. CASE s = n /\ o = t BY <1>3, <1>5, <3>1
      <3>2. CASE ~(s = n /\ o = t) BY <1>3, <3>2
      <3> QED BY <3>1, <3>2
    <2> QED BY <1>4, <2>1, <2>2, <2>3
  <1>7. \A r : r \in Releasing(d)' <=> (r \in Releasing(d) \/ (r = <<n, t>> /\ e.delta < 0))
    <2> SUFFICES ASSUME NEW r
                 PROVE  r \in Releasing(d)' <=> (r \in Releasing(d) \/ (r = <<n, t>> /\ e.delta < 0))
      OBVIOUS
    <2>1. r \in Releasing(d)' <=> \E s \in Journaled, o \in Nat :
            r = <<s, o>> /\ cursor[d][s] < o /\ At(s, o)'.delta < 0
      BY <1>1, FlightMembersNext
    <2>2. r \in Releasing(d) <=> \E s \in Journaled, o \in Nat :
            r = <<s, o>> /\ cursor[d][s] < o /\ At(s, o).delta < 0
      BY <1>1, FlightMembers
    <2>3. ASSUME NEW s \in Journaled, NEW o \in Nat
          PROVE  At(s, o)'.delta < 0 <=> (At(s, o).delta < 0 \/ (s = n /\ o = t /\ e.delta < 0))
      <3>1. CASE s = n /\ o = t BY <1>3, <1>5, <3>1
      <3>2. CASE ~(s = n /\ o = t) BY <1>3, <3>2
      <3> QED BY <3>1, <3>2
    <2> QED BY <1>4, <2>1, <2>2, <2>3
  <1>8. <<n, t>> \notin Acquiring(d) /\ <<n, t>> \notin Releasing(d)
    <2>1. Delta(<<n, t>>) = 0 BY <1>5 DEF Delta
    <2> QED BY <2>1 DEF Acquiring, Releasing
  <1>9. Acquiring(d)' = Acquiring(d) \cup (IF e.delta > 0 THEN {<<n, t>>} ELSE {}) BY <1>6
  <1>10. Releasing(d)' = Releasing(d) \cup (IF e.delta < 0 THEN {<<n, t>>} ELSE {}) BY <1>7
  <1> QED BY <1>2, <1>8, <1>9, <1>10

LEMMA CommitFlightCounts ==
    ASSUME DeliveryInv, DeliveryInv', Typed, NEW n \in Journaled, NEW e, e.delta \in -1..1,
           journal' = [journal EXCEPT ![n] = AppendDeferred(journal[n], e)], cursor' = cursor,
           NEW d \in Nodes
    PROVE  /\ Cardinality(Acquiring(d)') = Cardinality(Acquiring(d)) + (IF e.delta > 0 THEN 1 ELSE 0)
           /\ Cardinality(Releasing(d)') = Cardinality(Releasing(d)) + (IF e.delta < 0 THEN 1 ELSE 0)
  <1>1. PICK x : x = <<n, TailOf(n) + 1>> OBVIOUS
  <1>2. /\ Acquiring(d)' = Acquiring(d) \cup (IF e.delta > 0 THEN {x} ELSE {})
        /\ Releasing(d)' = Releasing(d) \cup (IF e.delta < 0 THEN {x} ELSE {})
        /\ x \notin Acquiring(d) /\ x \notin Releasing(d)
    BY <1>1, CommitFlight
  <1>3. /\ IsFiniteSet(Acquiring(d)) /\ IsFiniteSet(Releasing(d))
        /\ Cardinality(Acquiring(d)) \in Nat /\ Cardinality(Releasing(d)) \in Nat
    BY FiniteCounts DEF DeliveryInv
  <1>4. Cardinality(Acquiring(d)') = Cardinality(Acquiring(d)) + (IF e.delta > 0 THEN 1 ELSE 0)
    <2>1. CASE e.delta > 0
      <3>1. Acquiring(d)' = Acquiring(d) \cup {x} BY <1>2, <2>1
      <3>2. Cardinality(Acquiring(d) \cup {x}) = Cardinality(Acquiring(d)) + 1
        BY <1>2, <1>3, FS_AddElement
      <3> QED BY <2>1, <3>1, <3>2
    <2>2. CASE ~(e.delta > 0)
      <3>1. Acquiring(d)' = Acquiring(d) BY <1>2, <2>2
      <3> QED BY <1>3, <2>2, <3>1
    <2> QED BY <2>1, <2>2
  <1>5. Cardinality(Releasing(d)') = Cardinality(Releasing(d)) + (IF e.delta < 0 THEN 1 ELSE 0)
    <2>1. CASE e.delta < 0
      <3>1. Releasing(d)' = Releasing(d) \cup {x} BY <1>2, <2>1
      <3>2. Cardinality(Releasing(d) \cup {x}) = Cardinality(Releasing(d)) + 1
        BY <1>2, <1>3, FS_AddElement
      <3> QED BY <2>1, <3>1, <3>2
    <2>2. CASE ~(e.delta < 0)
      <3>1. Releasing(d)' = Releasing(d) BY <1>2, <2>2
      <3> QED BY <1>3, <2>2, <3>1
    <2> QED BY <2>1, <2>2
  <1> QED BY <1>4, <1>5

(* A path has at most one released predecessor, and the head event's delta  *)
(* is what the commit adds to the versions stored.                          *)
LEMMA CommitVersions ==
    ASSUME Typed, IdsOK, NEW p \in Paths, Open(p),
           stored' = (stored \ ReleasedPredecessor(p))
                        \cup {[path |-> p, id |-> request[p].id, put |-> request[p].put, retention |-> "pending"]}
    PROVE  /\ HeadDelta(p, request[p].put) \in -1..1
           /\ stored' \subseteq VersionRecord /\ IsFiniteSet(stored')
           /\ \A v \in stored' : v \in stored \/ v.id = request[p].id
           /\ \A v, w \in stored' : v.id = w.id => v = w
           /\ Cardinality(Puts') = Cardinality(Puts) + HeadDelta(p, request[p].put)
           /\ \E k \in 0..1 : HeadDelta(p, request[p].put) = (IF request[p].put THEN 1 ELSE 0) - k
  <1> DEFINE q == request[p]
             nv == [path |-> p, id |-> q.id, put |-> q.put, retention |-> "pending"]
             R == ReleasedPredecessor(p)
             RP == {v \in R : v.put}
             b == IF q.put THEN 1 ELSE 0
  <1>1. q \in RequestRecord /\ q.id \in 1..requests /\ requests \in Nat BY DEF Typed, IdsOK
  <1>2. q.put \in BOOLEAN /\ q.id \in Nat \ {0} BY <1>1 DEF RequestRecord
  <1>3. nv \in VersionRecord BY <1>2 DEF VersionRecord
  <1>4. stored \subseteq VersionRecord /\ IsFiniteSet(stored) BY DEF Typed
  <1>5. R \subseteq stored /\ \A v \in R : v.id = head[p]
    BY DEF ReleasedPredecessor, CurrentVersion, IsCurrent
  <1>6. stored' = (stored \ R) \cup {nv} OBVIOUS
  <1>7. stored' \subseteq VersionRecord BY <1>3, <1>4, <1>6
  <1>8. nv.id = q.id /\ nv.put = q.put OBVIOUS
  <1>9. nv \notin stored /\ \A v \in stored : v.id # q.id BY <1>8 DEF IdsOK
  <1>10. \A v, w \in R : v = w BY <1>5 DEF IdsOK
  <1> HIDE DEF nv, R, q
  <1>11. IsFiniteSet(stored \ R) BY <1>4, FS_Subset
  <1>12. IsFiniteSet((stored \ R) \cup {nv}) BY <1>11, FS_AddElement
  <1>13. \A v \in stored' : v \in stored \/ v.id = q.id BY <1>6, <1>8
  <1>14. \A v, w \in stored' : v.id = w.id => v = w BY <1>6, <1>8, <1>9 DEF IdsOK
  <1>15. RP \subseteq Puts BY <1>5 DEF Puts
  <1>16. IsFiniteSet(Puts)
    <2>1. Puts \subseteq stored BY DEF Puts
    <2> QED BY <1>4, <2>1, FS_Subset
  <1>17. \A v, w \in RP : v = w BY <1>10
  <1>18. Puts' = (Puts \ RP) \cup (IF q.put THEN {nv} ELSE {})
    <2>1. Puts' = {v \in stored' : v.put} BY DEF Puts
    <2> QED BY <1>6, <1>8, <2>1 DEF Puts
  <1>19. nv \notin Puts \ RP BY <1>9 DEF Puts
  <1>20. HeadDelta(p, q.put) = b - Cardinality(RP) BY DEF HeadDelta, R
  <1> HIDE DEF RP
  <1>21. Cardinality(RP) \in 0..1
    <2>1. CASE RP = {} BY <2>1, FS_EmptySet
    <2>2. CASE RP # {}
      <3>1. PICK x \in RP : TRUE BY <2>2
      <3>2. RP = {x} BY <1>17, <3>1
      <3>3. Cardinality({x}) = 1 BY FS_Singleton
      <3> QED BY <3>2, <3>3
    <2> QED BY <2>1, <2>2
  <1>22. /\ IsFiniteSet(Puts \ RP) /\ Cardinality(Puts \ RP) + Cardinality(RP) = Cardinality(Puts)
         /\ Cardinality(Puts) \in Nat /\ Cardinality(Puts \ RP) \in Nat
    BY <1>15, <1>16, CountDifference
  <1>23. Cardinality(Puts') = Cardinality(Puts \ RP) + b
    <2>1. CASE q.put
      <3>1. Puts' = (Puts \ RP) \cup {nv} BY <1>18, <2>1
      <3>2. Cardinality((Puts \ RP) \cup {nv}) = Cardinality(Puts \ RP) + 1
        BY <1>19, <1>22, FS_AddElement
      <3> QED BY <2>1, <3>1, <3>2
    <2>2. CASE ~q.put
      <3>1. Puts' = Puts \ RP BY <1>18, <2>2
      <3> QED BY <1>22, <2>2, <3>1
    <2> QED BY <2>1, <2>2
  <1>24. b \in 0..1 OBVIOUS
  <1>25. HeadDelta(p, q.put) \in -1..1 /\ Cardinality(Puts') = Cardinality(Puts) + HeadDelta(p, q.put)
    <2> HIDE DEF b
    <2> QED BY <1>20, <1>21, <1>22, <1>23, <1>24
  <1>26. \E k \in 0..1 : HeadDelta(p, q.put) = (IF q.put THEN 1 ELSE 0) - k
    BY <1>20, <1>21
  <1> QED BY <1>6, <1>7, <1>12, <1>13, <1>14, <1>25, <1>26 DEF q

(* A record is added to a journal, and a version to those stored.           *)
RecordAdded(n, t, e) ==
    \A s \in Nodes, o \in Nat : At(s, o)' = IF s = n /\ o = t THEN e ELSE At(s, o)
VersionAdded(i) ==
    /\ \A v \in stored' : v \in stored \/ v.id = i
    /\ \A v, w \in stored' : v.id = w.id => v = w

LEMMA CommitIds ==
    ASSUME Typed, IdsOK, NEW p \in Paths, Open(p), NEW n \in Nodes, NEW t \in Nat, NEW e,
           e.id = request[p].id,
           RecordAdded(n, t, e), VersionAdded(request[p].id),
           requests' = requests, request' = [request EXCEPT ![p] = Idle]
    PROVE  IdsOK'
  <1> USE DEF RecordAdded, VersionAdded
  <1>1. PICK i \in 1..requests : i = request[p].id BY DEF IdsOK
  <1>2. requests \in Nat /\ i \in Nat /\ i <= requests /\ i # 0 BY <1>1 DEF Typed
  <1>3. \A q \in Paths : Open(q)' => q # p /\ Open(q) /\ request'[q] = request[q]
    BY DEF Typed, Open, Idle
  <1>4. (\A v \in stored : v.id # i) /\ (\A s \in Nodes, o \in Nat : At(s, o).id # i)
    BY <1>1 DEF IdsOK
  <1>5. \A v \in stored' : v.id <= requests' BY <1>1, <1>2 DEF IdsOK
  <1>6. \A s \in Nodes, o \in Nat : At(s, o)'.id <= requests' BY <1>1, <1>2 DEF IdsOK
  <1>7. ASSUME NEW s \in Nodes, NEW o \in Nat, NEW u \in Nat,
               At(s, o)'.id = At(s, u)'.id, At(s, o)'.id # 0
        PROVE  o = u
    <2>1. \A x \in Nat : At(s, x)'.id = IF s = n /\ x = t THEN i ELSE At(s, x).id BY <1>1
    <2>2. CASE s = n /\ o = t BY <1>4, <1>7, <2>1, <2>2
    <2>3. CASE s = n /\ u = t BY <1>4, <1>7, <2>1, <2>3
    <2>4. CASE ~(s = n /\ o = t) /\ ~(s = n /\ u = t) BY <1>7, <2>1, <2>4 DEF IdsOK
    <2> QED BY <2>2, <2>3, <2>4
  <1>8. ASSUME NEW q \in Paths, Open(q)'
        PROVE  /\ request'[q].id \in 1..requests'
               /\ \A v \in stored' : v.id # request'[q].id
               /\ \A s \in Nodes, o \in Nat : At(s, o)'.id # request'[q].id
    <2>1. q # p /\ Open(q) /\ request'[q] = request[q] BY <1>3, <1>8
    <2>2. request[q].id # i BY <1>1, <2>1 DEF IdsOK
    <2>3. /\ request[q].id \in 1..requests
          /\ \A v \in stored : v.id # request[q].id
          /\ \A s \in Nodes, o \in Nat : At(s, o).id # request[q].id
      BY <2>1 DEF IdsOK
    <2> QED BY <1>1, <2>1, <2>2, <2>3
  <1>9. \A q, r \in Paths : Open(q)' /\ Open(r)' /\ request'[q].id = request'[r].id => q = r
    BY <1>3 DEF IdsOK
  <1>10. \A s \in Nodes, o, u \in Nat : At(s, o)'.id = At(s, u)'.id /\ At(s, o)'.id # 0 => o = u
    BY <1>7
  <1>11. \A q \in Paths : Open(q)' =>
          /\ request'[q].id \in 1..requests'
          /\ \A v \in stored' : v.id # request'[q].id
          /\ \A s \in Nodes, o \in Nat : At(s, o)'.id # request'[q].id
    BY <1>8
  <1> QED BY <1>5, <1>6, <1>9, <1>10, <1>11 DEF IdsOK

(* The request that commits leaves the open ones.                           *)
LEMMA CommitOpenPuts ==
    ASSUME Typed, Shaped, IdsOK, NEW p \in Paths, Open(p), requests' = requests,
           request' = [request EXCEPT ![p] = Idle]
    PROVE  /\ IsFiniteSet(OpenPuts') /\ Cardinality(OpenPuts') \in Nat
           /\ Cardinality(OpenPuts') + (IF request[p].put THEN 1 ELSE 0) <= Cardinality(OpenPuts)
  <1>1. PICK i \in 1..requests : i = request[p].id BY DEF IdsOK
  <1>2. \A q \in Paths : Open(q)' => q # p /\ Open(q) /\ request'[q] = request[q]
    BY DEF Typed, Open, Idle
  <1>3. IsFiniteSet(OpenPuts) /\ Cardinality(OpenPuts) \in Nat BY FiniteCounts
  <1>4. OpenPuts' \subseteq OpenPuts \ {i}
    <2> SUFFICES ASSUME NEW k \in OpenPuts' PROVE k \in OpenPuts /\ k # i OBVIOUS
    <2>1. k \in 1..requests /\ \E q \in Paths : Open(q)' /\ request'[q].put /\ request'[q].id = k
      BY DEF OpenPuts
    <2>2. PICK q \in Paths : Open(q)' /\ request'[q].put /\ request'[q].id = k BY <2>1
    <2>3. q # p /\ Open(q) /\ request[q].put /\ request[q].id = k BY <1>2, <2>2
    <2>4. k # i BY <1>1, <2>3 DEF IdsOK
    <2> QED BY <2>1, <2>3, <2>4 DEF OpenPuts
  <1>5. IsFiniteSet(OpenPuts \ {i}) /\ Cardinality(OpenPuts \ {i}) \in Nat
    <2>1. IsFiniteSet(OpenPuts \ {i}) BY <1>3, FS_Subset
    <2> QED BY <2>1, FS_CardinalityType
  <1>6. IsFiniteSet(OpenPuts') /\ Cardinality(OpenPuts') <= Cardinality(OpenPuts \ {i})
    BY <1>4, <1>5, FS_Subset
  <1>7. Cardinality(OpenPuts') \in Nat BY <1>6, FS_CardinalityType
  <1>8. Cardinality(OpenPuts \ {i}) + (IF request[p].put THEN 1 ELSE 0) <= Cardinality(OpenPuts)
    <2>1. CASE request[p].put
      <3>1. i \in OpenPuts BY <1>1, <2>1 DEF OpenPuts
      <3>2. Cardinality(OpenPuts \ {i}) = Cardinality(OpenPuts) - 1
        BY <1>3, <3>1, FS_RemoveElement
      <3> QED BY <1>3, <2>1, <3>2
    <2>2. CASE ~request[p].put
      <3>1. Cardinality(OpenPuts \ {i}) <= Cardinality(OpenPuts) BY <1>3, FS_Subset
      <3> QED BY <1>5, <2>2, <3>1
    <2> QED BY <2>1, <2>2
  <1> QED BY <1>3, <1>5, <1>6, <1>7, <1>8

LEMMA CommitCounts ==
    ASSUME DeliveryInv, DeliveryInv', CountInv, NEW p \in Paths, CommitMutation(p)
    PROVE  CountInv'
  <1> DEFINE c == Coordinator[p]
             e == Record(request[p].id, p, HeadDelta(p, request[p].put))
  <1>1. /\ request[p].phase = "verified"
        /\ stored' = (stored \ ReleasedPredecessor(p))
              \cup {[path |-> p, id |-> request[p].id, put |-> request[p].put, retention |-> "pending"]}
        /\ head' = [head EXCEPT ![p] = request[p].id]
        /\ journal' = [journal EXCEPT ![c] = AppendDeferred(journal[c], e)]
        /\ request' = [request EXCEPT ![p] = Idle]
        /\ life' \in {life, Placed(life)}
        /\ cursor' = cursor /\ requests' = requests
    BY DEF CommitMutation
  <1>2. c \in Journaled /\ c \in Nodes BY PlacementAssumption DEF Journaled
  <1>3. Open(p) BY <1>1 DEF Open
  <1>4. Typed /\ IdsOK /\ Shaped /\ Shaped' BY DEF CountInv, DeliveryInv
  <1>5. /\ HeadDelta(p, request[p].put) \in -1..1
        /\ stored' \subseteq VersionRecord /\ IsFiniteSet(stored')
        /\ \A v \in stored' : v \in stored \/ v.id = request[p].id
        /\ \A v, w \in stored' : v.id = w.id => v = w
        /\ Cardinality(Puts') = Cardinality(Puts) + HeadDelta(p, request[p].put)
        /\ \E k \in 0..1 : HeadDelta(p, request[p].put) = (IF request[p].put THEN 1 ELSE 0) - k
    BY <1>1, <1>3, <1>4, CommitVersions
  <1>6. e.id = request[p].id /\ e.delta = HeadDelta(p, request[p].put) /\ e.path = p BY DEF Record
  <1>7. request[p] \in RequestRecord /\ request[p].id \in Nat BY <1>4 DEF Typed, RequestRecord
  <1>8. e \in EventRecord BY <1>5, <1>7 DEF Record, EventRecord
  <1> HIDE DEF e, c
  <1>9. PICK t \in Nat : t = TailOf(c) + 1 BY <1>2, <1>4, TailNumber
  <1>10. \A s \in Nodes, o \in Nat : At(s, o)' = IF s = c /\ o = t THEN e ELSE At(s, o)
    BY <1>1, <1>2, <1>9, DeferredRecords
  <1>11. IdsOK'
    <2>1. requests' = requests /\ request' = [request EXCEPT ![p] = Idle] BY <1>1
    <2>2. RecordAdded(c, t, e) /\ VersionAdded(request[p].id) BY <1>5, <1>10 DEF RecordAdded, VersionAdded
    <2>3. Typed /\ IdsOK /\ Open(p) /\ c \in Nodes /\ e.id = request[p].id BY <1>2, <1>3, <1>4, <1>6
    <2> QED BY <2>1, <2>2, <2>3, CommitIds
  <1>12. Typed'
    <2>1. Idle \in RequestRecord BY DEF Idle, RequestRecord
    <2>2. request' \in [Paths -> RequestRecord] BY <1>1, <1>4, <2>1 DEF Typed
    <2>3. head' \in [Paths -> Nat] BY <1>1, <1>4, <1>7 DEF Typed
    <2>4. \A s \in Nodes, o \in Nat : At(s, o)' \in EventRecord BY <1>4, <1>8, <1>10 DEF Typed
    <2>5. requests' \in Nat BY <1>1, <1>4 DEF Typed
    <2> QED BY <1>5, <2>2, <2>3, <2>4, <2>5 DEF Typed
  <1>13. LifeOK' /\ CountsKept
    <2>1. LifeRefreshed BY <1>1, LifePlaced DEF CountInv
    <2> QED BY <2>1, LifeRefreshedMeans DEF CountInv
  <1>14. /\ Cardinality(OpenPuts') \in Nat
         /\ Cardinality(OpenPuts') + (IF request[p].put THEN 1 ELSE 0) <= Cardinality(OpenPuts)
    BY <1>1, <1>3, <1>4, CommitOpenPuts
  <1>15. ASSUME NEW d \in Owners
         PROVE  /\ Counted(life'[d]) + Cardinality(Acquiring(d)') - Cardinality(Releasing(d)') = Cardinality(Puts')
                /\ Cardinality(Puts') + Cardinality(Releasing(d)') + Cardinality(OpenPuts') <= requests
    <2>1. d \in Nodes BY PlacementAssumption
    <2>2. /\ Cardinality(Acquiring(d)') = Cardinality(Acquiring(d)) + (IF e.delta > 0 THEN 1 ELSE 0)
          /\ Cardinality(Releasing(d)') = Cardinality(Releasing(d)) + (IF e.delta < 0 THEN 1 ELSE 0)
      <3>1. e.delta \in -1..1 BY <1>5, <1>6
      <3> QED BY <1>1, <1>2, <1>4, <2>1, <3>1, CommitFlightCounts
    <2>3. Counted(life'[d]) = Counted(life[d]) BY <1>13 DEF CountsKept
    <2>4. /\ Counted(life[d]) + Cardinality(Acquiring(d)) - Cardinality(Releasing(d)) = Cardinality(Puts)
          /\ Cardinality(Puts) + Cardinality(Releasing(d)) + Cardinality(OpenPuts) <= requests
      BY DEF CountInv, Conserved, Budget
    <2>5. /\ Cardinality(Acquiring(d)) \in Nat /\ Cardinality(Releasing(d)) \in Nat
          /\ Cardinality(Puts) \in Nat /\ Cardinality(OpenPuts) \in Nat
      BY <1>4, <2>1, FiniteCounts
    <2>6. Counted(life[d]) \in Nat BY <2>1 DEF CountInv, LifeOK, CopyOK, CopyRecord, Counted
    <2>7. requests \in Nat BY <1>4 DEF Typed
    <2>8. PICK h \in -1..1 : h = e.delta /\ h = HeadDelta(p, request[p].put) BY <1>5, <1>6
    <2>9. PICK k \in 0..1, b \in 0..1 : h = b - k /\ b = (IF request[p].put THEN 1 ELSE 0)
      BY <1>5, <2>8
    <2>10. Cardinality(Puts') = Cardinality(Puts) + h BY <1>5, <2>8
    <2>11. Cardinality(OpenPuts') + b <= Cardinality(OpenPuts) BY <1>14, <2>9
    <2>12. CASE h = 0
      <3>1. /\ Cardinality(Acquiring(d)') = Cardinality(Acquiring(d))
            /\ Cardinality(Releasing(d)') = Cardinality(Releasing(d))
        BY <2>2, <2>5, <2>8, <2>12
      <3> QED BY <1>14, <2>3, <2>4, <2>5, <2>6, <2>7, <2>9, <2>10, <2>11, <2>12, <3>1
    <2>13. CASE h = 1
      <3>1. /\ Cardinality(Acquiring(d)') = Cardinality(Acquiring(d)) + 1
            /\ Cardinality(Releasing(d)') = Cardinality(Releasing(d))
        BY <2>2, <2>5, <2>8, <2>13
      <3>2. b = 1 BY <2>9, <2>13
      <3> QED BY <1>14, <2>3, <2>4, <2>5, <2>6, <2>7, <2>10, <2>11, <2>13, <3>1, <3>2
    <2>14. CASE h = -1
      <3>1. /\ Cardinality(Acquiring(d)') = Cardinality(Acquiring(d))
            /\ Cardinality(Releasing(d)') = Cardinality(Releasing(d)) + 1
        BY <2>2, <2>5, <2>8, <2>14
      <3> QED BY <1>14, <2>3, <2>4, <2>5, <2>6, <2>7, <2>9, <2>10, <2>11, <2>14, <3>1
    <2> QED BY <2>12, <2>13, <2>14
  <1>16. Conserved' BY <1>15 DEF Conserved, Counted
  <1>17. Budget' BY <1>1, <1>15 DEF Budget
  <1> QED BY <1>11, <1>12, <1>13, <1>16, <1>17 DEF CountInv

-----------------------------------------------------------------------------
(* A retention pass over n's journal, as each of the three callers runs it. *)

RetentionPass(n, j, force) ==
    /\ \E S : j \in JournalRecord(S)
    /\ j.floor = journal[n].floor /\ j.log = journal[n].log /\ j.settled = journal[n].settled
    /\ j.derived \in {journal[n].derived, journal[n].settled}
    /\ \A d \in Nodes : j.referenceSafe <= cursor[d][n]
    /\ journal' = [journal EXCEPT ![n] = Pruned(j, force)]
    /\ stored' = RetainedVersions(j, force)
    /\ cursor' = cursor /\ life' = life /\ head' = head

LEMMA WaitIsPass ==
    ASSUME DeliveryInv, NEW p \in Paths, WaitForCapacity(p)
    PROVE  RetentionPass(Coordinator[p], journal[Coordinator[p]], TRUE)
  <1>1. PICK c \in Nodes : c = Coordinator[p] BY JournaledNodes
  <1>2. /\ journal' = [journal EXCEPT ![c] = Pruned(journal[c], TRUE)]
        /\ stored' = RetainedVersions(journal[c], TRUE)
        /\ cursor' = cursor /\ life' = life /\ head' = head
    BY <1>1 DEF WaitForCapacity
  <1>3. \E S : journal[c] \in JournalRecord(S) BY TailNumber DEF DeliveryInv
  <1>4. \A d \in Nodes : journal[c].referenceSafe <= cursor[d][c] BY DEF DeliveryInv, CutsOK
  <1> QED BY <1>1, <1>2, <1>3, <1>4 DEF RetentionPass

LEMMA CheckpointIsPass ==
    ASSUME DeliveryInv, NEW s \in Nodes, DerivedCheckpoint(s)
    PROVE  \E j : RetentionPass(s, j, FALSE)
  <1>1. PICK S : journal[s] \in JournalRecord(S) BY TailNumber DEF DeliveryInv
  <1>2. journal[s].settled \in Nat BY TailNumber DEF DeliveryInv
  <1>3. PICK j \in JournalRecord(S) : j = [journal[s] EXCEPT !.derived = journal[s].settled]
    BY <1>1, <1>2 DEF JournalRecord
  <1>4. /\ j.floor = journal[s].floor /\ j.log = journal[s].log /\ j.settled = journal[s].settled
        /\ j.derived = journal[s].settled /\ j.referenceSafe = journal[s].referenceSafe
    BY <1>1, <1>3 DEF JournalRecord
  <1>5. /\ journal' = [journal EXCEPT ![s] = Pruned(j, FALSE)]
        /\ stored' = RetainedVersions(j, FALSE)
        /\ cursor' = cursor /\ life' = life /\ head' = head
    BY <1>3 DEF DerivedCheckpoint
  <1>6. \A d \in Nodes : j.referenceSafe <= cursor[d][s] BY <1>4 DEF DeliveryInv, CutsOK
  <1>7. RetentionPass(s, j, FALSE) BY <1>4, <1>5, <1>6 DEF RetentionPass
  <1> QED BY <1>7

LEMMA CompactionIsPass ==
    ASSUME DeliveryInv, NEW s \in Nodes, FinishCompaction(s)
    PROVE  \E j : RetentionPass(s, j, FALSE)
  <1>1. PICK S : journal[s] \in JournalRecord(S) BY TailNumber DEF DeliveryInv
  <1>2. journal[s].referenceSafe \in Nat BY TailNumber DEF DeliveryInv
  <1>3. PICK u \in Nat : u = IF Slowest(s) > journal[s].referenceSafe THEN Slowest(s)
                             ELSE journal[s].referenceSafe
    BY <1>2, SlowestSeen
  <1>4. PICK j \in JournalRecord(S) : j = [journal[s] EXCEPT !.referenceSafe = u]
    BY <1>1 DEF JournalRecord
  <1>5. /\ j.floor = journal[s].floor /\ j.log = journal[s].log /\ j.settled = journal[s].settled
        /\ j.derived = journal[s].derived /\ j.referenceSafe = u
    BY <1>1, <1>4 DEF JournalRecord
  <1>6. /\ journal' = [journal EXCEPT ![s] = Pruned(j, FALSE)]
        /\ stored' = RetainedVersions(j, FALSE)
        /\ cursor' = cursor /\ life' = life /\ head' = head
    BY <1>3, <1>4 DEF FinishCompaction
  <1>7. \A d \in Nodes : j.referenceSafe <= cursor[d][s]
    BY <1>3, <1>5, SlowestSeen DEF DeliveryInv, CutsOK
  <1>8. RetentionPass(s, j, FALSE) BY <1>5, <1>6, <1>7 DEF RetentionPass
  <1> QED BY <1>8

(* The offsets of the releases a pass appends.                              *)
Appended(n, r) == {<<n, TailOf(n) + m>> : m \in {i \in 1..Len(r) : r[i].delta < 0}}

LEMMA AppendedCounted ==
    ASSUME NEW n \in Nodes, Shaped, NEW R, NEW r \in Seq(R)
    PROVE  /\ IsFiniteSet(Appended(n, r))
           /\ Cardinality(Appended(n, r)) = Cardinality({i \in 1..Len(r) : r[i].delta < 0})
  <1> DEFINE D == {i \in 1..Len(r) : r[i].delta < 0}
             T == {<<n, TailOf(n) + m>> : m \in D}
             f == [m \in D |-> <<n, TailOf(n) + m>>]
  <1>1. Len(r) \in Nat /\ TailOf(n) \in Nat BY TailNumber
  <1>2. IsFiniteSet(D)
    <2>1. IsFiniteSet(1..Len(r)) BY <1>1, FS_Interval
    <2> QED BY <2>1, FS_Subset
  <1>3. f \in [D -> T] OBVIOUS
  <1>4. \A x, y \in D : f[x] = f[y] => x = y BY <1>1
  <1>5. \A t \in T : \E x \in D : f[x] = t OBVIOUS
  <1>6. Appended(n, r) = T BY DEF Appended
  <1> HIDE DEF D, T, f
  <1>7. IsFiniteSet(T) /\ Cardinality(T) = Cardinality(D) BY <1>2, <1>3, <1>4, <1>5, CountSame
  <1> QED BY <1>6, <1>7 DEF D

LEMMA PassFlight ==
    ASSUME DeliveryInv, DeliveryInv', NEW n \in Journaled, NEW c, NEW r,
           PrunedRecords(n, c, r), cursor' = cursor, NEW d \in Nodes
    PROVE  /\ Acquiring(d)' = Acquiring(d)
           /\ Releasing(d)' = Releasing(d) \cup Appended(n, r)
           /\ Releasing(d) \cap Appended(n, r) = {}
  <1>1. n \in Nodes /\ Shaped /\ Shaped' BY JournaledNodes DEF DeliveryInv
  <1>2. PICK T \in Nat : T = TailOf(n) BY <1>1, TailNumber
  <1>3. PICK f \in Nat : f = journal[n].floor /\ f + c <= cursor[d][n] /\ c \in Nat
    BY <1>1, TailNumber DEF PrunedRecords
  <1>4. PICK k \in Nat : k = cursor[d][n] /\ k <= T
    BY <1>1, <1>2 DEF DeliveryInv, Shaped, CutsOK
  <1>5. r \in Seq({Lifecycle(-1), Lifecycle(0)}) /\ Len(r) \in Nat BY DEF PrunedRecords
  <1>6. \A i \in 1..Len(r) : ~(r[i].delta > 0) /\ r[i].delta \in {-1, 0}
    <2>1. \A i \in 1..Len(r) : r[i] \in {Lifecycle(-1), Lifecycle(0)} BY <1>5
    <2>2. Lifecycle(-1).delta = -1 /\ Lifecycle(0).delta = 0 BY DEF Lifecycle, Record
    <2> QED BY <2>1, <2>2
  <1>7. \A o \in Nat : o > T => At(n, o).delta = 0
    <2>1. \A o \in Nat : o > T => At(n, o) = Lifecycle(0) BY <1>2, <1>3 DEF At
    <2> QED BY <2>1 DEF Lifecycle, Record
  <1>8. \A o \in Nat : k < o =>
          At(n, o)' = IF o \in (T + 1)..(T + Len(r)) THEN r[o - T] ELSE At(n, o)
    <2>1. \A o \in Nat : At(n, o)' = IF o \in (T + 1)..(T + Len(r)) THEN r[o - T]
                                     ELSE IF o <= f + c THEN Lifecycle(0) ELSE At(n, o)
      BY <1>2, <1>3 DEF PrunedRecords
    <2>2. \A o \in Nat : k < o => ~(o <= f + c) BY <1>3, <1>4
    <2> QED BY <2>1, <2>2
  <1>9. \A s \in Journaled \ {n}, o \in Nat : At(s, o)' = At(s, o)
    BY JournaledNodes DEF PrunedRecords
  <1>10. ASSUME NEW o \in Nat, k < o, o \in (T + 1)..(T + Len(r))
         PROVE  o - T \in 1..Len(r) /\ At(n, o)' = r[o - T] /\ At(n, o).delta = 0
    BY <1>5, <1>7, <1>8, <1>10
  <1>11. ASSUME NEW s \in Journaled, NEW o \in Nat, cursor[d][s] < o
         PROVE  /\ At(s, o)'.delta > 0 <=> At(s, o).delta > 0
                /\ At(s, o)'.delta < 0 <=> (At(s, o).delta < 0 \/ <<s, o>> \in Appended(n, r))
    <2>1. <<s, o>> \in Appended(n, r) <=> s = n /\ \E m \in 1..Len(r) : o = T + m /\ r[m].delta < 0
      BY <1>2 DEF Appended
    <2>2. CASE s # n BY <1>9, <2>1, <2>2
    <2>3. CASE s = n /\ o \in (T + 1)..(T + Len(r))
      <3>1. PICK m \in 1..Len(r) : m = o - T /\ At(n, o)' = r[m] /\ At(n, o).delta = 0
        BY <1>4, <1>10, <1>11, <2>3
      <3>2. \A i \in 1..Len(r) : o = T + i <=> i = m BY <1>5, <3>1
      <3>3. <<s, o>> \in Appended(n, r) <=> r[m].delta < 0 BY <2>1, <2>3, <3>2
      <3> QED BY <1>6, <2>3, <3>1, <3>3
    <2>4. CASE s = n /\ o \notin (T + 1)..(T + Len(r))
      <3>1. At(s, o)' = At(s, o) BY <1>4, <1>8, <1>11, <2>4
      <3>2. <<s, o>> \notin Appended(n, r) BY <1>5, <2>1, <2>4
      <3> QED BY <3>1, <3>2
    <2> QED BY <2>2, <2>3, <2>4
  <1>12. \A r1 \in Appended(n, r) : \E o \in Nat : r1 = <<n, o>> /\ cursor[d][n] < o /\ At(n, o).delta = 0
    <2> SUFFICES ASSUME NEW m \in 1..Len(r), r[m].delta < 0
                 PROVE  \E o \in Nat : <<n, TailOf(n) + m>> = <<n, o>> /\ cursor[d][n] < o /\ At(n, o).delta = 0
      BY DEF Appended
    <2>1. PICK o \in Nat : o = T + m BY <1>5
    <2>2. k < o /\ o > T BY <1>4, <1>5, <2>1
    <2> QED BY <1>2, <1>4, <1>7, <2>1, <2>2
  <1>13. \A x : x \in Acquiring(d)' <=> x \in Acquiring(d)
    <2> SUFFICES ASSUME NEW x PROVE x \in Acquiring(d)' <=> x \in Acquiring(d) OBVIOUS
    <2>1. x \in Acquiring(d)' <=> \E s \in Journaled, o \in Nat :
            x = <<s, o>> /\ cursor[d][s] < o /\ At(s, o)'.delta > 0
      BY <1>1, FlightMembersNext
    <2>2. x \in Acquiring(d) <=> \E s \in Journaled, o \in Nat :
            x = <<s, o>> /\ cursor[d][s] < o /\ At(s, o).delta > 0
      BY <1>1, FlightMembers
    <2> QED BY <1>11, <2>1, <2>2
  <1>14. \A x : x \in Releasing(d)' <=> (x \in Releasing(d) \/ x \in Appended(n, r))
    <2> SUFFICES ASSUME NEW x
                 PROVE  x \in Releasing(d)' <=> (x \in Releasing(d) \/ x \in Appended(n, r))
      OBVIOUS
    <2>1. x \in Releasing(d)' <=> \E s \in Journaled, o \in Nat :
            x = <<s, o>> /\ cursor[d][s] < o /\ At(s, o)'.delta < 0
      BY <1>1, FlightMembersNext
    <2>2. x \in Releasing(d) <=> \E s \in Journaled, o \in Nat :
            x = <<s, o>> /\ cursor[d][s] < o /\ At(s, o).delta < 0
      BY <1>1, FlightMembers
    <2> QED BY <1>11, <1>12, <2>1, <2>2
  <1>15. \A x : x \in Appended(n, r) => x \notin Releasing(d)
    <2> SUFFICES ASSUME NEW x \in Appended(n, r) PROVE x \notin Releasing(d) OBVIOUS
    <2>1. PICK o \in Nat : x = <<n, o>> /\ At(n, o).delta = 0 BY <1>12
    <2>2. Delta(x) = 0 BY <2>1 DEF Delta
    <2> QED BY <2>2 DEF Releasing
  <1> QED BY <1>13, <1>14, <1>15

(* A step that journals lifecycle records and removes or releases           *)
(* descriptors keeps the numbers apart.                                     *)
LEMMA IdsRetained ==
    ASSUME Typed, IdsOK, RequestsKept,
           \A s \in Nodes, o \in Nat : At(s, o)' = At(s, o) \/ At(s, o)'.id = 0,
           \A v \in stored' : \E w \in stored : v.id = w.id,
           \A v, w \in stored' : v.id = w.id => v = w
    PROVE  IdsOK'
  <1>1. requests' = requests /\ requests \in Nat BY DEF RequestsKept, Typed
  <1>2. \A p \in Paths : Open(p)' => Open(p) /\ request'[p].id = request[p].id BY DEF RequestsKept
  <1>3. \A v \in stored' : v.id <= requests' BY <1>1 DEF IdsOK
  <1>4. \A s \in Nodes, o \in Nat : At(s, o)'.id <= requests' BY <1>1 DEF IdsOK
  <1>5. ASSUME NEW s \in Nodes, NEW o \in Nat, NEW u \in Nat, At(s, o)'.id = At(s, u)'.id, At(s, o)'.id # 0
        PROVE  o = u
    <2>1. At(s, o)' = At(s, o) /\ At(s, u)' = At(s, u) BY <1>5
    <2>2. At(s, o).id = At(s, u).id /\ At(s, o).id # 0 BY <1>5, <2>1
    <2> QED BY <2>2 DEF IdsOK
  <1>6. \A s \in Nodes, o, u \in Nat : At(s, o)'.id = At(s, u)'.id /\ At(s, o)'.id # 0 => o = u BY <1>5
  <1>7. ASSUME NEW p \in Paths, Open(p)'
        PROVE  /\ request'[p].id \in 1..requests'
               /\ \A v \in stored' : v.id # request'[p].id
               /\ \A s \in Nodes, o \in Nat : At(s, o)'.id # request'[p].id
    <2>1. PICK i \in 1..requests : i = request[p].id /\ i = request'[p].id BY <1>2, <1>7 DEF IdsOK
    <2>2. i # 0 BY <1>1
    <2>3. (\A v \in stored : v.id # i) /\ (\A s \in Nodes, o \in Nat : At(s, o).id # i)
      BY <1>2, <1>7, <2>1 DEF IdsOK
    <2> QED BY <1>1, <2>1, <2>2, <2>3
  <1>8. \A p \in Paths : Open(p)' =>
          /\ request'[p].id \in 1..requests'
          /\ \A v \in stored' : v.id # request'[p].id
          /\ \A s \in Nodes, o \in Nat : At(s, o)'.id # request'[p].id
    BY <1>7
  <1>9. \A p, q \in Paths : Open(p)' /\ Open(q)' /\ request'[p].id = request'[q].id => p = q
    BY <1>2 DEF IdsOK
  <1> QED BY <1>3, <1>4, <1>6, <1>8, <1>9 DEF IdsOK

LEMMA PassEvents ==
    ASSUME Shaped, Typed, NEW n \in Nodes, NEW c, NEW r, PrunedRecords(n, c, r)
    PROVE  /\ \A s \in Nodes, o \in Nat : At(s, o)' \in EventRecord
           /\ \A s \in Nodes, o \in Nat : At(s, o)' = At(s, o) \/ At(s, o)'.id = 0
  <1>1. /\ Lifecycle(0) \in EventRecord /\ Lifecycle(-1) \in EventRecord
        /\ Lifecycle(0).id = 0 /\ Lifecycle(-1).id = 0
    BY DEF Lifecycle, Record, EventRecord
  <1>2. r \in Seq({Lifecycle(-1), Lifecycle(0)}) /\ Len(r) \in Nat BY DEF PrunedRecords
  <1>3. \A i \in 1..Len(r) : r[i] \in {Lifecycle(-1), Lifecycle(0)} BY <1>2
  <1>4. ASSUME NEW o \in Nat
        PROVE  At(n, o)' = At(n, o) \/ At(n, o)' \in {Lifecycle(-1), Lifecycle(0)}
    <2>1. At(n, o)' = IF o \in (TailOf(n) + 1)..(TailOf(n) + Len(r)) THEN r[o - TailOf(n)]
                      ELSE IF o <= journal[n].floor + c THEN Lifecycle(0) ELSE At(n, o)
      BY DEF PrunedRecords
    <2>2. CASE o \in (TailOf(n) + 1)..(TailOf(n) + Len(r))
      <3>1. TailOf(n) \in Nat BY TailNumber
      <3>2. o - TailOf(n) \in 1..Len(r) BY <1>2, <2>2, <3>1
      <3> QED BY <1>3, <2>1, <2>2, <3>2
    <2>3. CASE o \notin (TailOf(n) + 1)..(TailOf(n) + Len(r)) BY <2>1, <2>3
    <2> QED BY <2>2, <2>3
  <1>5. \A s \in Nodes, o \in Nat : At(s, o)' = At(s, o) \/ At(s, o)' \in {Lifecycle(-1), Lifecycle(0)}
    BY <1>4 DEF PrunedRecords
  <1> QED BY <1>1, <1>5 DEF Typed

LEMMA PassCounts ==
    ASSUME DeliveryInv, DeliveryInv', CountInv, NEW n \in Journaled, NEW j, NEW force \in BOOLEAN,
           RetentionPass(n, j, force), RequestsKept
    PROVE  CountInv'
  <1>1. n \in Nodes /\ Typed /\ IdsOK /\ Shaped /\ Shaped' BY JournaledNodes DEF CountInv, DeliveryInv
  <1>2. PICK S : j \in JournalRecord(S) BY DEF RetentionPass
  <1>3. /\ j.floor = journal[n].floor /\ j.log = journal[n].log
        /\ journal' = [journal EXCEPT ![n] = Pruned(j, force)]
        /\ stored' = RetainedVersions(j, force)
        /\ cursor' = cursor /\ life' = life /\ head' = head
        /\ \A d \in Nodes : j.referenceSafe <= cursor[d][n]
    BY DEF RetentionPass
  <1>4. PICK c, r : c = PruneCount(j, force) /\ r = DelayedReleases(j, force) OBVIOUS
  <1>5. PrunedRecords(n, c, r) BY <1>1, <1>2, <1>3, <1>4, PassRecords
  <1>6. stored \subseteq VersionRecord /\ IsFiniteSet(stored) /\ \A v, w \in stored : v.id = w.id => v = w
    BY <1>1 DEF Typed, IdsOK
  <1>7. \A i, k \in 1..c : j.log[i].id = j.log[k].id /\ j.log[i].id # 0 => i = k
    <2>1. c \in Nat /\ c <= Len(j.log) BY <1>3, <1>5 DEF PrunedRecords
    <2>2. j.floor \in Nat /\ Len(j.log) \in Nat BY <1>1, <1>3, TailNumber
    <2>3. ASSUME NEW i \in 1..c PROVE j.floor + i \in Nat /\ At(n, j.floor + i) = j.log[i]
      <3>1. PICK o \in Nat : o = j.floor + i BY <2>1, <2>2
      <3>2. o \in (j.floor + 1)..(j.floor + Len(j.log)) BY <2>1, <2>2, <3>1
      <3>3. o - j.floor = i BY <2>1, <2>2, <3>1
      <3>4. At(n, o) = j.log[o - j.floor] BY <1>3, <3>2 DEF At, TailOf
      <3> QED BY <3>1, <3>3, <3>4
    <2> SUFFICES ASSUME NEW i \in 1..c, NEW k \in 1..c, j.log[i].id = j.log[k].id, j.log[i].id # 0
                 PROVE  i = k
      OBVIOUS
    <2>4. PICK x \in Nat, y \in Nat : x = j.floor + i /\ y = j.floor + k BY <2>3
    <2>5. At(n, x).id = At(n, y).id /\ At(n, x).id # 0 BY <2>3, <2>4
    <2>6. x = y BY <1>1, <2>5 DEF IdsOK
    <2> QED BY <2>1, <2>2, <2>4, <2>6
  <1>8. /\ r \in Seq({Lifecycle(-1), Lifecycle(0)})
        /\ Cardinality({m \in 1..Len(r) : r[m].delta < 0}) = Cardinality(RetiredPuts(j, force))
    BY <1>2, <1>4, <1>6, <1>7, ReleasesCounted
  <1>9. /\ stored' \subseteq VersionRecord /\ IsFiniteSet(stored')
        /\ \A v \in stored' : \E w \in stored : v.id = w.id
        /\ \A v, w \in stored' : v.id = w.id => v = w
        /\ Cardinality(Puts') + Cardinality(RetiredPuts(j, force)) = Cardinality(Puts)
    <2>1. PICK K : K = RetainedVersions(j, force) OBVIOUS
    <2>2. /\ K \subseteq VersionRecord /\ IsFiniteSet(K)
          /\ \A v \in K : \E w \in stored \ Retired(j, force) :
                v.id = w.id /\ v.path = w.path /\ v.put = w.put
          /\ \A v, w \in K : v.id = w.id => v = w
          /\ Cardinality({v \in K : v.put}) + Cardinality(RetiredPuts(j, force)) = Cardinality(Puts)
      BY <1>6, <2>1, RetainedCounted
    <2>3. Puts' = {v \in K : v.put} BY <1>3, <2>1 DEF Puts
    <2> QED BY <1>3, <2>1, <2>2, <2>3
  <1>10. IdsOK'
    <2>1. \A s \in Nodes, o \in Nat : At(s, o)' = At(s, o) \/ At(s, o)'.id = 0 BY <1>1, <1>5, PassEvents
    <2> QED BY <1>1, <1>9, <2>1, IdsRetained
  <1>11. Typed'
    <2>1. \A s \in Nodes, o \in Nat : At(s, o)' \in EventRecord BY <1>1, <1>5, PassEvents
    <2> QED BY <1>1, <1>3, <1>9, <2>1 DEF Typed, RequestsKept
  <1>12. LifeOK' /\ CountsKept
    <2>1. LifeRefreshed BY <1>3, LifeUnchanged DEF CountInv
    <2> QED BY <2>1, LifeRefreshedMeans DEF CountInv
  <1>13. ASSUME NEW d \in Owners
         PROVE  /\ Counted(life'[d]) + Cardinality(Acquiring(d)') - Cardinality(Releasing(d)') = Cardinality(Puts')
                /\ Cardinality(Puts') + Cardinality(Releasing(d)') + Cardinality(OpenPuts') <= requests
    <2>1. d \in Nodes BY PlacementAssumption
    <2>2. /\ Acquiring(d)' = Acquiring(d)
          /\ Releasing(d)' = Releasing(d) \cup Appended(n, r)
          /\ Releasing(d) \cap Appended(n, r) = {}
      BY <1>3, <1>5, <2>1, PassFlight
    <2>3. /\ IsFiniteSet(Releasing(d)) /\ Cardinality(Releasing(d)) \in Nat
          /\ Cardinality(Acquiring(d)) \in Nat /\ Cardinality(Puts) \in Nat
          /\ Cardinality(OpenPuts) \in Nat
      BY <1>1, <2>1, FiniteCounts
    <2>4. /\ IsFiniteSet(Appended(n, r))
          /\ Cardinality(Appended(n, r)) = Cardinality(RetiredPuts(j, force))
      BY <1>1, <1>8, AppendedCounted
    <2>5. PICK a \in Nat : a = Cardinality(Appended(n, r)) BY <2>4, FS_CardinalityType
    <2>6. Cardinality(Releasing(d)') = Cardinality(Releasing(d)) + a
      BY <2>2, <2>3, <2>4, <2>5, CountUnion
    <2>7. Counted(life'[d]) = Counted(life[d]) BY <1>12 DEF CountsKept
    <2>8. Counted(life[d]) \in Nat BY <2>1 DEF CountInv, LifeOK, CopyOK, CopyRecord, Counted
    <2>9. /\ Counted(life[d]) + Cardinality(Acquiring(d)) - Cardinality(Releasing(d)) = Cardinality(Puts)
          /\ Cardinality(Puts) + Cardinality(Releasing(d)) + Cardinality(OpenPuts) <= requests
      BY DEF CountInv, Conserved, Budget
    <2>10. Cardinality(Puts') + a = Cardinality(Puts) /\ Cardinality(Puts') \in Nat
      BY <1>1, <1>9, <1>11, <2>4, <2>5, FiniteCountsNext
    <2>11. Cardinality(OpenPuts') <= Cardinality(OpenPuts) /\ Cardinality(OpenPuts') \in Nat
      BY <1>1, <1>11, OpenPutsKept, FiniteCountsNext
    <2>12. requests \in Nat BY <1>1 DEF Typed
    <2> QED BY <2>2, <2>3, <2>6, <2>7, <2>8, <2>9, <2>10, <2>11, <2>12
  <1>14. Conserved' BY <1>13 DEF Conserved, Counted
  <1>15. Budget' BY <1>13 DEF Budget, RequestsKept
  <1> QED BY <1>10, <1>11, <1>12, <1>14, <1>15 DEF CountInv

-----------------------------------------------------------------------------
(* The steps that neither deliver nor journal a reference, one by one. *)

QuietStep ==
    /\ SameRecords /\ QuietCursors /\ RequestsKept
    /\ stored' = stored /\ head' = head

LEMMA RequestsSame ==
    ASSUME Typed, request' = request, requests' = requests
    PROVE  RequestsKept
  BY DEF Typed, RequestsKept, Open

LEMMA RequestMoves ==
    ASSUME Typed, NEW p \in Paths, NEW x \in {"ready", "verified", "waiting"}, Open(p),
           request' = [request EXCEPT ![p].phase = x], requests' = requests
    PROVE  /\ RequestsKept /\ \A q \in Paths : request'[q].age = request[q].age
           /\ \A q \in Paths : Open(q)' <=> Open(q)
  <1>1. request \in [Paths -> RequestRecord] BY DEF Typed
  <1>2. PICK k \in RequestRecord : k = [request[p] EXCEPT !.phase = x] BY <1>1 DEF RequestRecord
  <1>3. /\ k.phase = x /\ k.put = request[p].put /\ k.source = request[p].source
        /\ k.id = request[p].id /\ k.age = request[p].age
    BY <1>1, <1>2 DEF RequestRecord
  <1>4. \A q \in Paths : request'[q] = IF q = p THEN k ELSE request[q] BY <1>1, <1>2
  <1>5. request' \in [Paths -> RequestRecord] BY <1>1, <1>2
  <1> QED BY <1>3, <1>4, <1>5 DEF RequestsKept, Open

LEMMA RequestEnds ==
    ASSUME Typed, NEW p \in Paths, request' = [request EXCEPT ![p] = Idle], requests' = requests
    PROVE  RequestsKept /\ \A q \in Paths : Open(q)' => request'[q] = request[q]
  <1>1. request \in [Paths -> RequestRecord] BY DEF Typed
  <1>2. Idle \in RequestRecord /\ Idle.phase = "idle" BY DEF RequestRecord, Idle
  <1>3. \A q \in Paths : request'[q] = IF q = p THEN Idle ELSE request[q] BY <1>1
  <1>4. request' \in [Paths -> RequestRecord] BY <1>1, <1>2
  <1> QED BY <1>2, <1>3, <1>4 DEF RequestsKept, Open

LEMMA SettledMoves ==
    ASSUME DeliveryInv, NEW s \in Nodes, NEW k \in Nat, journal' = [journal EXCEPT ![s].settled = k]
    PROVE  /\ SameRecords
           /\ \A n \in Nodes : /\ TailOf(n)' = TailOf(n) /\ journal'[n].floor = journal[n].floor
                               /\ journal'[n].derived = journal[n].derived
                               /\ journal'[n].settled = IF n = s THEN k ELSE journal[n].settled
  <1>1. PICK S : journal \in [Nodes -> JournalRecord(S)] BY DEF DeliveryInv, Shaped
  <1>2. PICK j : j = [journal[s] EXCEPT !.settled = k] OBVIOUS
  <1>3. /\ j.floor = journal[s].floor /\ j.log = journal[s].log
        /\ j.derived = journal[s].derived /\ j.settled = k
    BY <1>1, <1>2 DEF JournalRecord
  <1>4. journal' = [journal EXCEPT ![s] = j] BY <1>2
  <1>5. \A n \in Nodes : journal'[n] = IF n = s THEN j ELSE journal[n] BY <1>1, <1>4
  <1> QED BY <1>3, <1>4, <1>5, SameWhenCut DEF TailOf

LEMMA PrepareQuiet ==
    ASSUME DeliveryInv, CountInv, NEW p \in Paths, PreparePayload(p)
    PROVE  QuietStep /\ LifeRefreshed
  <1>1. /\ journal' = journal /\ cursor' = cursor /\ stored' = stored /\ head' = head
        /\ requests' = requests
    BY DEF PreparePayload
  <1>2. SameRecords /\ QuietCursors BY <1>1, SameWhenKept, QuietWhenKept
  <1>3. Open(p) /\ Typed /\ LifeOK BY DEF PreparePayload, Open, CountInv
  <1>4. CASE Valid(life[request[p].source])
    <2>1. request' = [request EXCEPT ![p].phase = "verified"] /\ life' \in {life, Placed(life)}
      BY <1>4 DEF PreparePayload
    <2> QED BY <1>1, <1>2, <1>3, <2>1, RequestMoves, LifePlaced DEF QuietStep
  <1>5. CASE ~Valid(life[request[p].source])
    <2>1. request' = [request EXCEPT ![p] = Idle] /\ life' = life BY <1>5 DEF PreparePayload
    <2> QED BY <1>1, <1>2, <1>3, <2>1, RequestEnds, LifeUnchanged DEF QuietStep
  <1> QED BY <1>4, <1>5

LEMMA RefusedQuiet ==
    ASSUME DeliveryInv, CountInv, NEW p \in Paths, CommitRefused(p)
    PROVE  QuietStep /\ LifeRefreshed
  <1>1. /\ journal' = journal /\ cursor' = cursor /\ stored' = stored /\ head' = head
        /\ requests' = requests /\ life' = life /\ request' = [request EXCEPT ![p].phase = "waiting"]
    BY DEF CommitRefused
  <1>2. SameRecords /\ QuietCursors BY <1>1, SameWhenKept, QuietWhenKept
  <1>3. Open(p) /\ Typed /\ LifeOK BY DEF CommitRefused, Open, CountInv
  <1> QED BY <1>1, <1>2, <1>3, RequestMoves, LifeUnchanged DEF QuietStep

LEMMA AbandonQuiet ==
    ASSUME DeliveryInv, CountInv, NEW p \in Paths, Abandon(p)
    PROVE  QuietStep /\ LifeRefreshed
  <1>1. /\ journal' = journal /\ cursor' = cursor /\ stored' = stored /\ head' = head
        /\ requests' = requests /\ life' = life /\ request' = [request EXCEPT ![p] = Idle]
    BY DEF Abandon
  <1>2. SameRecords /\ QuietCursors BY <1>1, SameWhenKept, QuietWhenKept
  <1>3. Typed /\ LifeOK BY DEF CountInv
  <1> QED BY <1>1, <1>2, <1>3, RequestEnds, LifeUnchanged DEF QuietStep

LEMMA SettleQuiet ==
    ASSUME DeliveryInv, CountInv, NEW s \in Nodes, SettlePosition(s)
    PROVE  QuietStep /\ LifeRefreshed
  <1>1. /\ cursor' = cursor /\ stored' = stored /\ head' = head /\ life' = life
        /\ requests' = requests /\ request' = request
        /\ journal' = [journal EXCEPT ![s].settled = journal[s].settled + 1]
    BY DEF SettlePosition
  <1>2. PICK k \in Nat : k = journal[s].settled + 1 BY TailNumber DEF DeliveryInv
  <1>3. SameRecords /\ QuietCursors BY <1>1, <1>2, SettledMoves, QuietWhenKept
  <1> QED BY <1>1, <1>3, RequestsSame, LifeUnchanged DEF QuietStep, CountInv

LEMMA ReadQuiet ==
    ASSUME DeliveryInv, CountInv, NEW s \in Nodes, ReadCursors(s)
    PROVE  QuietStep /\ LifeRefreshed
  <1>1. /\ cursor' = cursor /\ stored' = stored /\ head' = head /\ life' = life
        /\ requests' = requests /\ request' = request
    BY DEF ReadCursors
  <1>2. PICK k \in SettlementStops(s) : journal' = [journal EXCEPT ![s].settled = k]
    BY DEF ReadCursors
  <1>3. k \in Nat
    <2>1. TailOf(s) \in Nat /\ journal[s].settled \in Nat BY TailNumber DEF DeliveryInv
    <2> QED BY <2>1 DEF SettlementStops
  <1>4. SameRecords /\ QuietCursors BY <1>1, <1>2, <1>3, SettledMoves, QuietWhenKept
  <1> QED BY <1>1, <1>4, RequestsSame, LifeUnchanged DEF QuietStep, CountInv

(* Steps that leave journals, cursors, versions and requests alone.         *)
LEMMA ElsewhereQuiet ==
    ASSUME DeliveryInv, CountInv,
           journal' = journal, cursor' = cursor, stored' = stored, head' = head,
           request' = request, requests' = requests
    PROVE  QuietStep
  BY SameWhenKept, QuietWhenKept, RequestsSame DEF QuietStep, CountInv

LEMMA PageQuiet ==
    ASSUME DeliveryInv, CountInv, NEW s \in Nodes, NEW through, TakePage(s, through)
    PROVE  QuietStep /\ LifeRefreshed
  <1>1. /\ journal' = journal /\ cursor' = cursor /\ stored' = stored /\ head' = head
        /\ request' = request /\ requests' = requests
    BY DEF TakePage
  <1>2. life' = life \/ life' = PreparedCopies(s) BY DEF TakePage
  <1> QED BY <1>1, <1>2, ElsewhereQuiet, LifeUnchanged, LifePrepared DEF CountInv

LEMMA CollectQuiet ==
    ASSUME DeliveryInv, CountInv, NEW n \in Nodes, Collect(n)
    PROVE  QuietStep /\ LifeOK' /\ CountsKept
  <1>1. stored' = stored /\ head' = head /\ request' = request /\ requests' = requests BY DEF Collect
  <1>2. CASE Garbage(life[n]) /\ Fits(n)
    <2>1. /\ life' = [life EXCEPT ![n] = NoCopy]
          /\ journal' = [journal EXCEPT ![n] = AppendInert(n)]
          /\ cursor' = [cursor EXCEPT ![n][n] = SelfCursor(n)]
      BY <1>2 DEF Collect
    <2>2. SameRecords /\ QuietCursors BY <2>1, SameWhenInert, QuietWhenInert
    <2>3. LifeOK' /\ CountsKept BY <1>2, <2>1, LifeCollected DEF CountInv
    <2> QED BY <1>1, <2>2, <2>3, RequestsSame DEF QuietStep, CountInv
  <1>3. CASE ~(Garbage(life[n]) /\ Fits(n))
    <2>1. life' = life /\ journal' = journal /\ cursor' = cursor BY <1>3 DEF Collect
    <2>2. LifeRefreshed BY <2>1, LifeUnchanged DEF CountInv
    <2> QED BY <1>1, <2>1, <2>2, ElsewhereQuiet, LifeRefreshedMeans DEF CountInv
  <1> QED BY <1>2, <1>3

LEMMA TickQuiet ==
    ASSUME DeliveryInv, CountInv, Tick
    PROVE  /\ QuietStep /\ LifeOK' /\ CountsKept
           /\ \A p \in Paths : request'[p].phase = request[p].phase
           /\ \A p \in Paths : request'[p].age = IF Open(p) THEN request[p].age + 1 ELSE request[p].age
  <1> DEFINE a(p) == IF request[p].phase = "idle" THEN request[p].age ELSE request[p].age + 1
  <1>1. /\ journal' = journal /\ cursor' = cursor /\ stored' = stored /\ head' = head
        /\ requests' = requests
        /\ request' = [p \in Paths |-> [request[p] EXCEPT !.age = a(p)]]
    BY DEF Tick
  <1>2. SameRecords /\ QuietCursors BY <1>1, SameWhenKept, QuietWhenKept
  <1>3. request \in [Paths -> RequestRecord] BY DEF CountInv, Typed
  <1>4. ASSUME NEW p \in Paths
        PROVE  /\ request'[p] \in RequestRecord /\ request'[p].phase = request[p].phase
               /\ request'[p].put = request[p].put /\ request'[p].source = request[p].source
               /\ request'[p].id = request[p].id /\ request'[p].age = a(p)
    <2>1. request[p] \in RequestRecord BY <1>3
    <2>2. a(p) \in Nat BY <2>1 DEF RequestRecord
    <2> HIDE DEF a
    <2>3. request'[p] = [request[p] EXCEPT !.age = a(p)] BY <1>1
    <2> QED BY <2>1, <2>2, <2>3 DEF RequestRecord
  <1>5. RequestsKept
    <2> HIDE DEF a
    <2>1. request' \in [Paths -> RequestRecord] BY <1>1, <1>4
    <2> QED BY <1>1, <1>4, <2>1 DEF RequestsKept, Open
  <1>6. \A p \in Paths : a(p) = IF Open(p) THEN request[p].age + 1 ELSE request[p].age BY DEF Open
  <1> HIDE DEF a
  <1>7. LifeOK' /\ CountsKept BY LifeTicked DEF CountInv
  <1> QED BY <1>1, <1>2, <1>4, <1>5, <1>6, <1>7 DEF QuietStep

LEMMA RestartQuiet ==
    ASSUME DeliveryInv, CountInv, NEW n \in Nodes, Restart(n)
    PROVE  /\ QuietStep /\ LifeRefreshed
           /\ \A p \in Paths : Open(p)' => request'[p] = request[p]
  <1>1. /\ cursor' = cursor /\ life' = life /\ stored' = stored /\ head' = head
        /\ requests' = requests
        /\ journal' = [journal EXCEPT ![n].referenceSafe = journal[n].floor]
        /\ request' = [p \in Paths |-> IF n \in {Coordinator[p], request[p].source}
                                       THEN Idle ELSE request[p]]
    BY DEF Restart
  <1>2. PICK S : journal \in [Nodes -> JournalRecord(S)] BY DEF DeliveryInv, Shaped
  <1>3. PICK k : k = [journal[n] EXCEPT !.referenceSafe = journal[n].floor] OBVIOUS
  <1>4. k.floor = journal[n].floor /\ k.log = journal[n].log BY <1>2, <1>3 DEF JournalRecord
  <1>5. journal' = [journal EXCEPT ![n] = k] BY <1>1, <1>3
  <1>6. SameRecords /\ QuietCursors BY <1>1, <1>4, <1>5, SameWhenCut, QuietWhenKept
  <1>7. request \in [Paths -> RequestRecord] BY DEF CountInv, Typed
  <1>8. Idle \in RequestRecord /\ Idle.phase = "idle" BY DEF RequestRecord, Idle
  <1>9. \A p \in Paths : request'[p] \in {Idle, request[p]} BY <1>1
  <1>10. request' \in [Paths -> RequestRecord] BY <1>1, <1>7, <1>8
  <1>11. RequestsKept /\ \A p \in Paths : Open(p)' => request'[p] = request[p]
    BY <1>1, <1>8, <1>9, <1>10 DEF RequestsKept, Open
  <1>12. LifeRefreshed BY <1>1, LifeUnchanged DEF CountInv
  <1> QED BY <1>1, <1>6, <1>11, <1>12 DEF QuietStep

LEMMA QuietStepCounts ==
    ASSUME DeliveryInv, DeliveryInv', CountInv, QuietStep, LifeOK', CountsKept
    PROVE  CountInv'
  BY QuietCounts DEF QuietStep

LEMMA WaitCounts ==
    ASSUME DeliveryInv, DeliveryInv', CountInv, NEW p \in Paths, WaitForCapacity(p)
    PROVE  CountInv'
  <1>1. PICK n \in Journaled : n = Coordinator[p] BY DEF Journaled
  <1>2. RetentionPass(n, journal[n], TRUE) BY <1>1, WaitIsPass
  <1>3. PICK x \in {"ready", "verified", "waiting"} : request' = [request EXCEPT ![p].phase = x]
    BY DEF WaitForCapacity
  <1>4. Open(p) /\ requests' = requests /\ Typed BY DEF WaitForCapacity, Open, CountInv
  <1>5. RequestsKept BY <1>3, <1>4, RequestMoves
  <1> QED BY <1>2, <1>5, PassCounts

LEMMA StepCounts ==
    ASSUME DeliveryInv, CountInv, [Next]_vars
    PROVE  CountInv'
  <1>1. DeliveryInv' BY StepDelivery
  <1>q. ASSUME QuietStep, LifeRefreshed PROVE CountInv'
    <2>1. LifeOK' /\ CountsKept BY <1>q, LifeRefreshedMeans DEF CountInv
    <2> QED BY <1>1, <1>q, <2>1, QuietStepCounts
  <1>e. ASSUME journal' = journal, cursor' = cursor, life' = life, stored' = stored, head' = head,
               request' = request, requests' = requests
        PROVE  CountInv'
    <2>1. QuietStep BY <1>e, ElsewhereQuiet
    <2>2. LifeRefreshed BY <1>e, LifeUnchanged DEF CountInv
    <2> QED BY <2>1, <2>2, <1>q
  <1>2. CASE UNCHANGED vars BY <1>2, <1>e DEF vars
  <1>3. ASSUME NEW p \in Paths, ClientStep(p) PROVE CountInv'
    <2>1. ASSUME NEW u \in Gateways, Upload(p, u) PROVE CountInv'
      <3>1. u \in Nodes BY PlacementAssumption
      <3> QED BY <1>1, <2>1, <3>1, UploadCounts
    <2>2. CASE StartDelete(p) BY <1>1, <2>2, StartDeleteCounts
    <2>3. CASE Abandon(p) BY <1>q, <2>3, AbandonQuiet
    <2> QED BY <1>3, <2>1, <2>2, <2>3 DEF ClientStep
  <1>4. ASSUME NEW p \in Paths, RequestStep(p) PROVE CountInv'
    <2>1. CASE PreparePayload(p) BY <1>q, <2>1, PrepareQuiet
    <2>2. CASE CommitMutation(p) BY <1>1, <2>2, CommitCounts
    <2>3. CASE CommitRefused(p) BY <1>q, <2>3, RefusedQuiet
    <2>4. CASE WaitForCapacity(p) BY <1>1, <2>4, WaitCounts
    <2> QED BY <1>4, <2>1, <2>2, <2>3, <2>4 DEF RequestStep
  <1>5. ASSUME NEW s \in Journaled, PassStep(s) PROVE CountInv'
    <2> s \in Nodes BY JournaledNodes
    <2>1. CASE ReadCursors(s) BY <1>q, <2>1, ReadQuiet
    <2>2. CASE CursorsUnread(s) BY <1>e, <2>2 DEF CursorsUnread
    <2>3. ASSUME NEW through \in Slowest(s)..TailOf(s), TakePage(s, through) PROVE CountInv'
      BY <1>q, <2>3, PageQuiet
    <2>4. ASSUME NEW d \in Nodes, DeliverBatch(s, d) PROVE CountInv'
      <3>1. ASSUME NEW ok \in BOOLEAN, ApplyBatch(s, d, ok) PROVE CountInv'
        BY <1>1, <3>1, ApplyCounts
      <3>2. CASE ReplayBatch(s, d) BY <1>e, <3>2 DEF ReplayBatch
      <3>3. CASE BatchFails(s, d) BY <1>e, <3>3 DEF BatchFails
      <3> QED BY <2>4, <3>1, <3>2, <3>3 DEF DeliverBatch
    <2>5. CASE FinishCompaction(s)
      <3>1. PICK j : RetentionPass(s, j, FALSE) BY <2>5, CompactionIsPass
      <3>2. RequestsKept BY <2>5, RequestsSame DEF FinishCompaction, CountInv
      <3> QED BY <1>1, <3>1, <3>2, PassCounts
    <2> QED BY <1>5, <2>1, <2>2, <2>3, <2>4, <2>5 DEF PassStep
  <1>6. ASSUME NEW s \in Journaled, CutStep(s) PROVE CountInv'
    <2> s \in Nodes BY JournaledNodes
    <2>1. CASE SettlePosition(s) BY <1>q, <2>1, SettleQuiet
    <2>2. CASE DerivedCheckpoint(s)
      <3>1. PICK j : RetentionPass(s, j, FALSE) BY <2>2, CheckpointIsPass
      <3>2. RequestsKept BY <2>2, RequestsSame DEF DerivedCheckpoint, CountInv
      <3> QED BY <1>1, <3>1, <3>2, PassCounts
    <2> QED BY <1>6, <2>1, <2>2 DEF CutStep
  <1>7. ASSUME NEW n \in Nodes, CollectionStep(n) PROVE CountInv'
    <2>1. CASE StartCollection(n) BY <1>e, <2>1 DEF StartCollection
    <2>2. ASSUME NEW s \in Journaled, CheckSource(n, s) PROVE CountInv'
      BY <1>e, <2>2 DEF CheckSource
    <2>3. CASE Collect(n)
      <3>1. QuietStep /\ LifeOK' /\ CountsKept BY <2>3, CollectQuiet
      <3> QED BY <1>1, <3>1, QuietStepCounts
    <2> QED BY <1>7, <2>1, <2>2, <2>3 DEF CollectionStep
  <1>8. ASSUME NEW n \in Nodes, Restart(n) PROVE CountInv'
    BY <1>q, <1>8, RestartQuiet
  <1>9. CASE Tick
    <2>1. QuietStep /\ LifeOK' /\ CountsKept BY <1>9, TickQuiet
    <2> QED BY <1>1, <2>1, QuietStepCounts
  <1> QED BY <1>2, <1>3, <1>4, <1>5, <1>6, <1>7, <1>8, <1>9 DEF Next

LEMMA InitRecords ==
    ASSUME Init
    PROVE  \E c : \A s \in Nodes, o \in Nat :
               /\ At(s, o) \in EventRecord
               /\ At(s, o).id = 0 \/ (At(s, o).id = 1 /\ s = c /\ o = 1)
               /\ \A d \in Nodes : o > cursor[d][s] => At(s, o).delta = 0
  <1>1. PICK p \in Paths, retention \in {"pending", "released"} : Published(p, retention)
    BY DEF Init
  <1>2. PICK c : c = Coordinator[p] OBVIOUS
  <1>3. ASSUME NEW s \in Nodes, NEW o \in Nat
        PROVE  /\ At(s, o) \in EventRecord
               /\ At(s, o).id = 0 \/ (At(s, o).id = 1 /\ s = c /\ o = 1)
               /\ \A d \in Nodes : o > cursor[d][s] => At(s, o).delta = 0
    <2>1. Lifecycle(0) \in EventRecord /\ Lifecycle(0).id = 0 /\ Lifecycle(0).delta = 0
      BY DEF Lifecycle, Record, EventRecord
    <2>2. CASE s = c /\ retention = "pending"
      <3>1. PICK e : e = Record(1, p, 1) OBVIOUS
      <3>2. journal[s].log = <<e>> /\ journal[s].floor = 0 BY <1>1, <1>2, <2>2, <3>1 DEF Published
      <3>3. \A d \in Nodes : cursor[d][s] = 1 BY <1>1, <1>2, <2>2, <3>1 DEF Published
      <3>4. TailOf(s) = 1 BY <3>2 DEF TailOf
      <3>5. e \in EventRecord /\ e.id = 1 BY <3>1 DEF Record, EventRecord
      <3>6. At(s, o) = IF o \in 1..1 THEN <<e>>[o] ELSE Lifecycle(0) BY <3>2, <3>4 DEF At
      <3>7. CASE o = 1
        <4>1. At(s, o) = e BY <3>6, <3>7
        <4> QED BY <2>2, <3>3, <3>5, <3>7, <4>1
      <3>8. CASE o # 1
        <4>1. At(s, o) = Lifecycle(0) BY <3>6, <3>8
        <4> QED BY <2>1, <4>1
      <3> QED BY <3>7, <3>8
    <2>3. CASE ~(s = c /\ retention = "pending")
      <3>1. journal[s].log = <<>> /\ journal[s].floor = 0
        <4>1. CASE s = c BY <1>1, <1>2, <2>3, <4>1 DEF Published
        <4>2. CASE s # c BY <1>1, <1>2, <4>2 DEF Published, EmptyJournal
        <4> QED BY <4>1, <4>2
      <3>2. TailOf(s) = 0 BY <3>1 DEF TailOf
      <3>3. At(s, o) = Lifecycle(0) BY <3>1, <3>2 DEF At
      <3> QED BY <2>1, <3>3
    <2> QED BY <2>2, <2>3
  <1> QED BY <1>3

LEMMA InitCounts ==
    ASSUME Init
    PROVE  CountInv
  <1>1. DeliveryInv /\ Shaped BY InitDelivery DEF DeliveryInv
  <1>2. PICK p \in Paths, retention \in {"pending", "released"} : Published(p, retention)
    BY DEF Init
  <1>4. PICK v : v = [path |-> p, id |-> 1, put |-> TRUE, retention |-> retention] OBVIOUS
  <1>5. /\ stored = {v} /\ head = [q \in Paths |-> IF q = p THEN 1 ELSE 0]
        /\ life = [n \in Nodes |-> IF n \in Owners
                                  THEN [held |-> TRUE, refs |-> 1, awaiting |-> FALSE, age |-> Ttl]
                                  ELSE NoCopy]
    BY <1>2, <1>4 DEF Published
  <1>6. v \in VersionRecord /\ v.id = 1 /\ v.put BY <1>4 DEF VersionRecord
  <1>7. request = [q \in Paths |-> Idle] /\ requests = 1 BY DEF Init
  <1>8. Idle \in RequestRecord /\ Idle.phase = "idle" BY DEF Idle, RequestRecord
  <1>9. PICK c : \A s \in Nodes, o \in Nat :
               /\ At(s, o) \in EventRecord
               /\ At(s, o).id = 0 \/ (At(s, o).id = 1 /\ s = c /\ o = 1)
               /\ \A d \in Nodes : o > cursor[d][s] => At(s, o).delta = 0
    BY InitRecords
  <1>10. Typed
    <2>1. IsFiniteSet({v}) BY FS_Singleton
    <2>2. head \in [Paths -> Nat] BY <1>5
    <2> QED BY <1>5, <1>6, <1>7, <1>8, <1>9, <2>1, <2>2 DEF Typed
  <1>11. LifeOK
    <2>1. Ttl \in 0..Ttl /\ 0 \in 0..Ttl BY GraceAssumption
    <2>2. PICK k : k = [held |-> TRUE, refs |-> 1, awaiting |-> FALSE, age |-> Ttl] OBVIOUS
    <2>3. CopyOK(k) /\ k \in CopyRecord BY <2>1, <2>2 DEF CopyOK, CopyRecord
    <2>4. CopyOK(NoCopy) /\ Counted(NoCopy) = 0 /\ NoCopy \in CopyRecord
      BY <2>1 DEF CopyOK, CopyRecord, Counted, NoCopy
    <2>5. life = [n \in Nodes |-> IF n \in Owners THEN k ELSE NoCopy] BY <1>5, <2>2
    <2> QED BY <2>3, <2>4, <2>5 DEF LifeOK
  <1>12. IdsOK
    <2>1. \A q \in Paths : ~Open(q) BY <1>7, <1>8 DEF Open
    <2>2. \A s \in Nodes, o, u \in Nat : At(s, o).id = At(s, u).id /\ At(s, o).id # 0 => o = u
      BY <1>9
    <2>3. \A s \in Nodes, o \in Nat : At(s, o).id <= requests BY <1>7, <1>9
    <2> QED BY <1>5, <1>6, <1>7, <2>1, <2>2, <2>3 DEF IdsOK
  <1>13. ASSUME NEW d \in Owners
         PROVE  /\ Counted(life[d]) + Cardinality(Acquiring(d)) - Cardinality(Releasing(d)) = Cardinality(Puts)
                /\ Cardinality(Puts) + Cardinality(Releasing(d)) + Cardinality(OpenPuts) <= requests
    <2>1. d \in Nodes BY PlacementAssumption
    <2>2. \A s \in Journaled, o \in Nat : ~(cursor[d][s] < o /\ At(s, o).delta > 0)
      <3>1. \A s \in Journaled : cursor[d][s] \in Nat BY <1>1, <2>1, JournaledNodes DEF Shaped
      <3> QED BY <1>9, <2>1, <3>1, JournaledNodes
    <2>3. \A s \in Journaled, o \in Nat : ~(cursor[d][s] < o /\ At(s, o).delta < 0)
      <3>1. \A s \in Journaled : cursor[d][s] \in Nat BY <1>1, <2>1, JournaledNodes DEF Shaped
      <3> QED BY <1>9, <2>1, <3>1, JournaledNodes
    <2>4. Acquiring(d) = {} /\ Releasing(d) = {} BY <1>1, <2>1, <2>2, <2>3, FlightMembers
    <2>5. Puts = {v} BY <1>5, <1>6 DEF Puts
    <2>6. OpenPuts = {} BY <1>7, <1>8 DEF OpenPuts, Open
    <2>7. Counted(life[d]) = 1 BY <1>5, <2>1 DEF Counted
    <2>8. Cardinality({v}) = 1 /\ Cardinality({}) = 0 BY FS_Singleton, FS_EmptySet
    <2> QED BY <1>7, <2>4, <2>5, <2>6, <2>7, <2>8
  <1> QED BY <1>10, <1>11, <1>12, <1>13 DEF CountInv, Conserved, Budget

(* No reference is lost, applied twice or released twice.  Whatever         *)
(* interleaving of commits, delivery passes (ReferenceDelivery::            *)
(* deliver_once), lost answers, replays, retention passes                   *)
(* (enforce_local_watch_retention_inner), collections and restarts, the     *)
(* count an owner has applied (apply_reference_deltas) and the deltas still *)
(* on their way to it add up to the versions the coordinators store.        *)
THEOREM CountsConserved == Spec => []ReferencesConserved
  <1>1. DeliveryInv /\ CountInv /\ [Next]_vars => DeliveryInv' /\ CountInv'
    BY StepDelivery, StepCounts
  <1>2. CountInv => ReferencesConserved BY ConservedMeans DEF CountInv
  <1> QED BY <1>1, <1>2, InitDelivery, InitCounts, PTL DEF Spec

-----------------------------------------------------------------------------
(* The invariant of the bytes. *)

(* Source s is one of those the collection on n has found consumed.         *)
Checked(n, s) ==
    gc[n].phase = "safe" \/ (gc[n].phase = "checking" /\ s \notin gc[n].left)

(* The record at offset o has been taken by a page of its source.           *)
Reached(s, o) ==
    \/ \E n \in Nodes : o <= cursor[n][s]
    \/ pass[s].phase = "apply" /\ o <= pass[s].through

Gained(s, o) == At(s, o).delta > 0

YoungRequests == \A p \in Paths : Open(p) => request[p].age <= UploadTicks
YoungCollections == \A n \in Nodes : gc[n].phase # "idle" => gc[n].age <= GcTicks

(* The upload's own copy outlives the request.                              *)
SourceHeld ==
    \A p \in Paths : Open(p) /\ request[p].put =>
        /\ request[p].source \in Nodes
        /\ life[request[p].source].held
        /\ life[request[p].source].age <= request[p].age

(* A reference that n has not seen, of a source n has checked, was          *)
(* committed after the check: its upload's copy is younger than the grace   *)
(* period.                                                                  *)
Fresh ==
    \A s \in Journaled, o \in Nat, n \in Nodes :
        Gained(s, o) /\ Checked(n, s) /\ cursor[n][s] < o =>
            \E u \in Nodes : life[u].held /\ life[u].age <= UploadTicks + gc[n].age

(* A reference that some page has taken was prepared on every owner that    *)
(* has yet to apply it, and after its check of the source.                  *)
Taken ==
    \A s \in Journaled, o \in Nat, d \in Owners :
        Gained(s, o) /\ Reached(s, o) /\ cursor[d][s] < o =>
            life[d].held /\ (Checked(d, s) => life[d].age <= gc[d].age)

BytesInv ==
    /\ gc \in [Nodes -> GcRecord]
    /\ YoungRequests /\ YoungCollections
    /\ SourceHeld /\ Fresh /\ Taken
    /\ PublishedBytesKept

-----------------------------------------------------------------------------
(* What most steps do. *)

NoneOlder == \A n \in Nodes : life[n].held => life'[n].held /\ life'[n].age <= life[n].age
NoneGained == \A s \in Journaled, o \in Nat : Gained(s, o)' => Gained(s, o)
CursorsGrow == \A d, s \in Nodes : cursor[d][s] <= cursor'[d][s]
NoneReached == \A s \in Journaled, o \in Nat : Gained(s, o)' /\ Reached(s, o)' => Reached(s, o)
CollectionsSteady ==
    /\ gc' \in [Nodes -> GcRecord]
    /\ \A n \in Nodes, s \in Journaled : Checked(n, s)' => Checked(n, s) /\ gc'[n].age = gc[n].age
    /\ \A n \in Nodes : gc'[n].phase # "idle" => gc'[n].age <= GcTicks
RequestsSteady ==
    \A p \in Paths : Open(p)' =>
        /\ Open(p) /\ request'[p].put = request[p].put
        /\ request'[p].source = request[p].source /\ request'[p].age = request[p].age
PutsOld == (\E v \in stored' : v.put) => \E v \in stored : v.put

LEMMA AgeNumbers ==
    LifeOK /\ gc \in [Nodes -> GcRecord] =>
        \A n \in Nodes : life[n].age \in Nat /\ gc[n].age \in Nat
  <1>1. \A n \in Nodes : LifeOK => life[n].age \in Nat BY GraceAssumption DEF LifeOK, CopyRecord
  <1> QED BY <1>1 DEF GcRecord

LEMMA AgeNumbersNext ==
    LifeOK' /\ gc' \in [Nodes -> GcRecord] =>
        \A n \in Nodes : life'[n].age \in Nat /\ gc'[n].age \in Nat
  <1>1. (LifeOK /\ gc \in [Nodes -> GcRecord] =>
          \A n \in Nodes : life[n].age \in Nat /\ gc[n].age \in Nat)'
    BY AgeNumbers, PTL
  <1> QED BY <1>1 DEF GcRecord

LEMMA FreshKept ==
    ASSUME DeliveryInv, DeliveryInv', LifeOK, LifeOK', gc \in [Nodes -> GcRecord],
           NoneOlder, NoneGained, CursorsGrow, CollectionsSteady, Fresh
    PROVE  Fresh'
  <1> SUFFICES ASSUME NEW s \in Journaled, NEW o \in Nat, NEW n \in Nodes,
                      Gained(s, o)', Checked(n, s)', cursor'[n][s] < o
               PROVE  \E u \in Nodes : life'[u].held /\ life'[u].age <= UploadTicks + gc'[n].age
    BY DEF Fresh
  <1>1. s \in Nodes BY JournaledNodes
  <1>2. cursor[n][s] \in Nat /\ cursor'[n][s] \in Nat BY <1>1 DEF DeliveryInv, Shaped
  <1>3. cursor[n][s] <= cursor'[n][s] BY <1>1 DEF CursorsGrow
  <1>4. Gained(s, o) /\ cursor[n][s] < o BY <1>2, <1>3 DEF NoneGained
  <1>5. Checked(n, s) /\ gc'[n].age = gc[n].age BY DEF CollectionsSteady
  <1>6. PICK u \in Nodes : life[u].held /\ life[u].age <= UploadTicks + gc[n].age
    BY <1>4, <1>5 DEF Fresh
  <1>7. life'[u].held /\ life'[u].age <= life[u].age BY <1>6 DEF NoneOlder
  <1>8. gc' \in [Nodes -> GcRecord] BY DEF CollectionsSteady
  <1>9. life[u].age \in Nat /\ gc[n].age \in Nat /\ life'[u].age \in Nat
    BY <1>8, AgeNumbers, AgeNumbersNext
  <1>10. life'[u].age <= UploadTicks + gc'[n].age
    BY <1>5, <1>6, <1>7, <1>9, GraceAssumption
  <1> QED BY <1>7, <1>10

LEMMA TakenKept ==
    ASSUME DeliveryInv, DeliveryInv', LifeOK, LifeOK', gc \in [Nodes -> GcRecord],
           NoneOlder, NoneGained, NoneReached, CursorsGrow, CollectionsSteady, Taken
    PROVE  Taken'
  <1> SUFFICES ASSUME NEW s \in Journaled, NEW o \in Nat, NEW d \in Owners,
                      Gained(s, o)', Reached(s, o)', cursor'[d][s] < o
               PROVE  life'[d].held /\ (Checked(d, s)' => life'[d].age <= gc'[d].age)
    BY DEF Taken
  <1>1. s \in Nodes /\ d \in Nodes BY JournaledNodes, PlacementAssumption
  <1>2. cursor[d][s] \in Nat /\ cursor'[d][s] \in Nat BY <1>1 DEF DeliveryInv, Shaped
  <1>3. cursor[d][s] <= cursor'[d][s] BY <1>1 DEF CursorsGrow
  <1>4. Gained(s, o) /\ cursor[d][s] < o /\ Reached(s, o) BY <1>2, <1>3 DEF NoneGained, NoneReached
  <1>5. life[d].held /\ (Checked(d, s) => life[d].age <= gc[d].age) BY <1>4 DEF Taken
  <1>6. life'[d].held /\ life'[d].age <= life[d].age BY <1>1, <1>5 DEF NoneOlder
  <1>7. Checked(d, s)' => Checked(d, s) /\ gc'[d].age = gc[d].age BY <1>1 DEF CollectionsSteady
  <1>8. gc' \in [Nodes -> GcRecord] BY DEF CollectionsSteady
  <1>9. life[d].age \in Nat /\ gc[d].age \in Nat /\ life'[d].age \in Nat
    BY <1>1, <1>8, AgeNumbers, AgeNumbersNext
  <1> QED BY <1>5, <1>6, <1>7, <1>9

LEMMA SourceKept ==
    ASSUME LifeOK, LifeOK', Typed, gc \in [Nodes -> GcRecord], gc' \in [Nodes -> GcRecord],
           NoneOlder, RequestsSteady, SourceHeld, YoungRequests
    PROVE  SourceHeld' /\ YoungRequests'
  <1>1. YoungRequests' BY DEF YoungRequests, RequestsSteady
  <1>2. ASSUME NEW p \in Paths, Open(p)', request'[p].put
        PROVE  /\ request'[p].source \in Nodes
               /\ life'[request'[p].source].held
               /\ life'[request'[p].source].age <= request'[p].age
    <2>1. /\ Open(p) /\ request[p].put
          /\ request'[p].source = request[p].source /\ request'[p].age = request[p].age
      BY <1>2 DEF RequestsSteady
    <2>2. PICK u \in Nodes : u = request[p].source /\ life[u].held /\ life[u].age <= request[p].age
      BY <2>1 DEF SourceHeld
    <2>3. life'[u].held /\ life'[u].age <= life[u].age BY <2>2 DEF NoneOlder
    <2>4. life[u].age \in Nat /\ life'[u].age \in Nat BY AgeNumbers, AgeNumbersNext
    <2>5. request[p].age \in Nat BY DEF Typed, RequestRecord
    <2>6. life'[u].age <= request[p].age BY <2>2, <2>3, <2>4, <2>5
    <2> QED BY <2>1, <2>2, <2>3, <2>6
  <1> QED BY <1>1, <1>2 DEF SourceHeld

LEMMA HeldKept ==
    ASSUME PublishedBytesKept, NoneOlder, PutsOld
    PROVE  PublishedBytesKept'
  BY DEF PublishedBytesKept, NoneOlder, PutsOld

LEMMA SteadyBytes ==
    ASSUME DeliveryInv, DeliveryInv', CountInv, CountInv', BytesInv,
           NoneOlder, NoneGained, NoneReached, CursorsGrow, CollectionsSteady, RequestsSteady, PutsOld
    PROVE  BytesInv'
  <1>1. LifeOK /\ LifeOK' /\ Typed /\ gc \in [Nodes -> GcRecord] /\ gc' \in [Nodes -> GcRecord]
    BY DEF CountInv, BytesInv, CollectionsSteady
  <1>2. Fresh' BY <1>1, FreshKept DEF BytesInv
  <1>3. Taken' BY <1>1, TakenKept DEF BytesInv
  <1>4. SourceHeld' /\ YoungRequests' BY <1>1, SourceKept DEF BytesInv
  <1>5. YoungCollections' BY DEF YoungCollections, CollectionsSteady
  <1>6. PublishedBytesKept' BY HeldKept DEF BytesInv
  <1> QED BY <1>1, <1>2, <1>3, <1>4, <1>5, <1>6 DEF BytesInv

LEMMA RefreshedNotOlder ==
    ASSUME LifeRefreshed
    PROVE  NoneOlder
  BY DEF LifeRefreshed, Refreshed, NoneOlder

(* A step that ends passes or keeps them, and moves cursors only over       *)
(* records without a delta.                                                 *)
PassesSteady ==
    \A s \in Nodes : pass'[s].phase = "apply" =>
        pass[s].phase = "apply" /\ pass'[s].through = pass[s].through

LEMMA QuietReach ==
    ASSUME DeliveryInv, DeliveryInv', NoneGained, QuietCursors, PassesSteady
    PROVE  NoneReached /\ CursorsGrow
  <1>1. CursorsGrow BY DEF QuietCursors, QuietAt, CursorsGrow
  <1>2. ASSUME NEW s \in Journaled, NEW o \in Nat, Gained(s, o)', Reached(s, o)'
        PROVE  Reached(s, o)
    <2>1. s \in Nodes BY JournaledNodes
    <2>2. At(s, o).delta > 0 BY <1>2 DEF NoneGained, Gained
    <2>3. ASSUME NEW n \in Nodes, o <= cursor'[n][s] PROVE o <= cursor[n][s]
      <3>1. cursor[n][s] \in Nat /\ cursor'[n][s] \in Nat BY <2>1 DEF DeliveryInv, Shaped
      <3>2. ~(cursor[n][s] < o /\ o <= cursor'[n][s])
        <4>1. At(s, o).delta # 0 BY <2>2
        <4> QED BY <2>1, <4>1 DEF QuietCursors, QuietAt
      <3> QED BY <2>3, <3>1, <3>2
    <2>4. CASE \E n \in Nodes : o <= cursor'[n][s] BY <2>3, <2>4 DEF Reached
    <2>5. CASE pass'[s].phase = "apply" /\ o <= pass'[s].through
      BY <2>1, <2>5 DEF Reached, PassesSteady
    <2> QED BY <1>2, <2>4, <2>5 DEF Reached
  <1> QED BY <1>1, <1>2 DEF NoneReached

LEMMA SameGained ==
    ASSUME SameRecords
    PROVE  NoneGained
  BY JournaledNodes DEF SameRecords, NoneGained, Gained

LEMMA CollectionsSame ==
    ASSUME gc \in [Nodes -> GcRecord], YoungCollections,
           gc' \in [Nodes -> GcRecord],
           \A n \in Nodes : gc'[n] = gc[n] \/ gc'[n] = IdleGc
    PROVE  CollectionsSteady
  <1>1. IdleGc.phase = "idle" BY DEF IdleGc
  <1>2. \A n \in Nodes, s \in Journaled : Checked(n, s)' => Checked(n, s) /\ gc'[n].age = gc[n].age
    BY <1>1 DEF Checked
  <1>3. \A n \in Nodes : gc'[n].phase # "idle" => gc'[n].age <= GcTicks
    BY <1>1 DEF YoungCollections
  <1> QED BY <1>2, <1>3 DEF CollectionsSteady

LEMMA QuietBytes ==
    ASSUME DeliveryInv, DeliveryInv', CountInv, CountInv', BytesInv,
           QuietStep, NoneOlder, PassesSteady, CollectionsSteady,
           \A p \in Paths : Open(p)' => request'[p].age = request[p].age
    PROVE  BytesInv'
  <1>1. NoneGained BY SameGained DEF QuietStep
  <1>2. NoneReached /\ CursorsGrow BY <1>1, QuietReach DEF QuietStep
  <1>3. RequestsSteady BY DEF QuietStep, RequestsKept, RequestsSteady
  <1>4. PutsOld BY DEF QuietStep, PutsOld
  <1> QED BY <1>1, <1>2, <1>3, <1>4, SteadyBytes

LEMMA CollectionsUnchanged ==
    ASSUME BytesInv, gc' = gc
    PROVE  CollectionsSteady
  BY CollectionsSame DEF BytesInv

LEMMA PassesUnchanged ==
    ASSUME pass' = pass
    PROVE  PassesSteady
  BY DEF PassesSteady

LEMMA PassEndsSteady ==
    ASSUME DeliveryInv, NEW s \in Nodes, pass' = [pass EXCEPT ![s] = IdlePass]
    PROVE  PassesSteady
  <1>1. pass \in [Nodes -> PassRecord] BY DEF DeliveryInv, Shaped
  <1>2. \A n \in Nodes : pass'[n] = IF n = s THEN IdlePass ELSE pass[n] BY <1>1
  <1>3. IdlePass.phase = "idle" BY DEF IdlePass
  <1> QED BY <1>2, <1>3 DEF PassesSteady

LEMMA AnswerSteady ==
    ASSUME DeliveryInv, NEW s \in Nodes, NEW d \in Nodes, NEW ok \in BOOLEAN, Answered(s, d, ok)
    PROVE  PassesSteady
  <1>1. pass \in [Nodes -> PassRecord] /\ pass[s] \in PassRecord BY DEF DeliveryInv, Shaped
  <1>2. PICK c : c = IF ok THEN cursor'[d][s] ELSE pass[s].seen[d] OBVIOUS
  <1>3. PICK f \in BOOLEAN :
          pass' = [pass EXCEPT ![s].todo = pass[s].todo \ {d}, ![s].seen[d] = c, ![s].failed = f]
    <2>1. (pass[s].failed \/ ~ok) \in BOOLEAN OBVIOUS
    <2>2. pass' = [pass EXCEPT ![s].todo = pass[s].todo \ {d}, ![s].seen[d] = c,
                               ![s].failed = pass[s].failed \/ ~ok]
      BY <1>2, Zenon DEF Answered
    <2> QED BY <2>1, <2>2, Zenon
  <1> DEFINE q == [pass[s] EXCEPT !.todo = pass[s].todo \ {d},
                                  !.seen = [pass[s].seen EXCEPT ![d] = c], !.failed = f]
  <1>4. pass' = [pass EXCEPT ![s] = q] BY <1>1, <1>3
  <1>5. q.phase = pass[s].phase /\ q.through = pass[s].through BY <1>1 DEF PassRecord
  <1> HIDE DEF q
  <1>6. \A n \in Nodes : pass'[n] = IF n = s THEN q ELSE pass[n] BY <1>1, <1>4
  <1> QED BY <1>5, <1>6 DEF PassesSteady

-----------------------------------------------------------------------------
LEMMA RequestQuietBytes ==
    ASSUME DeliveryInv, DeliveryInv', CountInv, CountInv', BytesInv, NEW p \in Paths,
           PreparePayload(p) \/ CommitRefused(p) \/ Abandon(p)
    PROVE  BytesInv'
  <1>1. QuietStep /\ LifeRefreshed BY PrepareQuiet, RefusedQuiet, AbandonQuiet
  <1>2. pass' = pass /\ gc' = gc /\ requests' = requests
    BY DEF PreparePayload, CommitRefused, Abandon
  <1>3. Open(p) /\ Typed BY DEF PreparePayload, CommitRefused, Abandon, Open, CountInv
  <1>4. \/ request' = [request EXCEPT ![p] = Idle]
        \/ \E x \in {"ready", "verified", "waiting"} : request' = [request EXCEPT ![p].phase = x]
    BY DEF PreparePayload, CommitRefused, Abandon
  <1>5. \A q \in Paths : Open(q)' => request'[q].age = request[q].age
    BY <1>2, <1>3, <1>4, RequestEnds, RequestMoves
  <1>6. NoneOlder /\ PassesSteady /\ CollectionsSteady
    BY <1>1, <1>2, RefreshedNotOlder, PassesUnchanged, CollectionsUnchanged
  <1> QED BY <1>1, <1>5, <1>6, QuietBytes

(* A step that leaves copies, requests, versions and collections alone.     *)
LEMMA DeliveryQuietBytes ==
    ASSUME DeliveryInv, DeliveryInv', CountInv, CountInv', BytesInv,
           QuietStep, life' = life, PassesSteady, gc' = gc, request' = request
    PROVE  BytesInv'
  <1>1. LifeRefreshed BY LifeUnchanged DEF CountInv
  <1>2. NoneOlder /\ CollectionsSteady BY <1>1, RefreshedNotOlder, CollectionsUnchanged
  <1> QED BY <1>2, QuietBytes

LEMMA ReadBytes ==
    ASSUME DeliveryInv, DeliveryInv', CountInv, CountInv', BytesInv, NEW s \in Nodes, ReadCursors(s)
    PROVE  BytesInv'
  <1>1. QuietStep BY ReadQuiet
  <1>2. life' = life /\ gc' = gc /\ request' = request BY DEF ReadCursors
  <1>3. PICK k : pass' = [pass EXCEPT ![s] = [IdlePass EXCEPT
                !.phase = "read", !.seen = [d \in Nodes |-> cursor[d][s]], !.failed = k < TailOf(s)]]
    BY DEF ReadCursors
  <1>4. PICK x : x = [IdlePass EXCEPT
                !.phase = "read", !.seen = [d \in Nodes |-> cursor[d][s]], !.failed = k < TailOf(s)]
    OBVIOUS
  <1>5. x.phase = "read" BY <1>4 DEF IdlePass
  <1>6. pass \in [Nodes -> PassRecord] BY DEF DeliveryInv, Shaped
  <1>7. \A n \in Nodes : pass'[n] = IF n = s THEN x ELSE pass[n] BY <1>3, <1>4, <1>6
  <1>8. PassesSteady BY <1>5, <1>7 DEF PassesSteady
  <1> QED BY <1>1, <1>2, <1>8, DeliveryQuietBytes

LEMMA PassQuietBytes ==
    ASSUME DeliveryInv, DeliveryInv', CountInv, CountInv', BytesInv, NEW s \in Nodes, NEW d \in Nodes,
           CursorsUnread(s) \/ ReplayBatch(s, d) \/ BatchFails(s, d)
    PROVE  BytesInv'
  <1>1. /\ journal' = journal /\ cursor' = cursor /\ stored' = stored /\ head' = head
        /\ request' = request /\ requests' = requests /\ life' = life /\ gc' = gc
    BY DEF CursorsUnread, ReplayBatch, BatchFails
  <1>2. QuietStep BY <1>1, ElsewhereQuiet
  <1>3. PassesSteady
    <2>1. CASE CursorsUnread(s) BY <2>1, PassEndsSteady DEF CursorsUnread, EndPass
    <2>2. CASE ReplayBatch(s, d) BY <2>2, AnswerSteady DEF ReplayBatch
    <2>3. CASE BatchFails(s, d) BY <2>3, AnswerSteady DEF BatchFails
    <2> QED BY <2>1, <2>2, <2>3
  <1> QED BY <1>1, <1>2, <1>3, DeliveryQuietBytes

LEMMA SettleBytes ==
    ASSUME DeliveryInv, DeliveryInv', CountInv, CountInv', BytesInv, NEW s \in Nodes, SettlePosition(s)
    PROVE  BytesInv'
  <1>1. QuietStep BY SettleQuiet
  <1>2. life' = life /\ gc' = gc /\ request' = request /\ pass' = pass BY DEF SettlePosition
  <1> QED BY <1>1, <1>2, PassesUnchanged, DeliveryQuietBytes

LEMMA ApplyBytes ==
    ASSUME DeliveryInv, DeliveryInv', CountInv, CountInv', BytesInv,
           NEW s \in Journaled, NEW d \in Nodes, NEW ok \in BOOLEAN, ApplyBatch(s, d, ok)
    PROVE  BytesInv'
  <1>1. s \in Nodes BY JournaledNodes
  <1>2. /\ stored' = stored /\ request' = request /\ gc' = gc /\ pass[s].phase = "apply"
        /\ Answered(s, d, ok)
    BY DEF ApplyBatch
  <1>3. /\ SameRecords
        /\ \A e \in Nodes \ {d} : cursor'[e] = cursor[e]
        /\ cursor'[d][s] = pass[s].through /\ cursor[d][s] <= pass[s].through
        /\ \A t \in Nodes \ {s} :
             /\ cursor[d][t] <= cursor'[d][t]
             /\ \A o \in Nat : cursor[d][t] < o /\ o <= cursor'[d][t] => At(t, o).delta = 0
    BY <1>1, ApplyCursors
  <1>4. NoneGained BY <1>3, SameGained
  <1>5. \A e, t \in Nodes : cursor[e][t] \in Nat /\ cursor'[e][t] \in Nat BY DEF DeliveryInv, Shaped
  <1>6. CursorsGrow
    <2> SUFFICES ASSUME NEW e \in Nodes, NEW t \in Nodes PROVE cursor[e][t] <= cursor'[e][t]
      BY DEF CursorsGrow
    <2>1. CASE e # d
      <3>1. cursor'[e][t] = cursor[e][t] BY <1>3, <2>1
      <3> QED BY <1>5, <3>1
    <2>2. CASE e = d /\ t = s BY <1>3, <2>2
    <2>3. CASE e = d /\ t # s BY <1>3, <2>3
    <2> QED BY <2>1, <2>2, <2>3
  <1>7. PassesSteady BY <1>1, <1>2, AnswerSteady
  <1>8. NoneReached
    <2> SUFFICES ASSUME NEW t \in Journaled, NEW o \in Nat, Gained(t, o)', Reached(t, o)'
                 PROVE  Reached(t, o)
      BY DEF NoneReached
    <2>1. t \in Nodes BY JournaledNodes
    <2>2. At(t, o).delta > 0 BY <1>4 DEF NoneGained, Gained
    <2>3. ASSUME NEW e \in Nodes, o <= cursor'[e][t] PROVE Reached(t, o)
      <3>1. CASE e # d
        <4>1. o <= cursor[e][t] BY <1>3, <2>3, <3>1
        <4> QED BY <4>1 DEF Reached
      <3>2. CASE e = d /\ t = s
        <4>1. o <= pass[t].through /\ pass[t].phase = "apply" BY <1>2, <1>3, <2>3, <3>2
        <4> QED BY <4>1 DEF Reached
      <3>3. CASE e = d /\ t # s
        <4>1. At(t, o).delta # 0 BY <2>2
        <4>2. ~(cursor[d][t] < o /\ o <= cursor'[d][t]) BY <1>3, <2>1, <3>3, <4>1
        <4>3. o <= cursor[d][t] BY <1>5, <2>1, <2>3, <3>3, <4>2
        <4> QED BY <4>3 DEF Reached
      <3> QED BY <3>1, <3>2, <3>3
    <2>4. CASE pass'[t].phase = "apply" /\ o <= pass'[t].through
      BY <1>7, <2>1, <2>4 DEF Reached, PassesSteady
    <2> QED BY <2>3, <2>4 DEF Reached
  <1>9. NoneOlder
    <2>1. /\ \A n \in Nodes \ {d} : life'[n] = life[n]
          /\ life[d].held => life'[d].held /\ life'[d].age <= life[d].age
      BY <1>1, ApplyLife DEF CountInv
    <2>2. \A n \in Nodes : life[n].age \in Nat BY AgeNumbers DEF CountInv, BytesInv
    <2>3. \A n \in Nodes : life[n].age <= life[n].age BY <2>2
    <2> QED BY <2>1, <2>3 DEF NoneOlder
  <1>10. RequestsSteady BY <1>2 DEF RequestsSteady, Open
  <1>11. PutsOld BY <1>2 DEF PutsOld
  <1>12. CollectionsSteady BY <1>2, CollectionsUnchanged
  <1> QED BY <1>4, <1>6, <1>8, <1>9, <1>10, <1>11, <1>12, SteadyBytes

LEMMA RetentionBytes ==
    ASSUME DeliveryInv, DeliveryInv', CountInv, CountInv', BytesInv, NEW n \in Journaled,
           NEW j, NEW force \in BOOLEAN, RetentionPass(n, j, force), gc' = gc, PassesSteady, RequestsSteady
    PROVE  BytesInv'
  <1>1. n \in Nodes /\ Typed /\ IdsOK /\ Shaped BY JournaledNodes DEF CountInv, DeliveryInv
  <1>2. PICK S : j \in JournalRecord(S) BY DEF RetentionPass
  <1>3. /\ j.floor = journal[n].floor /\ j.log = journal[n].log
        /\ journal' = [journal EXCEPT ![n] = Pruned(j, force)]
        /\ stored' = RetainedVersions(j, force) /\ cursor' = cursor /\ life' = life
        /\ \A d \in Nodes : j.referenceSafe <= cursor[d][n]
    BY DEF RetentionPass
  <1>4. PICK c, r : PrunedRecords(n, c, r) BY <1>1, <1>2, <1>3, PassRecords
  <1>5. NoneGained
    <2>1. r \in Seq({Lifecycle(-1), Lifecycle(0)}) /\ Len(r) \in Nat BY <1>4 DEF PrunedRecords
    <2>2. \A i \in 1..Len(r) : r[i] \in {Lifecycle(-1), Lifecycle(0)} BY <2>1
    <2>3. Lifecycle(-1).delta = -1 /\ Lifecycle(0).delta = 0 BY DEF Lifecycle, Record
    <2>4. TailOf(n) \in Nat BY <1>1, TailNumber
    <2> SUFFICES ASSUME NEW s \in Journaled, NEW o \in Nat, At(s, o)'.delta > 0
                 PROVE  At(s, o)' = At(s, o)
      BY DEF NoneGained, Gained
    <2>5. s \in Nodes BY JournaledNodes
    <2>6. CASE s # n BY <1>4, <2>5, <2>6 DEF PrunedRecords
    <2>7. CASE s = n
      <3>1. At(n, o)' = IF o \in (TailOf(n) + 1)..(TailOf(n) + Len(r)) THEN r[o - TailOf(n)]
                        ELSE IF o <= journal[n].floor + c THEN Lifecycle(0) ELSE At(n, o)
        BY <1>4 DEF PrunedRecords
      <3>2. CASE o \in (TailOf(n) + 1)..(TailOf(n) + Len(r))
        <4>1. o - TailOf(n) \in 1..Len(r) BY <2>1, <2>4, <3>2
        <4>2. At(n, o)' \in {Lifecycle(-1), Lifecycle(0)} BY <2>2, <3>1, <3>2, <4>1
        <4> QED BY <2>3, <2>7, <4>2
      <3>3. CASE o \notin (TailOf(n) + 1)..(TailOf(n) + Len(r)) BY <2>3, <2>7, <3>1, <3>3
      <3> QED BY <3>2, <3>3
    <2> QED BY <2>6, <2>7
  <1>6. QuietCursors BY <1>3, QuietWhenKept
  <1>7. NoneReached /\ CursorsGrow BY <1>5, <1>6, QuietReach
  <1>8. LifeRefreshed BY <1>3, LifeUnchanged DEF CountInv
  <1>9. NoneOlder /\ CollectionsSteady BY <1>8, RefreshedNotOlder, CollectionsUnchanged
  <1>10. PutsOld
    <2>1. PICK K : K = RetainedVersions(j, force) OBVIOUS
    <2>2. stored \subseteq VersionRecord /\ IsFiniteSet(stored) /\ \A v, w \in stored : v.id = w.id => v = w
      BY <1>1 DEF Typed, IdsOK
    <2>3. \A v \in K : \E w \in stored \ Retired(j, force) :
                v.id = w.id /\ v.path = w.path /\ v.put = w.put
      BY <2>1, <2>2, RetainedCounted
    <2> QED BY <1>3, <2>1, <2>3 DEF PutsOld
  <1> QED BY <1>5, <1>7, <1>9, <1>10, SteadyBytes

(* A request that starts: its upload's copy was sealed in the same step.    *)
LEMMA StartBytes ==
    ASSUME DeliveryInv, DeliveryInv', CountInv, CountInv', BytesInv,
           SameRecords, QuietCursors, NoneOlder, pass' = pass, gc' = gc, stored' = stored,
           NEW p \in Paths, NEW q, request' = [request EXCEPT ![p] = q], q.age = 0,
           q.put => q.source \in Nodes /\ life'[q.source].held /\ life'[q.source].age = 0
    PROVE  BytesInv'
  <1>1. NoneGained BY SameGained
  <1>2. NoneReached /\ CursorsGrow BY <1>1, PassesUnchanged, QuietReach
  <1>3. CollectionsSteady BY CollectionsUnchanged
  <1>4. LifeOK /\ LifeOK' /\ Typed /\ gc \in [Nodes -> GcRecord] /\ gc' \in [Nodes -> GcRecord]
    BY DEF CountInv, BytesInv
  <1>5. Fresh' BY <1>1, <1>2, <1>3, <1>4, FreshKept DEF BytesInv
  <1>6. Taken' BY <1>1, <1>2, <1>3, <1>4, TakenKept DEF BytesInv
  <1>7. \A x \in Paths : request'[x] = IF x = p THEN q ELSE request[x] BY <1>4 DEF Typed
  <1>8. UploadTicks \in Nat BY GraceAssumption
  <1>9. YoungRequests'
    <2> SUFFICES ASSUME NEW x \in Paths, Open(x)' PROVE request'[x].age <= UploadTicks
      BY DEF YoungRequests
    <2>1. CASE x = p BY <1>7, <1>8, <2>1
    <2>2. CASE x # p
      <3>1. request'[x] = request[x] /\ Open(x) BY <1>7, <2>2 DEF Open
      <3> QED BY <3>1 DEF BytesInv, YoungRequests
    <2> QED BY <2>1, <2>2
  <1>10. SourceHeld'
    <2> SUFFICES ASSUME NEW x \in Paths, Open(x)', request'[x].put
                 PROVE  /\ request'[x].source \in Nodes
                        /\ life'[request'[x].source].held
                        /\ life'[request'[x].source].age <= request'[x].age
      BY DEF SourceHeld
    <2>1. CASE x = p BY <1>7, <2>1
    <2>2. CASE x # p
      <3>1. request'[x] = request[x] /\ Open(x) /\ request[x].put BY <1>7, <2>2 DEF Open
      <3>2. PICK u \in Nodes : u = request[x].source /\ life[u].held /\ life[u].age <= request[x].age
        BY <3>1 DEF BytesInv, SourceHeld
      <3>3. life'[u].held /\ life'[u].age <= life[u].age BY <3>2 DEF NoneOlder
      <3>4. life[u].age \in Nat /\ life'[u].age \in Nat BY <1>4, AgeNumbers, AgeNumbersNext
      <3>5. request[x].age \in Nat BY <1>4 DEF Typed, RequestRecord
      <3>6. life'[u].age <= request[x].age BY <3>2, <3>3, <3>4, <3>5
      <3> QED BY <3>1, <3>2, <3>3, <3>6
    <2> QED BY <2>1, <2>2
  <1>11. YoungCollections' BY DEF YoungCollections, BytesInv
  <1>12. PublishedBytesKept' BY HeldKept DEF BytesInv, PutsOld
  <1> QED BY <1>4, <1>5, <1>6, <1>9, <1>10, <1>11, <1>12 DEF BytesInv

LEMMA UploadBytes ==
    ASSUME DeliveryInv, DeliveryInv', CountInv, CountInv', BytesInv,
           NEW p \in Paths, NEW u \in Nodes, Upload(p, u)
    PROVE  BytesInv'
  <1>1. /\ life' = [life EXCEPT ![u] = Sealed(life[u])]
        /\ journal' = [journal EXCEPT ![u] = AppendInert(u)]
        /\ cursor' = [cursor EXCEPT ![u][u] = SelfCursor(u)]
        /\ stored' = stored /\ pass' = pass /\ gc' = gc
        /\ request' = [request EXCEPT ![p] =
                         [phase |-> "ready", put |-> TRUE, source |-> u, id |-> requests', age |-> 0]]
    BY DEF Upload
  <1>2. SameRecords /\ QuietCursors BY <1>1, SameWhenInert, QuietWhenInert
  <1>3. LifeRefreshed /\ life'[u].held /\ life'[u].age = 0 BY <1>1, LifeSealed DEF CountInv
  <1>4. NoneOlder BY <1>3, RefreshedNotOlder
  <1>5. PICK q : q = [phase |-> "ready", put |-> TRUE, source |-> u, id |-> requests', age |-> 0]
    OBVIOUS
  <1>6. q.age = 0 /\ q.source = u BY <1>5
  <1> QED BY <1>1, <1>2, <1>3, <1>4, <1>5, <1>6, StartBytes

LEMMA StartDeleteBytes ==
    ASSUME DeliveryInv, DeliveryInv', CountInv, CountInv', BytesInv, NEW p \in Paths, StartDelete(p)
    PROVE  BytesInv'
  <1>1. /\ life' = life /\ journal' = journal /\ cursor' = cursor
        /\ stored' = stored /\ pass' = pass /\ gc' = gc
        /\ request' = [request EXCEPT ![p] = [Idle EXCEPT !.phase = "verified", !.id = requests']]
    BY DEF StartDelete
  <1>2. SameRecords /\ QuietCursors BY <1>1, SameWhenKept, QuietWhenKept
  <1>3. LifeRefreshed BY <1>1, LifeUnchanged DEF CountInv
  <1>4. NoneOlder BY <1>3, RefreshedNotOlder
  <1>5. PICK q : q = [Idle EXCEPT !.phase = "verified", !.id = requests'] OBVIOUS
  <1>6. q.age = 0 /\ q.put = FALSE BY <1>5 DEF Idle
  <1> QED BY <1>1, <1>2, <1>4, <1>5, <1>6, StartBytes

-----------------------------------------------------------------------------
(* A commit: the one step that creates a reference. *)

LEMMA CommitBytes ==
    ASSUME DeliveryInv, DeliveryInv', CountInv, CountInv', BytesInv, NEW p \in Paths, CommitMutation(p)
    PROVE  BytesInv'
  <1>1. PICK c \in Journaled : c = Coordinator[p] BY DEF Journaled
  <1>2. PICK e : e = Record(request[p].id, p, HeadDelta(p, request[p].put)) OBVIOUS
  <1>3. /\ request[p].phase = "verified"
        /\ stored' = (stored \ ReleasedPredecessor(p))
              \cup {[path |-> p, id |-> request[p].id, put |-> request[p].put, retention |-> "pending"]}
        /\ journal' = [journal EXCEPT ![c] = AppendDeferred(journal[c], e)]
        /\ request' = [request EXCEPT ![p] = Idle]
        /\ life' \in {life, Placed(life)}
        /\ cursor' = cursor /\ requests' = requests /\ pass' = pass /\ gc' = gc
    BY <1>1, <1>2 DEF CommitMutation
  <1>4. c \in Nodes /\ Open(p) BY <1>3, JournaledNodes DEF Open
  <1>5. LifeOK /\ LifeOK' /\ Typed /\ IdsOK /\ gc \in [Nodes -> GcRecord] /\ gc' \in [Nodes -> GcRecord]
    BY <1>3 DEF CountInv, BytesInv
  <1>6. NoneOlder BY <1>3, <1>5, LifePlaced, RefreshedNotOlder
  <1>7. PICK t \in Nat : t = TailOf(c) + 1 BY <1>4, TailNumber DEF DeliveryInv
  <1>8. \A s \in Nodes, o \in Nat : At(s, o)' = IF s = c /\ o = t THEN e ELSE At(s, o)
    BY <1>3, <1>4, <1>7, DeferredRecords
  <1>9. ASSUME e.delta > 0
        PROVE  \E u \in Nodes : life'[u].held /\ life'[u].age <= UploadTicks
    <2>1. PICK k \in 0..1 : HeadDelta(p, request[p].put) = (IF request[p].put THEN 1 ELSE 0) - k
      BY <1>3, <1>4, <1>5, CommitVersions
    <2>2. e.delta = HeadDelta(p, request[p].put) BY <1>2 DEF Record
    <2>3. request[p].put BY <1>9, <2>1, <2>2
    <2>4. PICK u \in Nodes : u = request[p].source /\ life[u].held /\ life[u].age <= request[p].age
      BY <1>4, <2>3 DEF BytesInv, SourceHeld
    <2>5. life'[u].held /\ life'[u].age <= life[u].age BY <2>4, <1>6 DEF NoneOlder
    <2>6. life[u].age \in Nat /\ life'[u].age \in Nat BY <1>5, AgeNumbers, AgeNumbersNext
    <2>7. request[p].age \in Nat /\ request[p].age <= UploadTicks
      BY <1>4, <1>5 DEF Typed, RequestRecord, BytesInv, YoungRequests
    <2>8. life'[u].age <= UploadTicks BY <2>4, <2>5, <2>6, <2>7, GraceAssumption
    <2> QED BY <2>5, <2>8
  <1>10. RequestsSteady BY <1>3, <1>5, RequestEnds DEF RequestsSteady, RequestsKept
  <1>11. SourceHeld' /\ YoungRequests' BY <1>5, <1>6, <1>10, SourceKept DEF BytesInv
  <1>12. YoungCollections' BY <1>3 DEF YoungCollections, BytesInv
  <1>13. \A n \in Nodes, s \in Journaled : Checked(n, s)' <=> Checked(n, s) BY <1>3 DEF Checked
  <1>14. CollectionsSteady BY <1>3, CollectionsUnchanged
  <1>15. ASSUME NEW s \in Journaled, NEW o \in Nat, Gained(s, o)', ~(s = c /\ o = t)
         PROVE  Gained(s, o)
    BY <1>8, <1>15, JournaledNodes DEF Gained
  <1>16. Fresh'
    <2> SUFFICES ASSUME NEW s \in Journaled, NEW o \in Nat, NEW n \in Nodes,
                        Gained(s, o)', Checked(n, s)', cursor'[n][s] < o
                 PROVE  \E u \in Nodes : life'[u].held /\ life'[u].age <= UploadTicks + gc'[n].age
      BY DEF Fresh
    <2>1. gc'[n].age \in Nat /\ gc'[n].age = gc[n].age /\ UploadTicks \in Nat
      BY <1>3, <1>5, AgeNumbersNext, GraceAssumption
    <2>2. CASE s = c /\ o = t
      <3>1. At(s, o)' = e BY <1>4, <1>8, <2>2
      <3>2. e.delta > 0 BY <3>1 DEF Gained
      <3>3. PICK u \in Nodes : life'[u].held /\ life'[u].age <= UploadTicks BY <1>9, <3>2
      <3>4. life'[u].age \in Nat BY <1>5, AgeNumbersNext
      <3>5. life'[u].age <= UploadTicks + gc'[n].age BY <2>1, <3>3, <3>4
      <3> QED BY <3>3, <3>5
    <2>3. CASE ~(s = c /\ o = t)
      <3>1. Gained(s, o) BY <1>15, <2>3
      <3>2. cursor[n][s] < o /\ Checked(n, s) BY <1>3, <1>13
      <3>3. PICK u \in Nodes : life[u].held /\ life[u].age <= UploadTicks + gc[n].age
        BY <3>1, <3>2 DEF BytesInv, Fresh
      <3>4. life'[u].held /\ life'[u].age <= life[u].age BY <1>6, <3>3 DEF NoneOlder
      <3>5. life[u].age \in Nat /\ life'[u].age \in Nat BY <1>5, AgeNumbers, AgeNumbersNext
      <3>6. life'[u].age <= UploadTicks + gc'[n].age BY <2>1, <3>3, <3>4, <3>5
      <3> QED BY <3>4, <3>6
    <2> QED BY <2>2, <2>3
  <1>17. Taken'
    <2> SUFFICES ASSUME NEW s \in Journaled, NEW o \in Nat, NEW d \in Owners,
                        Gained(s, o)', Reached(s, o)', cursor'[d][s] < o
                 PROVE  life'[d].held /\ (Checked(d, s)' => life'[d].age <= gc'[d].age)
      BY DEF Taken
    <2>1. d \in Nodes /\ s \in Nodes BY PlacementAssumption, JournaledNodes
    <2>2. Reached(s, o) BY <1>3 DEF Reached
    <2>3. ~(s = c /\ o = t)
      <3> SUFFICES ASSUME s = c, o = t PROVE FALSE OBVIOUS
      <3>1. TailOf(c) \in Nat BY <1>4, TailNumber DEF DeliveryInv
      <3>2. \A n \in Nodes : cursor[n][c] \in Nat /\ cursor[n][c] <= TailOf(c)
        BY <1>4 DEF DeliveryInv, Shaped, CutsOK
      <3>3. pass[c].through \in Nat /\ pass[c].through <= TailOf(c)
        <4>1. pass[c] \in PassRecord BY <1>4 DEF DeliveryInv, Shaped
        <4> QED BY <1>4, <4>1 DEF DeliveryInv, PassOK, PassRecord
      <3> QED BY <1>7, <2>2, <3>1, <3>2, <3>3 DEF Reached
    <2>4. Gained(s, o) /\ cursor[d][s] < o BY <1>3, <1>15, <2>3
    <2>5. life[d].held /\ (Checked(d, s) => life[d].age <= gc[d].age)
      BY <2>2, <2>4 DEF BytesInv, Taken
    <2>6. life'[d].held /\ life'[d].age <= life[d].age BY <1>6, <2>1, <2>5 DEF NoneOlder
    <2>7. life[d].age \in Nat /\ life'[d].age \in Nat /\ gc[d].age \in Nat
      BY <1>5, <2>1, AgeNumbers, AgeNumbersNext
    <2> QED BY <1>3, <1>13, <2>1, <2>5, <2>6, <2>7
  <1>18. PublishedBytesKept'
    <2> SUFFICES ASSUME NEW v \in stored', v.put PROVE \E n \in Nodes : life'[n].held
      BY DEF PublishedBytesKept
    <2>1. CASE v \in stored BY <1>6, <2>1 DEF BytesInv, PublishedBytesKept, NoneOlder
    <2>2. CASE v \notin stored
      <3>a. PICK w : w = [path |-> p, id |-> request[p].id, put |-> request[p].put, retention |-> "pending"]
        OBVIOUS
      <3>b. w.put = request[p].put BY <3>a
      <3>c. v = w BY <1>3, <2>2, <3>a
      <3>1. request[p].put BY <3>b, <3>c
      <3>2. PICK u \in Nodes : life[u].held BY <1>4, <3>1 DEF BytesInv, SourceHeld
      <3> QED BY <1>6, <3>2 DEF NoneOlder
    <2> QED BY <2>1, <2>2
  <1> QED BY <1>5, <1>11, <1>12, <1>16, <1>17, <1>18 DEF BytesInv

-----------------------------------------------------------------------------
(* A page: its positive records are prepared on every owner. *)

LEMMA PageBytes ==
    ASSUME DeliveryInv, DeliveryInv', CountInv, CountInv', BytesInv, NEW s \in Nodes,
           NEW through \in Slowest(s)..TailOf(s), TakePage(s, through)
    PROVE  BytesInv'
  <1>1. /\ journal' = journal /\ cursor' = cursor /\ stored' = stored /\ request' = request /\ gc' = gc
        /\ life' = IF Positive(s, Slowest(s), through) THEN PreparedCopies(s) ELSE life
    BY DEF TakePage
  <1>2. QuietStep /\ LifeRefreshed BY PageQuiet
  <1>3. NoneOlder /\ CollectionsSteady BY <1>1, <1>2, RefreshedNotOlder, CollectionsUnchanged
  <1>4. CASE PassesSteady BY <1>1, <1>2, <1>3, <1>4, QuietBytes
  <1>5. CASE ~PassesSteady
    <2>1. LifeOK /\ LifeOK' /\ Typed /\ gc \in [Nodes -> GcRecord] /\ gc' \in [Nodes -> GcRecord]
      BY <1>1 DEF CountInv, BytesInv
    <2>2. NoneGained BY <1>2, SameGained DEF QuietStep
    <2>3. CursorsGrow
      <3>1. \A d, n \in Nodes : cursor[d][n] \in Nat BY DEF DeliveryInv, Shaped
      <3> QED BY <1>1, <3>1 DEF CursorsGrow
    <2>4. Fresh' BY <1>3, <2>1, <2>2, <2>3, FreshKept DEF BytesInv
    <2>5. RequestsSteady BY <1>1 DEF RequestsSteady, Open
    <2>6. SourceHeld' /\ YoungRequests' BY <1>3, <2>1, <2>5, SourceKept DEF BytesInv
    <2>7. YoungCollections' BY <1>1 DEF YoungCollections, BytesInv
    <2>8. PublishedBytesKept' BY <1>1, <1>3, HeldKept DEF BytesInv, PutsOld
    <2>9. PICK x : /\ x.through = through
                   /\ \A n \in Nodes : pass'[n] = IF n = s THEN x ELSE pass[n]
      <3>1. pass \in [Nodes -> PassRecord] /\ pass[s] \in PassRecord BY DEF DeliveryInv, Shaped
      <3>2. CASE EndPass(s, FALSE) BY <1>5, <3>2, PassEndsSteady DEF EndPass
      <3>3. CASE ~EndPass(s, FALSE)
        <4>1. PICK f \in BOOLEAN, T \in SUBSET Nodes :
                pass' = [pass EXCEPT ![s].phase = "apply", ![s].through = through,
                                     ![s].todo = T, ![s].failed = f]
          <5>1. (pass[s].failed \/ through < TailOf(s)) \in BOOLEAN OBVIOUS
          <5>2. pass' = [pass EXCEPT ![s].phase = "apply", ![s].through = through,
                        ![s].todo = {d \in Nodes : pass[s].seen[d] < through},
                        ![s].failed = pass[s].failed \/ through < TailOf(s)]
            BY <3>3, Zenon DEF TakePage
          <5> QED BY <5>1, <5>2, Zenon
        <4> DEFINE q == [pass[s] EXCEPT !.phase = "apply", !.through = through, !.todo = T, !.failed = f]
        <4>2. pass' = [pass EXCEPT ![s] = q] BY <3>1, <4>1
        <4>3. q.through = through BY <3>1 DEF PassRecord
        <4> HIDE DEF q
        <4>4. \A n \in Nodes : pass'[n] = IF n = s THEN q ELSE pass[n] BY <3>1, <4>2
        <4> QED BY <4>3, <4>4
      <3> QED BY <3>2, <3>3
    <2>10. Taken'
      <3> SUFFICES ASSUME NEW t \in Journaled, NEW o \in Nat, NEW d \in Owners,
                          Gained(t, o)', Reached(t, o)', cursor'[d][t] < o
                   PROVE  life'[d].held /\ (Checked(d, t)' => life'[d].age <= gc'[d].age)
        BY DEF Taken
      <3>1. t \in Nodes /\ d \in Nodes BY JournaledNodes, PlacementAssumption
      <3>2. Gained(t, o) /\ cursor[d][t] < o BY <1>1, <2>2 DEF NoneGained
      <3>3. gc[d].age \in Nat /\ gc'[d].age \in Nat /\ life[d].age \in Nat /\ life'[d].age \in Nat
        BY <2>1, <3>1, AgeNumbers, AgeNumbersNext
      <3>4. CASE Positive(s, Slowest(s), through)
        <4>1. life' = PreparedCopies(s) BY <1>1, <3>4
        <4>2. life'[d].held /\ life'[d].age = 0 BY <2>1, <4>1, LifePrepared
        <4> QED BY <3>3, <4>2
      <3>5. CASE Reached(t, o)
        <4>1. life[d].held /\ (Checked(d, t) => life[d].age <= gc[d].age)
          BY <3>2, <3>5 DEF BytesInv, Taken
        <4>2. life'[d].held /\ life'[d].age <= life[d].age BY <1>3, <3>1, <4>1 DEF NoneOlder
        <4>3. gc'[d] = gc[d] /\ (Checked(d, t)' => Checked(d, t)) BY <1>1 DEF Checked
        <4> QED BY <3>3, <4>1, <4>2, <4>3
      <3>6. CASE ~Positive(s, Slowest(s), through) /\ ~Reached(t, o)
        <4>1. ~(\E n \in Nodes : o <= cursor'[n][t]) BY <1>1, <3>6 DEF Reached
        <4>2. pass'[t].phase = "apply" /\ o <= pass'[t].through BY <4>1 DEF Reached
        <4>3. t = s /\ o <= through BY <2>9, <3>1, <3>6, <4>2 DEF Reached
        <4>4. Slowest(s) \in Nat /\ Slowest(s) <= pass[s].seen[d] BY <3>1, SlowestSeen
        <4>5. pass[s].seen[d] <= cursor[d][s] BY <3>1 DEF DeliveryInv, PassOK
        <4>6. pass[s].seen[d] \in Nat /\ cursor[d][s] \in Nat
          <5>1. pass[s] \in PassRecord BY DEF DeliveryInv, Shaped
          <5> QED BY <3>1, <5>1 DEF DeliveryInv, Shaped, PassRecord
        <4>7. Slowest(s) < o BY <3>2, <4>3, <4>4, <4>5, <4>6
        <4>8. through \in Int
          <5>1. TailOf(s) \in Nat BY TailNumber DEF DeliveryInv
          <5> QED BY <4>4, <5>1
        <4>9. o \in (Slowest(s) + 1)..through BY <4>3, <4>4, <4>7, <4>8
        <4>10. At(s, o).delta > 0 BY <3>2, <4>3 DEF Gained
        <4> QED BY <3>6, <4>9, <4>10 DEF Positive
      <3> QED BY <3>4, <3>5, <3>6
    <2> QED BY <2>1, <2>4, <2>6, <2>7, <2>8, <2>10 DEF BytesInv
  <1> QED BY <1>4, <1>5

-----------------------------------------------------------------------------
(* A collection. *)

LEMMA CollectionOnlyBytes ==
    ASSUME DeliveryInv, DeliveryInv', CountInv, CountInv', BytesInv, CollectionsSteady,
           journal' = journal, cursor' = cursor, life' = life, stored' = stored, head' = head,
           request' = request, requests' = requests, pass' = pass
    PROVE  BytesInv'
  <1>1. QuietStep BY ElsewhereQuiet
  <1>2. NoneOlder BY LifeUnchanged, RefreshedNotOlder DEF CountInv
  <1> QED BY <1>1, <1>2, PassesUnchanged, QuietBytes

LEMMA StartCollectionBytes ==
    ASSUME DeliveryInv, DeliveryInv', CountInv, CountInv', BytesInv, NEW n \in Nodes, StartCollection(n)
    PROVE  BytesInv'
  <1>1. gc \in [Nodes -> GcRecord] /\ YoungCollections BY DEF BytesInv
  <1>2. PICK k : k = [phase |-> "checking", left |-> Journaled, age |-> 0] OBVIOUS
  <1>3. k \in GcRecord /\ k.phase = "checking" /\ k.left = Journaled /\ k.age = 0
    BY <1>2, JournaledNodes DEF GcRecord
  <1>4. gc' = [gc EXCEPT ![n] = k] BY <1>2 DEF StartCollection
  <1>5. gc' \in [Nodes -> GcRecord] /\ \A m \in Nodes : gc'[m] = IF m = n THEN k ELSE gc[m]
    BY <1>1, <1>3, <1>4
  <1>6. \A m \in Nodes, s \in Journaled : Checked(m, s)' => Checked(m, s) /\ gc'[m].age = gc[m].age
    BY <1>3, <1>5 DEF Checked
  <1>7. \A m \in Nodes : gc'[m].phase # "idle" => gc'[m].age <= GcTicks
    BY <1>1, <1>3, <1>5, GraceAssumption DEF YoungCollections
  <1>8. CollectionsSteady BY <1>5, <1>6, <1>7 DEF CollectionsSteady
  <1> QED BY <1>8, CollectionOnlyBytes DEF StartCollection

(* A source is found consumed when nothing of it is left to see.            *)
LEMMA CheckSourceBytes ==
    ASSUME DeliveryInv, DeliveryInv', CountInv, CountInv', BytesInv,
           NEW n \in Nodes, NEW s \in Journaled, CheckSource(n, s)
    PROVE  BytesInv'
  <1> DEFINE left == gc[n].left \ {s}
             idle == cursor[n][s] # TailOf(s) \/ (left = {} /\ ~safe[n])
             x == IF left = {} THEN "safe" ELSE gc[n].phase
  <1>a. gc' = [gc EXCEPT ![n] = IF idle THEN IdleGc ELSE [gc[n] EXCEPT !.left = left, !.phase = x]]
    BY Zenon DEF CheckSource
  <1>1. /\ gc[n].phase = "checking" /\ s \in gc[n].left
        /\ journal' = journal /\ cursor' = cursor /\ life' = life /\ stored' = stored /\ head' = head
        /\ request' = request /\ requests' = requests /\ pass' = pass
    BY DEF CheckSource
  <1>2. gc \in [Nodes -> GcRecord] /\ gc[n] \in GcRecord /\ YoungCollections BY DEF BytesInv
  <1>3. IdleGc \in GcRecord /\ IdleGc.phase = "idle" BY DEF IdleGc, GcRecord
  <1>4. CASE idle
    <2>1. gc' = [gc EXCEPT ![n] = IdleGc] BY <1>a, <1>4
    <2>2. gc' \in [Nodes -> GcRecord] /\ \A m \in Nodes : gc'[m] = gc[m] \/ gc'[m] = IdleGc
      BY <1>2, <1>3, <2>1
    <2>3. CollectionsSteady BY <1>2, <2>2, CollectionsSame
    <2> QED BY <1>1, <2>3, CollectionOnlyBytes
  <1>5. CASE ~idle
    <2>1. PICK k : k = [gc[n] EXCEPT !.left = left, !.phase = x] OBVIOUS
    <2>2. gc' = [gc EXCEPT ![n] = k] BY <1>a, <1>5, <2>1
    <2>3. x \in {"safe", "checking"} /\ (x = "safe" <=> left = {}) BY <1>1
    <2>4. left \in SUBSET Nodes BY <1>2 DEF GcRecord
    <2>5. cursor[n][s] = TailOf(s) BY <1>5
    <2>6. \A t : t \notin left => t \notin gc[n].left \/ t = s OBVIOUS
    <2> HIDE DEF left, x, idle
    <2>7. /\ k \in GcRecord /\ k.age = gc[n].age /\ k.left = left /\ k.phase = x
      BY <1>2, <2>1, <2>3, <2>4 DEF GcRecord
    <2>8. gc' \in [Nodes -> GcRecord] /\ \A m \in Nodes : gc'[m] = IF m = n THEN k ELSE gc[m]
      BY <1>2, <2>2, <2>7
    <2>9. \A m \in Nodes, t \in Journaled :
            Checked(m, t)' => gc'[m].age = gc[m].age /\ (Checked(m, t) \/ (m = n /\ t = s))
      <3> SUFFICES ASSUME NEW m \in Nodes, NEW t \in Journaled, Checked(m, t)'
                   PROVE  gc'[m].age = gc[m].age /\ (Checked(m, t) \/ (m = n /\ t = s))
        OBVIOUS
      <3>1. CASE m # n BY <2>8, <3>1 DEF Checked
      <3>2. CASE m = n
        <4>1. gc'[n] = k BY <2>8
        <4>2. t \notin left BY <2>3, <2>7, <3>2, <4>1 DEF Checked
        <4>3. Checked(n, t) \/ t = s BY <1>1, <2>6, <4>2 DEF Checked
        <4> QED BY <2>7, <3>2, <4>1, <4>3
      <3> QED BY <3>1, <3>2
    <2>10. \A o \in Nat : Gained(s, o) => ~(cursor[n][s] < o)
      <3>1. s \in Nodes BY JournaledNodes
      <3>2. TailOf(s) \in Nat /\ journal[s].floor \in Nat BY <3>1, TailNumber DEF DeliveryInv
      <3>3. \A o \in Nat : TailOf(s) < o => At(s, o).delta = 0
        <4>1. \A o \in Nat : TailOf(s) < o => At(s, o) = Lifecycle(0) BY <3>2 DEF At
        <4> QED BY <4>1 DEF Lifecycle, Record
      <3> QED BY <2>5, <3>3 DEF Gained
    <2>11. \A t \in Journaled, o \in Nat : /\ Gained(t, o)' <=> Gained(t, o)
                                           /\ Reached(t, o)' <=> Reached(t, o)
      <3>1. \A t \in Journaled, o \in Nat : At(t, o)' = At(t, o)
        BY <1>1, SameWhenKept, JournaledNodes DEF SameRecords
      <3> QED BY <1>1, <3>1 DEF Gained, Reached
    <2>12. Fresh'
      <3> SUFFICES ASSUME NEW t \in Journaled, NEW o \in Nat, NEW m \in Nodes,
                          Gained(t, o)', Checked(m, t)', cursor'[m][t] < o
                   PROVE  \E u \in Nodes : life'[u].held /\ life'[u].age <= UploadTicks + gc'[m].age
        BY DEF Fresh
      <3>1. Gained(t, o) /\ cursor[m][t] < o BY <1>1, <2>11
      <3>2. Checked(m, t) /\ gc'[m].age = gc[m].age BY <2>9, <2>10, <3>1
      <3> QED BY <1>1, <3>1, <3>2 DEF BytesInv, Fresh
    <2>13. Taken'
      <3> SUFFICES ASSUME NEW t \in Journaled, NEW o \in Nat, NEW d \in Owners,
                          Gained(t, o)', Reached(t, o)', cursor'[d][t] < o
                   PROVE  life'[d].held /\ (Checked(d, t)' => life'[d].age <= gc'[d].age)
        BY DEF Taken
      <3>1. Gained(t, o) /\ cursor[d][t] < o /\ Reached(t, o) BY <1>1, <2>11
      <3>2. Checked(d, t)' => Checked(d, t) /\ gc'[d].age = gc[d].age
        BY <2>9, <2>10, <3>1, PlacementAssumption
      <3> QED BY <1>1, <3>1, <3>2 DEF BytesInv, Taken
    <2>14. YoungCollections' BY <1>1, <1>2, <2>7, <2>8 DEF YoungCollections
    <2>15. YoungRequests' /\ SourceHeld' BY <1>1 DEF BytesInv, YoungRequests, SourceHeld, Open
    <2>16. PublishedBytesKept' BY <1>1 DEF BytesInv, PublishedBytesKept
    <2> QED BY <2>8, <2>12, <2>13, <2>14, <2>15, <2>16 DEF BytesInv
  <1> QED BY <1>4, <1>5

(* The copy a collection on n may remove: everything the invariant counts   *)
(* on is younger.                                                           *)
LEMMA GarbageIsOld ==
    ASSUME CountInv, BytesInv, NEW n \in Nodes, Garbage(life[n]), NEW m \in Nodes, gc[m].phase # "idle",
           NEW u \in Nodes, life[u].age <= UploadTicks + gc[m].age
    PROVE  u # n
  <1>1. life[u].age \in Nat /\ gc[m].age \in Nat BY AgeNumbers DEF CountInv, BytesInv
  <1>2. gc[m].age <= GcTicks BY DEF BytesInv, YoungCollections
  <1>3. life[n].age >= Ttl BY DEF Garbage
  <1> QED BY <1>1, <1>2, <1>3, GraceAssumption

(* While a version names the blob, a collection leaves a copy elsewhere.    *)
LEMMA AnotherCopy ==
    ASSUME DeliveryInv, CountInv, BytesInv, NEW n \in Nodes, gc[n].phase = "safe",
           Garbage(life[n]), \E v \in stored : v.put
    PROVE  \E u \in Nodes \ {n} : life[u].held
  <1>1. PICK d \in Owners : TRUE BY PlacementAssumption
  <1>2. d \in Nodes /\ Shaped /\ Typed BY PlacementAssumption DEF DeliveryInv, CountInv
  <1>3. Counted(life[d]) + Cardinality(Acquiring(d)) - Cardinality(Releasing(d)) = Cardinality(Puts)
    BY DEF CountInv, Conserved
  <1>4. /\ IsFiniteSet(Puts) /\ Cardinality(Puts) \in Nat /\ IsFiniteSet(Acquiring(d))
        /\ Cardinality(Acquiring(d)) \in Nat /\ Cardinality(Releasing(d)) \in Nat
    BY <1>2, FiniteCounts
  <1>5. Cardinality(Puts) # 0
    <2>1. Puts # {} BY DEF Puts
    <2> QED BY <1>4, <2>1, FS_EmptySet
  <1>6. Counted(life[d]) \in Nat BY <1>2 DEF CountInv, LifeOK, CopyOK, CopyRecord, Counted
  <1>7. CASE Counted(life[d]) # 0
    <2>1. life[d].held /\ ~life[d].awaiting /\ life[d].refs # 0
      BY <1>2, <1>7 DEF Counted, CountInv, LifeOK, CopyOK
    <2>2. d # n BY <2>1 DEF Garbage, Unclaimed
    <2> QED BY <1>2, <2>1, <2>2
  <1>8. CASE Counted(life[d]) = 0
    <2>1. Cardinality(Acquiring(d)) # 0 BY <1>3, <1>4, <1>5, <1>8
    <2>2. Acquiring(d) # {} BY <2>1, FS_EmptySet
    <2>3. PICK s \in Journaled, o \in Nat : cursor[d][s] < o /\ At(s, o).delta > 0
      BY <1>2, <2>2, FlightMembers
    <2>4. Gained(s, o) /\ Checked(n, s) BY <2>3 DEF Gained, Checked
    <2>5. s \in Nodes BY JournaledNodes
    <2>6. cursor[n][s] \in Nat /\ cursor[d][s] \in Nat BY <1>2, <2>5 DEF Shaped
    <2>7. CASE cursor[n][s] < o
      <3>1. PICK u \in Nodes : life[u].held /\ life[u].age <= UploadTicks + gc[n].age
        BY <2>4, <2>7 DEF BytesInv, Fresh
      <3>2. u # n BY <3>1, GarbageIsOld
      <3> QED BY <3>1, <3>2
    <2>8. CASE ~(cursor[n][s] < o)
      <3>1. o <= cursor[n][s] BY <2>6, <2>8
      <3>2. Reached(s, o) BY <3>1 DEF Reached
      <3>3. life[d].held BY <2>3, <2>4, <3>2 DEF BytesInv, Taken
      <3>4. d # n BY <2>3, <2>8
      <3> QED BY <1>2, <3>3, <3>4
    <2> QED BY <2>7, <2>8
  <1> QED BY <1>7, <1>8

LEMMA CollectBytes ==
    ASSUME DeliveryInv, DeliveryInv', CountInv, CountInv', BytesInv, NEW n \in Nodes, Collect(n)
    PROVE  BytesInv'
  <1>1. /\ gc[n].phase = "safe" /\ gc' = [gc EXCEPT ![n] = IdleGc]
        /\ stored' = stored /\ request' = request /\ pass' = pass /\ requests' = requests /\ head' = head
    BY DEF Collect
  <1>2. gc \in [Nodes -> GcRecord] /\ YoungCollections BY DEF BytesInv
  <1>3. IdleGc \in GcRecord /\ IdleGc.phase = "idle" BY DEF IdleGc, GcRecord
  <1>4. gc' \in [Nodes -> GcRecord] /\ \A m \in Nodes : gc'[m] = IF m = n THEN IdleGc ELSE gc[m]
    BY <1>1, <1>2, <1>3
  <1>5. CollectionsSteady BY <1>2, <1>4, CollectionsSame
  <1>6. CASE ~(Garbage(life[n]) /\ Fits(n))
    <2>1. life' = life /\ journal' = journal /\ cursor' = cursor BY <1>6 DEF Collect
    <2> QED BY <1>1, <1>5, <2>1, CollectionOnlyBytes
  <1>7. CASE Garbage(life[n]) /\ Fits(n)
    <2>1. life' = [life EXCEPT ![n] = NoCopy] BY <1>7 DEF Collect
    <2>2. QuietStep BY CollectQuiet
    <2>3. NoneGained BY <2>2, SameGained DEF QuietStep
    <2>4. NoneReached /\ CursorsGrow BY <1>1, <2>2, <2>3, PassesUnchanged, QuietReach DEF QuietStep
    <2>5. \A m \in Nodes \ {n} : life'[m] = life[m] BY <2>1 DEF CountInv, LifeOK
    <2>6. \A d, s \in Nodes : cursor[d][s] \in Nat /\ cursor'[d][s] \in Nat BY DEF DeliveryInv, Shaped
    <2>7. Fresh'
      <3> SUFFICES ASSUME NEW s \in Journaled, NEW o \in Nat, NEW m \in Nodes,
                          Gained(s, o)', Checked(m, s)', cursor'[m][s] < o
                   PROVE  \E u \in Nodes : life'[u].held /\ life'[u].age <= UploadTicks + gc'[m].age
        BY DEF Fresh
      <3>1. s \in Nodes BY JournaledNodes
      <3>2. m # n /\ gc'[m] = gc[m] /\ Checked(m, s) BY <1>3, <1>4 DEF Checked
      <3>3. cursor[m][s] <= cursor'[m][s] BY <2>4, <3>1 DEF CursorsGrow
      <3>4. Gained(s, o) /\ cursor[m][s] < o BY <2>3, <2>6, <3>1, <3>3 DEF NoneGained
      <3>5. PICK u \in Nodes : life[u].held /\ life[u].age <= UploadTicks + gc[m].age
        BY <3>2, <3>4 DEF BytesInv, Fresh
      <3>6. gc[m].phase # "idle" BY <3>2 DEF Checked
      <3>7. u # n BY <1>7, <3>5, <3>6, GarbageIsOld
      <3> QED BY <2>5, <3>2, <3>5, <3>7
    <2>8. Taken'
      <3> SUFFICES ASSUME NEW s \in Journaled, NEW o \in Nat, NEW d \in Owners,
                          Gained(s, o)', Reached(s, o)', cursor'[d][s] < o
                   PROVE  life'[d].held /\ (Checked(d, s)' => life'[d].age <= gc'[d].age)
        BY DEF Taken
      <3>1. s \in Nodes /\ d \in Nodes BY JournaledNodes, PlacementAssumption
      <3>2. cursor[d][s] <= cursor'[d][s] BY <2>4, <3>1 DEF CursorsGrow
      <3>3. Gained(s, o) /\ cursor[d][s] < o /\ Reached(s, o)
        BY <2>3, <2>4, <2>6, <3>1, <3>2 DEF NoneGained, NoneReached
      <3>4. life[d].held /\ (Checked(d, s) => life[d].age <= gc[d].age)
        BY <3>3 DEF BytesInv, Taken
      <3>5. d # n
        <4> SUFFICES ASSUME d = n PROVE FALSE OBVIOUS
        <4>1. life[n].age <= gc[n].age BY <1>1, <3>4 DEF Checked
        <4>2. life[n].age \in Nat /\ gc[n].age \in Nat /\ UploadTicks \in Nat
          BY AgeNumbers, GraceAssumption DEF CountInv, BytesInv
        <4>3. life[n].age <= UploadTicks + gc[n].age BY <4>1, <4>2
        <4>4. gc[n].phase # "idle" BY <1>1
        <4> QED BY <1>7, <4>3, <4>4, GarbageIsOld
      <3>6. life'[d] = life[d] /\ gc'[d] = gc[d] BY <1>4, <2>5, <3>1, <3>5
      <3>7. Checked(d, s)' => Checked(d, s) BY <3>6 DEF Checked
      <3> QED BY <3>4, <3>6, <3>7
    <2>9. SourceHeld'
      <3> SUFFICES ASSUME NEW p \in Paths, Open(p), request[p].put
                   PROVE  /\ request[p].source \in Nodes
                          /\ life'[request[p].source].held
                          /\ life'[request[p].source].age <= request[p].age
        BY <1>1 DEF SourceHeld, Open
      <3>1. PICK u \in Nodes : u = request[p].source /\ life[u].held /\ life[u].age <= request[p].age
        BY DEF BytesInv, SourceHeld
      <3>2. request[p].age <= UploadTicks /\ request[p].age \in Nat
        BY DEF BytesInv, YoungRequests, CountInv, Typed, RequestRecord
      <3>3. life[u].age \in Nat /\ gc[n].age \in Nat /\ UploadTicks \in Nat
        BY AgeNumbers, GraceAssumption DEF CountInv, BytesInv
      <3>4. life[u].age <= UploadTicks + gc[n].age BY <3>1, <3>2, <3>3
      <3>5. gc[n].phase # "idle" BY <1>1
      <3>6. u # n BY <1>7, <3>4, <3>5, GarbageIsOld
      <3> QED BY <2>5, <3>1, <3>6
    <2>10. YoungRequests' BY <1>1 DEF BytesInv, YoungRequests, Open
    <2>11. YoungCollections' BY <1>5 DEF CollectionsSteady, YoungCollections
    <2>12. PublishedBytesKept'
      <3> SUFFICES ASSUME \E v \in stored : v.put PROVE \E u \in Nodes : life'[u].held
        BY <1>1 DEF PublishedBytesKept
      <3>1. PICK u \in Nodes \ {n} : life[u].held BY <1>1, <1>7, AnotherCopy
      <3> QED BY <2>5, <3>1
    <2> QED BY <1>4, <2>7, <2>8, <2>9, <2>10, <2>11, <2>12 DEF BytesInv
  <1> QED BY <1>6, <1>7

-----------------------------------------------------------------------------
(* Time passes for the copies, the requests and the collections alike. *)

LEMMA TickBytes ==
    ASSUME DeliveryInv, DeliveryInv', CountInv, CountInv', BytesInv, Tick
    PROVE  BytesInv'
  <1> DEFINE a(n) == IF gc[n].phase = "idle" THEN gc[n].age ELSE gc[n].age + 1
  <1>1. /\ journal' = journal /\ cursor' = cursor /\ stored' = stored /\ pass' = pass
        /\ gc' = [n \in Nodes |-> [gc[n] EXCEPT !.age = a(n)]]
        /\ \A p \in Paths : request[p].phase = "idle" \/ request[p].age < UploadTicks
        /\ \A n \in Nodes : gc[n].phase = "idle" \/ gc[n].age < GcTicks
    BY DEF Tick
  <1>2. gc \in [Nodes -> GcRecord] BY DEF BytesInv
  <1>3. ASSUME NEW n \in Nodes
        PROVE  /\ gc'[n] \in GcRecord /\ gc'[n].phase = gc[n].phase /\ gc'[n].left = gc[n].left
               /\ gc'[n].age = a(n)
    <2>1. gc[n] \in GcRecord BY <1>2
    <2>2. a(n) \in Nat BY <2>1 DEF GcRecord
    <2> HIDE DEF a
    <2>3. gc'[n] = [gc[n] EXCEPT !.age = a(n)] BY <1>1
    <2> QED BY <2>1, <2>2, <2>3 DEF GcRecord
  <1>4. gc' \in [Nodes -> GcRecord]
    <2> HIDE DEF a
    <2> QED BY <1>1, <1>3
  <1>5. \A n \in Nodes : gc[n].phase # "idle" => gc'[n].age = gc[n].age + 1 BY <1>3
  <1>6. LifeOK /\ LifeOK' /\ Typed BY DEF CountInv
  <1>7. \A n \in Nodes : life'[n].held = life[n].held /\ life'[n].age <= life[n].age + 1
    BY <1>6, LifeTicked
  <1>8. \A n \in Nodes : /\ life[n].age \in Nat /\ gc[n].age \in Nat
                         /\ life'[n].age \in Nat /\ gc'[n].age \in Nat
    BY <1>2, <1>4, <1>6, AgeNumbers, AgeNumbersNext
  <1>9. /\ QuietStep
        /\ \A p \in Paths : request'[p].phase = request[p].phase
        /\ \A p \in Paths : request'[p].age = IF Open(p) THEN request[p].age + 1 ELSE request[p].age
    BY TickQuiet
  <1>10. \A p \in Paths : Open(p)' <=> Open(p) BY <1>9 DEF Open
  <1>11. \A p \in Paths : request[p].age \in Nat BY <1>6 DEF Typed, RequestRecord
  <1>12. UploadTicks \in Nat /\ GcTicks \in Nat BY GraceAssumption
  <1>13. \A n \in Nodes, s \in Journaled : Checked(n, s)' <=> Checked(n, s) BY <1>3 DEF Checked
  <1>14. \A s \in Journaled, o \in Nat : /\ Gained(s, o)' <=> Gained(s, o)
                                         /\ Reached(s, o)' <=> Reached(s, o)
    <2>1. \A t \in Journaled, o \in Nat : At(t, o)' = At(t, o)
      BY <1>1, SameWhenKept, JournaledNodes DEF SameRecords
    <2> QED BY <1>1, <2>1 DEF Gained, Reached
  <1> HIDE DEF a
  <1>15. YoungRequests' BY <1>1, <1>9, <1>10, <1>11, <1>12 DEF YoungRequests, Open
  <1>16. YoungCollections' BY <1>1, <1>3, <1>5, <1>8, <1>12 DEF YoungCollections
  <1>17. SourceHeld'
    <2> SUFFICES ASSUME NEW p \in Paths, Open(p)', request'[p].put
                 PROVE  /\ request'[p].source \in Nodes
                        /\ life'[request'[p].source].held
                        /\ life'[request'[p].source].age <= request'[p].age
      BY DEF SourceHeld
    <2>1. /\ Open(p) /\ request[p].put /\ request'[p].source = request[p].source
          /\ request'[p].age = request[p].age + 1
      BY <1>9, <1>10 DEF QuietStep, RequestsKept
    <2>2. PICK u \in Nodes : u = request[p].source /\ life[u].held /\ life[u].age <= request[p].age
      BY <2>1 DEF BytesInv, SourceHeld
    <2>3. life'[u].held /\ life'[u].age <= life[u].age + 1 BY <1>7, <2>2
    <2>4. life'[u].age <= request[p].age + 1 BY <1>8, <1>11, <2>2, <2>3
    <2> QED BY <2>1, <2>2, <2>3, <2>4
  <1>18. Fresh'
    <2> SUFFICES ASSUME NEW s \in Journaled, NEW o \in Nat, NEW n \in Nodes,
                        Gained(s, o)', Checked(n, s)', cursor'[n][s] < o
                 PROVE  \E u \in Nodes : life'[u].held /\ life'[u].age <= UploadTicks + gc'[n].age
      BY DEF Fresh
    <2>1. Gained(s, o) /\ Checked(n, s) /\ cursor[n][s] < o BY <1>1, <1>13, <1>14
    <2>2. PICK u \in Nodes : life[u].held /\ life[u].age <= UploadTicks + gc[n].age
      BY <2>1 DEF BytesInv, Fresh
    <2>3. gc[n].phase # "idle" BY <2>1 DEF Checked
    <2>4. gc'[n].age = gc[n].age + 1 BY <1>5, <2>3
    <2>5. life'[u].held /\ life'[u].age <= life[u].age + 1 BY <1>7, <2>2
    <2>6. life'[u].age <= UploadTicks + gc'[n].age BY <1>8, <1>12, <2>2, <2>4, <2>5
    <2> QED BY <2>5, <2>6
  <1>19. Taken'
    <2> SUFFICES ASSUME NEW s \in Journaled, NEW o \in Nat, NEW d \in Owners,
                        Gained(s, o)', Reached(s, o)', cursor'[d][s] < o
                 PROVE  life'[d].held /\ (Checked(d, s)' => life'[d].age <= gc'[d].age)
      BY DEF Taken
    <2>1. Gained(s, o) /\ Reached(s, o) /\ cursor[d][s] < o BY <1>1, <1>14
    <2>2. d \in Nodes BY PlacementAssumption
    <2>3. life[d].held /\ (Checked(d, s) => life[d].age <= gc[d].age) BY <2>1 DEF BytesInv, Taken
    <2>4. life'[d].held /\ life'[d].age <= life[d].age + 1 BY <1>7, <2>2, <2>3
    <2>5. ASSUME Checked(d, s)' PROVE life'[d].age <= gc'[d].age
      <3>1. Checked(d, s) BY <1>13, <2>2, <2>5
      <3>2. gc[d].phase # "idle" BY <3>1 DEF Checked
      <3>3. gc'[d].age = gc[d].age + 1 BY <1>5, <2>2, <3>2
      <3> QED BY <1>8, <2>2, <2>3, <2>4, <3>1, <3>3
    <2> QED BY <2>4, <2>5
  <1>20. PublishedBytesKept' BY <1>1, <1>7 DEF BytesInv, PublishedBytesKept
  <1> QED BY <1>4, <1>15, <1>16, <1>17, <1>18, <1>19, <1>20 DEF BytesInv

LEMMA RestartBytes ==
    ASSUME DeliveryInv, DeliveryInv', CountInv, CountInv', BytesInv, NEW n \in Nodes, Restart(n)
    PROVE  BytesInv'
  <1>1. pass' = [pass EXCEPT ![n] = IdlePass] /\ gc' = [gc EXCEPT ![n] = IdleGc] BY DEF Restart
  <1>2. /\ QuietStep /\ LifeRefreshed
        /\ \A p \in Paths : Open(p)' => request'[p] = request[p]
    BY RestartQuiet
  <1>3. PassesSteady BY <1>1, PassEndsSteady
  <1>4. gc \in [Nodes -> GcRecord] /\ YoungCollections BY DEF BytesInv
  <1>5. IdleGc \in GcRecord BY DEF IdleGc, GcRecord
  <1>6. gc' \in [Nodes -> GcRecord] /\ \A m \in Nodes : gc'[m] = gc[m] \/ gc'[m] = IdleGc
    BY <1>1, <1>4, <1>5
  <1>7. CollectionsSteady BY <1>4, <1>6, CollectionsSame
  <1>8. NoneOlder BY <1>2, RefreshedNotOlder
  <1> QED BY <1>2, <1>3, <1>7, <1>8, QuietBytes

LEMMA InitBytes ==
    ASSUME Init
    PROVE  BytesInv
  <1>1. PICK p \in Paths, retention \in {"pending", "released"} : Published(p, retention)
    BY DEF Init
  <1>2. request = [q \in Paths |-> Idle] /\ gc = [n \in Nodes |-> IdleGc] BY DEF Init
  <1>3. Idle.phase = "idle" /\ IdleGc.phase = "idle" /\ IdleGc \in GcRecord
    BY DEF Idle, IdleGc, GcRecord
  <1>4. \A s \in Nodes, o \in Nat, d \in Nodes : o > cursor[d][s] => At(s, o).delta = 0
    BY InitRecords
  <1>5. gc \in [Nodes -> GcRecord] BY <1>2, <1>3
  <1>6. YoungRequests /\ SourceHeld BY <1>2, <1>3 DEF YoungRequests, SourceHeld, Open
  <1>7. YoungCollections BY <1>2, <1>3 DEF YoungCollections
  <1>8. Fresh BY <1>2, <1>3 DEF Fresh, Checked
  <1>9. Taken
    <2>1. \A s \in Journaled, o \in Nat, d \in Owners : cursor[d][s] < o => ~Gained(s, o)
      <3> SUFFICES ASSUME NEW s \in Journaled, NEW o \in Nat, NEW d \in Owners, cursor[d][s] < o
                   PROVE  ~Gained(s, o)
        OBVIOUS
      <3>1. s \in Nodes /\ d \in Nodes BY JournaledNodes, PlacementAssumption
      <3>2. cursor[d][s] \in Nat BY <3>1, InitDelivery DEF DeliveryInv, Shaped
      <3>3. o > cursor[d][s] BY <3>2
      <3>4. At(s, o).delta = 0 BY <1>4, <3>1, <3>3
      <3> QED BY <3>4 DEF Gained
    <2> QED BY <2>1 DEF Taken
  <1>10. PublishedBytesKept
    <2>1. PICK n \in Owners : TRUE BY PlacementAssumption
    <2>2. n \in Nodes BY PlacementAssumption
    <2>3. life[n].held BY <1>1, <2>1, <2>2 DEF Published
    <2> QED BY <2>2, <2>3 DEF PublishedBytesKept
  <1> QED BY <1>5, <1>6, <1>7, <1>8, <1>9, <1>10 DEF BytesInv

LEMMA StepBytes ==
    ASSUME DeliveryInv, CountInv, BytesInv, [Next]_vars
    PROVE  BytesInv'
  <1>1. DeliveryInv' /\ CountInv' BY StepDelivery, StepCounts
  <1>2. CASE UNCHANGED vars
    <2>1. /\ journal' = journal /\ cursor' = cursor /\ life' = life /\ stored' = stored /\ head' = head
          /\ request' = request /\ requests' = requests /\ pass' = pass /\ gc' = gc
      BY <1>2 DEF vars
    <2>2. CollectionsSteady BY <2>1, CollectionsUnchanged
    <2> QED BY <1>1, <2>1, <2>2, CollectionOnlyBytes
  <1>3. ASSUME NEW p \in Paths, ClientStep(p) PROVE BytesInv'
    <2>1. ASSUME NEW u \in Gateways, Upload(p, u) PROVE BytesInv'
      <3>1. u \in Nodes BY PlacementAssumption
      <3> QED BY <1>1, <2>1, <3>1, UploadBytes
    <2>2. CASE StartDelete(p) BY <1>1, <2>2, StartDeleteBytes
    <2>3. CASE Abandon(p) BY <1>1, <2>3, RequestQuietBytes
    <2> QED BY <1>3, <2>1, <2>2, <2>3 DEF ClientStep
  <1>4. ASSUME NEW p \in Paths, RequestStep(p) PROVE BytesInv'
    <2>1. CASE PreparePayload(p) BY <1>1, <2>1, RequestQuietBytes
    <2>2. CASE CommitMutation(p) BY <1>1, <2>2, CommitBytes
    <2>3. CASE CommitRefused(p) BY <1>1, <2>3, RequestQuietBytes
    <2>4. CASE WaitForCapacity(p)
      <3>1. PICK n \in Journaled : n = Coordinator[p] BY DEF Journaled
      <3>2. RetentionPass(n, journal[n], TRUE) BY <2>4, <3>1, WaitIsPass
      <3>3. PICK x \in {"ready", "verified", "waiting"} : request' = [request EXCEPT ![p].phase = x]
        BY <2>4 DEF WaitForCapacity
      <3>4. /\ Open(p) /\ requests' = requests /\ Typed /\ gc' = gc /\ pass' = pass
        BY <2>4 DEF WaitForCapacity, Open, CountInv
      <3>5. RequestsKept /\ \A q \in Paths : request'[q].age = request[q].age
        BY <3>3, <3>4, RequestMoves
      <3>6. RequestsSteady BY <3>5 DEF RequestsKept, RequestsSteady
      <3> QED BY <1>1, <3>2, <3>4, <3>6, PassesUnchanged, RetentionBytes
    <2> QED BY <1>4, <2>1, <2>2, <2>3, <2>4 DEF RequestStep
  <1>5. ASSUME NEW s \in Journaled, PassStep(s) PROVE BytesInv'
    <2> s \in Nodes BY JournaledNodes
    <2>1. CASE ReadCursors(s) BY <1>1, <2>1, ReadBytes
    <2>2. CASE CursorsUnread(s) BY <1>1, <2>2, PassQuietBytes
    <2>3. ASSUME NEW through \in Slowest(s)..TailOf(s), TakePage(s, through) PROVE BytesInv'
      BY <1>1, <2>3, PageBytes
    <2>4. ASSUME NEW d \in Nodes, DeliverBatch(s, d) PROVE BytesInv'
      BY <1>1, <2>4, ApplyBytes, PassQuietBytes DEF DeliverBatch
    <2>5. CASE FinishCompaction(s)
      <3>1. PICK j : RetentionPass(s, j, FALSE) BY <2>5, CompactionIsPass
      <3>2. gc' = gc /\ request' = request BY <2>5 DEF FinishCompaction
      <3>3. PassesSteady BY <2>5, PassEndsSteady DEF FinishCompaction, EndPass
      <3>4. RequestsSteady BY <3>2 DEF RequestsSteady, Open
      <3> QED BY <1>1, <3>1, <3>2, <3>3, <3>4, RetentionBytes
    <2> QED BY <1>5, <2>1, <2>2, <2>3, <2>4, <2>5 DEF PassStep
  <1>6. ASSUME NEW s \in Journaled, CutStep(s) PROVE BytesInv'
    <2> s \in Nodes BY JournaledNodes
    <2>1. CASE SettlePosition(s) BY <1>1, <2>1, SettleBytes
    <2>2. CASE DerivedCheckpoint(s)
      <3>1. PICK j : RetentionPass(s, j, FALSE) BY <2>2, CheckpointIsPass
      <3>2. gc' = gc /\ request' = request /\ pass' = pass BY <2>2 DEF DerivedCheckpoint
      <3>3. RequestsSteady BY <3>2 DEF RequestsSteady, Open
      <3> QED BY <1>1, <3>1, <3>2, <3>3, PassesUnchanged, RetentionBytes
    <2> QED BY <1>6, <2>1, <2>2 DEF CutStep
  <1>7. ASSUME NEW n \in Nodes, CollectionStep(n) PROVE BytesInv'
    BY <1>1, <1>7, StartCollectionBytes, CheckSourceBytes, CollectBytes DEF CollectionStep
  <1>8. ASSUME NEW n \in Nodes, Restart(n) PROVE BytesInv'
    BY <1>1, <1>8, RestartBytes
  <1>9. CASE Tick BY <1>1, <1>9, TickBytes
  <1> QED BY <1>2, <1>3, <1>4, <1>5, <1>6, <1>7, <1>8, <1>9 DEF Next

(* The bytes of a stored version are never collected everywhere, whether    *)
(* its reference has been delivered or is still on its way: a commit that   *)
(* falls between the safety check of a collection (gc_safe) and the removal *)
(* it admits has a copy younger than the grace period, and a reference some *)
(* other node has already applied was prepared on every owner first.        *)
THEOREM BytesKept == Spec => []PublishedBytesKept
  <1>1. DeliveryInv /\ CountInv /\ BytesInv /\ [Next]_vars => DeliveryInv' /\ CountInv' /\ BytesInv'
    BY StepDelivery, StepCounts, StepBytes
  <1>2. BytesInv => PublishedBytesKept BY DEF BytesInv
  <1> QED BY <1>1, <1>2, InitDelivery, InitCounts, InitBytes, PTL DEF Spec

-----------------------------------------------------------------------------
(* The types of the whole state. *)

(* Consumers follow the settled prefix, and retention follows them.         *)
Ordered(s) ==
    /\ journal[s].floor <= journal[s].derived
    /\ journal[s].derived <= journal[s].settled
    /\ journal[s].settled <= TailOf(s)

JournalsOrdered == \A s \in Nodes : Ordered(s)
HeadsStored == \A p \in Paths : head[p] # 0 => \E v \in stored : v.path = p /\ v.id = head[p]

TypeInv ==
    /\ JournalsOrdered
    /\ HeadsStored
    /\ requests <= MaxRequests + 1
    /\ safe \in [Nodes -> BOOLEAN]

LEMMA OrderedWhenKept ==
    ASSUME JournalsOrdered, journal' = journal
    PROVE  JournalsOrdered'
  BY DEF JournalsOrdered, Ordered, TailOf

LEMMA OrderedWhenSettled ==
    ASSUME DeliveryInv, JournalsOrdered, NEW s \in Nodes, NEW k \in journal[s].settled..TailOf(s),
           journal' = [journal EXCEPT ![s].settled = k]
    PROVE  JournalsOrdered'
  <1>1. /\ TailOf(s) \in Nat /\ journal[s].settled \in Nat /\ journal[s].derived \in Nat
    BY TailNumber DEF DeliveryInv
  <1>2. k \in Nat /\ journal[s].settled <= k /\ k <= TailOf(s) BY <1>1
  <1>3. \A n \in Nodes : /\ TailOf(n)' = TailOf(n) /\ journal'[n].floor = journal[n].floor
                         /\ journal'[n].derived = journal[n].derived
                         /\ journal'[n].settled = IF n = s THEN k ELSE journal[n].settled
    BY <1>2, SettledMoves
  <1> SUFFICES ASSUME NEW n \in Nodes
               PROVE  /\ journal'[n].floor <= journal'[n].derived
                      /\ journal'[n].derived <= journal'[n].settled
                      /\ journal'[n].settled <= TailOf(n)'
    BY DEF JournalsOrdered, Ordered
  <1>4. Ordered(n) BY DEF JournalsOrdered
  <1>5. CASE n = s BY <1>1, <1>2, <1>3, <1>4, <1>5 DEF Ordered
  <1>6. CASE n # s BY <1>3, <1>4, <1>6 DEF Ordered
  <1> QED BY <1>5, <1>6

LEMMA OrderedWhenInert ==
    ASSUME DeliveryInv, JournalsOrdered, NEW n \in Nodes,
           journal' = [journal EXCEPT ![n] = AppendInert(n)]
    PROVE  JournalsOrdered'
  <1>1. PICK S : journal \in [Nodes -> JournalRecord(S)] BY DEF DeliveryInv, Shaped
  <1>2. CASE n \notin Journaled
    <2>1. journal' = journal BY <1>1, <1>2 DEF AppendInert
    <2> QED BY <2>1, OrderedWhenKept
  <1>3. CASE n \in Journaled
    <2>1. PICK j \in JournalRecord(S) : j = journal[n] BY <1>1
    <2>2. /\ j.log \in Seq(S) /\ Len(j.log) \in Nat /\ j.floor \in Nat /\ j.settled \in Nat
          /\ j.derived \in Nat
      BY DEF JournalRecord
    <2>3. PICK x \in Nat : x = IF j.settled = TailOf(n) THEN j.settled + 1 ELSE j.settled BY <2>2
    <2>4. PICK k : k = AppendInert(n) OBVIOUS
    <2>5. k = [j EXCEPT !.log = Append(j.log, Lifecycle(0)), !.settled = x]
      BY <1>3, <2>1, <2>3, <2>4 DEF AppendInert
    <2>6. /\ k.log = Append(j.log, Lifecycle(0)) /\ k.settled = x /\ k.floor = j.floor
          /\ k.derived = j.derived
      BY <2>5 DEF JournalRecord
    <2>7. Len(Append(j.log, Lifecycle(0))) = Len(j.log) + 1 BY <2>2, AppendShape, Zenon
    <2>8. \A s \in Nodes : journal'[s] = IF s = n THEN k ELSE journal[s] BY <1>1, <2>4
    <2>9. TailOf(n) = j.floor + Len(j.log) BY <2>1 DEF TailOf
    <2>10. /\ j.floor <= j.derived /\ j.derived <= j.settled /\ j.settled <= TailOf(n)
      BY <2>1 DEF JournalsOrdered, Ordered
    <2>11. /\ k.floor <= k.derived /\ k.derived <= k.settled
           /\ k.settled <= k.floor + Len(k.log)
      BY <2>2, <2>3, <2>6, <2>7, <2>9, <2>10
    <2> QED BY <2>8, <2>11 DEF JournalsOrdered, Ordered, TailOf
  <1> QED BY <1>2, <1>3

LEMMA OrderedWhenDeferred ==
    ASSUME DeliveryInv, JournalsOrdered, NEW n \in Nodes, NEW e,
           journal' = [journal EXCEPT ![n] = AppendDeferred(journal[n], e)]
    PROVE  JournalsOrdered'
  <1>1. /\ \A s \in Nodes : TailOf(s)' = IF s = n THEN TailOf(n) + 1 ELSE TailOf(s)
        /\ \A s \in Nodes : /\ journal'[s].floor = journal[s].floor
                            /\ journal'[s].settled = journal[s].settled
                            /\ journal'[s].derived = journal[s].derived
    BY DeferredRecords
  <1> SUFFICES ASSUME NEW s \in Nodes
               PROVE  /\ journal'[s].floor <= journal'[s].derived
                      /\ journal'[s].derived <= journal'[s].settled
                      /\ journal'[s].settled <= TailOf(s)'
    BY DEF JournalsOrdered, Ordered
  <1>2. TailOf(s) \in Nat /\ journal[s].settled \in Nat BY TailNumber DEF DeliveryInv
  <1>3. Ordered(s) BY DEF JournalsOrdered
  <1>4. journal'[s].settled <= TailOf(s)' BY <1>1, <1>2, <1>3 DEF Ordered
  <1> QED BY <1>1, <1>3, <1>4 DEF Ordered

LEMMA OrderedWhenPruned ==
    ASSUME DeliveryInv, JournalsOrdered, NEW n \in Nodes, NEW j, NEW force \in BOOLEAN,
           RetentionPass(n, j, force)
    PROVE  JournalsOrdered'
  <1>1. PICK S : j \in JournalRecord(S) BY DEF RetentionPass
  <1>2. /\ j.floor = journal[n].floor /\ j.log = journal[n].log /\ j.settled = journal[n].settled
        /\ j.derived \in {journal[n].derived, journal[n].settled}
        /\ \A d \in Nodes : j.referenceSafe <= cursor[d][n]
        /\ journal' = [journal EXCEPT ![n] = Pruned(j, force)]
    BY DEF RetentionPass
  <1>3. /\ PrunedRecords(n, PruneCount(j, force), DelayedReleases(j, force))
        /\ \A s \in Nodes \ {n} : journal'[s] = journal[s]
        /\ journal'[n].floor = j.floor + PruneCount(j, force)
        /\ journal'[n].settled = j.settled /\ journal'[n].derived = j.derived
        /\ PruneCount(j, force) = 0 \/ journal'[n].floor <= j.derived
    BY <1>1, <1>2, PassRecords
  <1>4. PICK r \in Seq({Lifecycle(-1), Lifecycle(0)}) : r = DelayedReleases(j, force)
    BY <1>3 DEF PrunedRecords
  <1>5. Len(r) \in Nat OBVIOUS
  <1>6. \A s \in Nodes : TailOf(s)' = IF s = n THEN TailOf(n) + Len(r) ELSE TailOf(s)
    BY <1>3, <1>4 DEF PrunedRecords
  <1>7. /\ TailOf(n) \in Nat /\ journal[n].settled \in Nat /\ journal[n].derived \in Nat
        /\ journal[n].floor \in Nat
    BY TailNumber DEF DeliveryInv
  <1>8. Ordered(n) BY DEF JournalsOrdered
  <1>9. j.floor <= j.derived /\ j.derived <= j.settled BY <1>2, <1>7, <1>8 DEF Ordered
  <1>10. journal'[n].floor <= journal'[n].derived
    <2>1. CASE PruneCount(j, force) = 0 BY <1>2, <1>3, <1>7, <1>9, <2>1
    <2>2. CASE journal'[n].floor <= j.derived BY <1>3, <2>2
    <2> QED BY <1>3, <2>1, <2>2
  <1>11. journal'[n].derived <= journal'[n].settled BY <1>3, <1>9
  <1>12. journal'[n].settled <= TailOf(n)'
    <2>1. TailOf(n)' = TailOf(n) + Len(r) BY <1>6
    <2>2. journal'[n].settled = journal[n].settled BY <1>2, <1>3
    <2>3. journal[n].settled <= TailOf(n) BY <1>8 DEF Ordered
    <2> QED BY <1>5, <1>7, <2>1, <2>2, <2>3
  <1>13. \A s \in Nodes \ {n} : /\ journal'[s].floor <= journal'[s].derived
                                /\ journal'[s].derived <= journal'[s].settled
                                /\ journal'[s].settled <= TailOf(s)'
    BY <1>3, <1>6 DEF JournalsOrdered, Ordered
  <1> QED BY <1>10, <1>11, <1>12, <1>13 DEF JournalsOrdered, Ordered

LEMMA OrderedWhenRestarted ==
    ASSUME DeliveryInv, JournalsOrdered, NEW n \in Nodes,
           journal' = [journal EXCEPT ![n].referenceSafe = journal[n].floor]
    PROVE  JournalsOrdered'
  <1>1. PICK S : journal \in [Nodes -> JournalRecord(S)] BY DEF DeliveryInv, Shaped
  <1>2. PICK k : k = [journal[n] EXCEPT !.referenceSafe = journal[n].floor] OBVIOUS
  <1>3. /\ k.floor = journal[n].floor /\ k.log = journal[n].log
        /\ k.settled = journal[n].settled /\ k.derived = journal[n].derived
    BY <1>1, <1>2 DEF JournalRecord
  <1>4. \A s \in Nodes : journal'[s] = IF s = n THEN k ELSE journal[s] BY <1>1, <1>2
  <1> QED BY <1>3, <1>4 DEF JournalsOrdered, Ordered, TailOf

LEMMA HeadsWhenPruned ==
    ASSUME CountInv, HeadsStored, NEW n, NEW j, NEW force \in BOOLEAN, RetentionPass(n, j, force)
    PROVE  HeadsStored'
  <1>1. stored \subseteq VersionRecord BY DEF CountInv, Typed
  <1>2. PICK PP : PP = PrunedPending(j, force) OBVIOUS
  <1>3. /\ head' = head
        /\ stored' = (stored \ PP) \cup {[v EXCEPT !.retention = "released"] : v \in {w \in PP : IsCurrent(w)}}
    BY <1>2 DEF RetentionPass, RetainedVersions
  <1>4. ASSUME NEW p \in Paths, head[p] # 0 PROVE \E v \in stored' : v.path = p /\ v.id = head[p]
    <2>1. PICK w \in stored : w.path = p /\ w.id = head[p] BY <1>4 DEF HeadsStored
    <2>2. CASE w \notin PP BY <1>3, <2>1, <2>2
    <2>3. CASE w \in PP
      <3>1. PICK v : v = [w EXCEPT !.retention = "released"] OBVIOUS
      <3>2. v.path = p /\ v.id = head[p] BY <1>1, <2>1, <3>1 DEF VersionRecord
      <3>3. IsCurrent(w) BY <2>1 DEF IsCurrent
      <3>4. v \in stored' BY <1>3, <2>3, <3>1, <3>3
      <3> QED BY <3>2, <3>4
    <2> QED BY <2>2, <2>3
  <1> QED BY <1>3, <1>4 DEF HeadsStored

LEMMA HeadsWhenCommitted ==
    ASSUME CountInv, HeadsStored, NEW p \in Paths, CommitMutation(p)
    PROVE  HeadsStored'
  <1>1. PICK x : x = [path |-> p, id |-> request[p].id, put |-> request[p].put, retention |-> "pending"]
    OBVIOUS
  <1>2. /\ stored' = (stored \ ReleasedPredecessor(p)) \cup {x}
        /\ head' = [head EXCEPT ![p] = request[p].id]
    BY <1>1 DEF CommitMutation
  <1>3. x.path = p /\ x.id = request[p].id BY <1>1
  <1>4. \A q \in Paths : head'[q] = IF q = p THEN request[p].id ELSE head[q]
    BY <1>2 DEF CountInv, Typed
  <1>5. \A v \in ReleasedPredecessor(p) : v.path = p BY DEF ReleasedPredecessor, CurrentVersion
  <1>6. ASSUME NEW q \in Paths, head'[q] # 0 PROVE \E v \in stored' : v.path = q /\ v.id = head'[q]
    <2>1. CASE q = p BY <1>2, <1>3, <1>4, <2>1
    <2>2. CASE q # p
      <3>1. head'[q] = head[q] BY <1>4, <2>2
      <3>2. PICK v \in stored : v.path = q /\ v.id = head[q] BY <1>6, <3>1 DEF HeadsStored
      <3>3. v \in stored' BY <1>2, <1>5, <2>2, <3>2
      <3> QED BY <3>1, <3>2, <3>3
    <2> QED BY <2>1, <2>2
  <1> QED BY <1>6 DEF HeadsStored

LEMMA FlagSet ==
    ASSUME safe \in [Nodes -> BOOLEAN], NEW s \in Nodes, NEW b \in BOOLEAN,
           safe' = [safe EXCEPT ![s] = b]
    PROVE  safe' \in [Nodes -> BOOLEAN]
  OBVIOUS

LEMMA StepTypes ==
    ASSUME DeliveryInv, CountInv, TypeInv, [Next]_vars
    PROVE  TypeInv'
  <1>1. JournalsOrdered /\ HeadsStored /\ safe \in [Nodes -> BOOLEAN] /\ requests <= MaxRequests + 1
    BY DEF TypeInv
  <1>2. requests \in Nat /\ MaxRequests \in Nat BY GraceAssumption DEF CountInv, Typed
  <1>k. ASSUME JournalsOrdered', stored' = stored, head' = head, requests' = requests, safe' = safe
        PROVE  TypeInv'
    BY <1>1, <1>k DEF TypeInv, HeadsStored
  <1>j. ASSUME journal' = journal, stored' = stored, head' = head, requests' = requests, safe' = safe
        PROVE  TypeInv'
    BY <1>1, <1>j, <1>k, OrderedWhenKept
  <1>f. ASSUME journal' = journal, stored' = stored, head' = head, requests' = requests,
               safe' \in [Nodes -> BOOLEAN]
        PROVE  TypeInv'
    <2>1. JournalsOrdered' BY <1>1, <1>f, OrderedWhenKept
    <2> QED BY <1>1, <1>f, <2>1 DEF TypeInv, HeadsStored
  <1>p. ASSUME NEW n \in Nodes, NEW j, NEW force \in BOOLEAN, RetentionPass(n, j, force),
               requests' = requests, safe' \in [Nodes -> BOOLEAN]
        PROVE  TypeInv'
    BY <1>1, <1>p, OrderedWhenPruned, HeadsWhenPruned DEF TypeInv
  <1>3. CASE UNCHANGED vars BY <1>3, <1>j DEF vars
  <1>4. ASSUME NEW p \in Paths, ClientStep(p) PROVE TypeInv'
    <2>1. ASSUME NEW u \in Gateways, Upload(p, u) PROVE TypeInv'
      <3>1. u \in Nodes BY PlacementAssumption
      <3>2. /\ journal' = [journal EXCEPT ![u] = AppendInert(u)] /\ requests' = requests + 1
            /\ requests <= MaxRequests /\ stored' = stored /\ head' = head /\ safe' = safe
        BY <2>1 DEF Upload
      <3>3. JournalsOrdered' BY <1>1, <3>1, <3>2, OrderedWhenInert
      <3>4. requests' <= MaxRequests + 1 BY <1>2, <3>2
      <3> QED BY <1>1, <3>2, <3>3, <3>4 DEF TypeInv, HeadsStored
    <2>2. CASE StartDelete(p)
      <3>1. /\ journal' = journal /\ requests' = requests + 1
            /\ requests <= MaxRequests /\ stored' = stored /\ head' = head /\ safe' = safe
        BY <2>2 DEF StartDelete
      <3>2. JournalsOrdered' BY <1>1, <3>1, OrderedWhenKept
      <3>3. requests' <= MaxRequests + 1 BY <1>2, <3>1
      <3> QED BY <1>1, <3>1, <3>2, <3>3 DEF TypeInv, HeadsStored
    <2>3. CASE Abandon(p) BY <1>j, <2>3 DEF Abandon
    <2> QED BY <1>4, <2>1, <2>2, <2>3 DEF ClientStep
  <1>5. ASSUME NEW p \in Paths, RequestStep(p) PROVE TypeInv'
    <2>1. CASE PreparePayload(p) BY <1>j, <2>1 DEF PreparePayload
    <2>2. CASE CommitMutation(p)
      <3>1. PICK c \in Nodes : c = Coordinator[p] BY JournaledNodes
      <3>2. PICK e : journal' = [journal EXCEPT ![c] = AppendDeferred(journal[c], e)]
        BY <2>2, <3>1 DEF CommitMutation
      <3>3. JournalsOrdered' BY <1>1, <3>2, OrderedWhenDeferred
      <3>4. HeadsStored' BY <1>1, <2>2, HeadsWhenCommitted
      <3>5. requests' = requests /\ safe' = safe BY <2>2 DEF CommitMutation
      <3> QED BY <1>1, <3>3, <3>4, <3>5 DEF TypeInv
    <2>3. CASE CommitRefused(p) BY <1>j, <2>3 DEF CommitRefused
    <2>4. CASE WaitForCapacity(p)
      <3>1. PICK n \in Nodes : n = Coordinator[p] BY JournaledNodes
      <3>2. RetentionPass(n, journal[n], TRUE) BY <2>4, <3>1, WaitIsPass
      <3>3. requests' = requests /\ safe' = safe BY <2>4 DEF WaitForCapacity
      <3> QED BY <1>1, <1>p, <3>2, <3>3
    <2> QED BY <1>5, <2>1, <2>2, <2>3, <2>4 DEF RequestStep
  <1>6. ASSUME NEW s \in Journaled, PassStep(s) PROVE TypeInv'
    <2> s \in Nodes BY JournaledNodes
    <2>1. CASE ReadCursors(s)
      <3>1. PICK k \in SettlementStops(s) : journal' = [journal EXCEPT ![s].settled = k]
        BY <2>1 DEF ReadCursors
      <3>2. k \in journal[s].settled..TailOf(s) BY DEF SettlementStops
      <3>3. JournalsOrdered' BY <1>1, <3>1, <3>2, OrderedWhenSettled
      <3> QED BY <1>k, <2>1, <3>3 DEF ReadCursors
    <2>2. CASE CursorsUnread(s)
      <3>1. safe' \in [Nodes -> BOOLEAN] BY <1>1, <2>2, FlagSet DEF CursorsUnread, EndPass
      <3> QED BY <1>f, <2>2, <3>1 DEF CursorsUnread
    <2>3. ASSUME NEW through \in Slowest(s)..TailOf(s), TakePage(s, through) PROVE TypeInv'
      <3>1. /\ EndPass(s, FALSE) \/ safe' = safe
            /\ journal' = journal /\ stored' = stored /\ head' = head /\ requests' = requests
        BY <2>3 DEF TakePage
      <3>2. safe' \in [Nodes -> BOOLEAN] BY <1>1, <3>1, FlagSet DEF EndPass
      <3> QED BY <1>f, <3>1, <3>2
    <2>4. ASSUME NEW d \in Nodes, DeliverBatch(s, d) PROVE TypeInv'
      <3>1. ASSUME NEW ok \in BOOLEAN, ApplyBatch(s, d, ok) PROVE TypeInv'
        <4>1. /\ journal' = journal \/ journal' = [journal EXCEPT ![d] = AppendInert(d)]
              /\ stored' = stored /\ head' = head /\ requests' = requests /\ safe' = safe
          BY <3>1 DEF ApplyBatch
        <4>2. JournalsOrdered' BY <1>1, <4>1, OrderedWhenKept, OrderedWhenInert
        <4> QED BY <1>k, <4>1, <4>2
      <3>2. CASE ReplayBatch(s, d) BY <1>j, <3>2 DEF ReplayBatch
      <3>3. CASE BatchFails(s, d) BY <1>j, <3>3 DEF BatchFails
      <3> QED BY <2>4, <3>1, <3>2, <3>3 DEF DeliverBatch
    <2>5. CASE FinishCompaction(s)
      <3>1. PICK j : RetentionPass(s, j, FALSE) BY <2>5, CompactionIsPass
      <3>2. requests' = requests /\ EndPass(s, ~pass[s].failed) BY <2>5 DEF FinishCompaction
      <3>3. PICK b \in BOOLEAN : b = ~pass[s].failed OBVIOUS
      <3>4. safe' = [safe EXCEPT ![s] = b] BY <3>2, <3>3, Zenon DEF EndPass
      <3>5. safe' \in [Nodes -> BOOLEAN] BY <1>1, <3>4, FlagSet
      <3> QED BY <1>p, <3>1, <3>2, <3>5
    <2> QED BY <1>6, <2>1, <2>2, <2>3, <2>4, <2>5 DEF PassStep
  <1>7. ASSUME NEW s \in Journaled, CutStep(s) PROVE TypeInv'
    <2> s \in Nodes BY JournaledNodes
    <2>1. CASE SettlePosition(s)
      <3>1. PICK k : k = journal[s].settled + 1 OBVIOUS
      <3>2. journal' = [journal EXCEPT ![s].settled = k] BY <2>1, <3>1 DEF SettlePosition
      <3>3. TailOf(s) \in Nat /\ journal[s].settled \in Nat BY TailNumber DEF DeliveryInv
      <3>4. k \in journal[s].settled..TailOf(s) BY <2>1, <3>1, <3>3 DEF SettlePosition
      <3>5. JournalsOrdered' BY <1>1, <3>2, <3>4, OrderedWhenSettled
      <3> QED BY <1>k, <2>1, <3>5 DEF SettlePosition
    <2>2. CASE DerivedCheckpoint(s)
      <3>1. PICK j : RetentionPass(s, j, FALSE) BY <2>2, CheckpointIsPass
      <3>2. requests' = requests /\ safe' = safe BY <2>2 DEF DerivedCheckpoint
      <3> QED BY <1>1, <1>p, <3>1, <3>2
    <2> QED BY <1>7, <2>1, <2>2 DEF CutStep
  <1>8. ASSUME NEW n \in Nodes, CollectionStep(n) PROVE TypeInv'
    <2>1. CASE StartCollection(n) BY <1>j, <2>1 DEF StartCollection
    <2>2. ASSUME NEW s \in Journaled, CheckSource(n, s) PROVE TypeInv'
      BY <1>j, <2>2 DEF CheckSource
    <2>3. CASE Collect(n)
      <3>1. /\ journal' = journal \/ journal' = [journal EXCEPT ![n] = AppendInert(n)]
            /\ stored' = stored /\ head' = head /\ requests' = requests /\ safe' = safe
        BY <2>3 DEF Collect
      <3>2. JournalsOrdered' BY <1>1, <3>1, OrderedWhenKept, OrderedWhenInert
      <3> QED BY <1>k, <3>1, <3>2
    <2> QED BY <1>8, <2>1, <2>2, <2>3 DEF CollectionStep
  <1>9. ASSUME NEW n \in Nodes, Restart(n) PROVE TypeInv'
    <2>1. /\ journal' = [journal EXCEPT ![n].referenceSafe = journal[n].floor]
          /\ stored' = stored /\ head' = head /\ requests' = requests
          /\ safe' = [safe EXCEPT ![n] = n \notin Journaled]
      BY <1>9 DEF Restart
    <2>2. JournalsOrdered' BY <1>1, <2>1, OrderedWhenRestarted
    <2>3. safe' \in [Nodes -> BOOLEAN] BY <1>1, <2>1, FlagSet
    <2> QED BY <1>1, <2>1, <2>2, <2>3 DEF TypeInv, HeadsStored
  <1>10. CASE Tick BY <1>j, <1>10 DEF Tick
  <1> QED BY <1>3, <1>4, <1>5, <1>6, <1>7, <1>8, <1>9, <1>10 DEF Next

LEMMA InitTypes ==
    ASSUME Init
    PROVE  TypeInv
  <1>1. PICK p \in Paths, retention \in {"pending", "released"} : Published(p, retention)
    BY DEF Init
  <1>2. PICK v : v = [path |-> p, id |-> 1, put |-> TRUE, retention |-> retention] OBVIOUS
  <1>3. stored = {v} /\ head = [q \in Paths |-> IF q = p THEN 1 ELSE 0] BY <1>1, <1>2 DEF Published
  <1>4. HeadsStored BY <1>2, <1>3 DEF HeadsStored
  <1>5. ASSUME NEW s \in Nodes
        PROVE  \E cut \in Nat : /\ journal[s].floor = 0 /\ Len(journal[s].log) = cut
                                /\ journal[s].settled = cut /\ journal[s].derived = cut
    <2>1. PICK g : g = IF retention = "pending" THEN <<Record(1, p, 1)>> ELSE <<>> OBVIOUS
    <2>2. Len(g) \in Nat
      <3>1. CASE retention = "pending" BY <2>1, <3>1
      <3>2. CASE retention # "pending" BY <2>1, <3>2
      <3> QED BY <3>1, <3>2
    <2>3. CASE s = Coordinator[p]
      <3>1. journal[s] = [log |-> g, floor |-> 0, settled |-> Len(g),
                          referenceSafe |-> Len(g), derived |-> Len(g)]
        BY <1>1, <2>1, <2>3 DEF Published
      <3> QED BY <2>2, <3>1
    <2>4. CASE s # Coordinator[p]
      <3>1. journal[s] = EmptyJournal BY <1>1, <2>4 DEF Published
      <3> QED BY <3>1 DEF EmptyJournal
    <2> QED BY <2>3, <2>4
  <1>6. JournalsOrdered
    <2> SUFFICES ASSUME NEW s \in Nodes PROVE Ordered(s) BY DEF JournalsOrdered
    <2>1. PICK cut \in Nat : /\ journal[s].floor = 0 /\ Len(journal[s].log) = cut
                             /\ journal[s].settled = cut /\ journal[s].derived = cut
      BY <1>5
    <2> QED BY <2>1 DEF Ordered, TailOf
  <1>7. requests <= MaxRequests + 1 BY GraceAssumption DEF Init
  <1>8. safe \in [Nodes -> BOOLEAN] BY DEF Init
  <1> QED BY <1>4, <1>6, <1>7, <1>8 DEF TypeInv

LEMMA LogTyped ==
    ASSUME DeliveryInv, CountInv, TypeInv, NEW s \in Nodes
    PROVE  journal[s].log \in Seq([id : 0..(MaxRequests + 1), path : Paths \cup {"-"}, delta : -1..1])
  <1> DEFINE E == [id : 0..(MaxRequests + 1), path : Paths \cup {"-"}, delta : -1..1]
  <1>0. PICK S : journal[s].log \in Seq(S) BY TailNumber DEF DeliveryInv
  <1>1. PICK g \in Seq(S) : g = journal[s].log BY <1>0
  <1>2. Len(g) \in Nat /\ journal[s].floor \in Nat BY <1>1, TailNumber DEF DeliveryInv
  <1>3. ASSUME NEW i \in 1..Len(g) PROVE g[i] \in E
    <2>1. PICK o \in Nat : o = journal[s].floor + i BY <1>2
    <2>2. o \in (journal[s].floor + 1)..TailOf(s) /\ o - journal[s].floor = i
      BY <1>1, <1>2, <2>1 DEF TailOf
    <2>3. At(s, o) = g[i] BY <1>1, <2>2 DEF At
    <2>4. At(s, o) \in EventRecord /\ At(s, o).id <= requests BY DEF CountInv, Typed, IdsOK
    <2>5. /\ requests \in Nat /\ requests <= MaxRequests + 1 /\ MaxRequests \in Nat
      BY GraceAssumption DEF TypeInv, CountInv, Typed
    <2>6. At(s, o).id \in 0..(MaxRequests + 1) BY <2>4, <2>5 DEF EventRecord
    <2> QED BY <2>3, <2>4, <2>6 DEF EventRecord
  <1> HIDE DEF E
  <1>4. g \in [1..Len(g) -> E] BY <1>3
  <1>5. g \in Seq(E) BY <1>2, <1>4
  <1> QED BY <1>1, <1>5 DEF E

LEMMA RefsBounded ==
    ASSUME DeliveryInv, CountInv, TypeInv, NEW n \in Nodes
    PROVE  life[n].refs \in 0..(MaxRequests + 1)
  <1>1. life[n] \in CopyRecord /\ CopyOK(life[n]) /\ (n \notin Owners => Counted(life[n]) = 0)
    BY DEF CountInv, LifeOK
  <1>2. life[n].refs \in Nat BY <1>1 DEF CopyRecord
  <1>3. MaxRequests \in Nat /\ requests \in Nat /\ requests <= MaxRequests + 1
    BY GraceAssumption DEF TypeInv, CountInv, Typed
  <1>4. CASE life[n].awaiting BY <1>1, <1>3, <1>4 DEF CopyOK
  <1>5. CASE ~life[n].awaiting
    <2>1. Counted(life[n]) = life[n].refs BY <1>5 DEF Counted
    <2>2. CASE n \notin Owners BY <1>1, <1>3, <2>1, <2>2
    <2>3. CASE n \in Owners
      <3>1. PICK a \in Nat, r \in Nat, v \in Nat, w \in Nat :
              /\ a = Cardinality(Acquiring(n)) /\ r = Cardinality(Releasing(n))
              /\ v = Cardinality(Puts) /\ w = Cardinality(OpenPuts)
        BY FiniteCounts DEF DeliveryInv, CountInv
      <3>2. life[n].refs + a - r = v BY <2>1, <2>3, <3>1 DEF CountInv, Conserved
      <3>3. v + r + w <= requests BY <2>3, <3>1 DEF CountInv, Budget
      <3> QED BY <1>2, <1>3, <3>2, <3>3
    <2> QED BY <2>2, <2>3
  <1> QED BY <1>4, <1>5

LEMMA TypesFollow ==
    ASSUME DeliveryInv, CountInv, BytesInv, TypeInv
    PROVE  TypeOK
  <1>1. ASSUME NEW s \in Nodes
        PROVE  /\ journal[s].log \in Seq([id : 0..(MaxRequests + 1), path : Paths \cup {"-"}, delta : -1..1])
               /\ 0 <= journal[s].floor
               /\ journal[s].floor <= journal[s].derived
               /\ journal[s].derived <= journal[s].settled
               /\ journal[s].settled <= TailOf(s)
               /\ journal[s].referenceSafe \in 0..TailOf(s)
    <2>1. journal[s].floor \in Nat /\ journal[s].referenceSafe \in Nat /\ TailOf(s) \in Nat
      BY TailNumber DEF DeliveryInv
    <2>2. /\ journal[s].floor <= journal[s].derived
          /\ journal[s].derived <= journal[s].settled
          /\ journal[s].settled <= TailOf(s)
      BY DEF TypeInv, JournalsOrdered, Ordered
    <2>3. journal[s].referenceSafe <= cursor[s][s] /\ cursor[s][s] <= TailOf(s) /\ cursor[s][s] \in Nat
      BY DEF DeliveryInv, CutsOK, Shaped
    <2>4. journal[s].referenceSafe \in 0..TailOf(s) /\ 0 <= journal[s].floor BY <2>1, <2>3
    <2> QED BY <2>2, <2>4, LogTyped
  <1>2. cursor \in [Nodes -> [Nodes -> Nat]] BY DEF DeliveryInv, Shaped
  <1>3. ASSUME NEW n \in Nodes
        PROVE  /\ life[n] \in [held : BOOLEAN, refs : 0..(MaxRequests + 1), awaiting : BOOLEAN, age : 0..Ttl]
               /\ life[n].awaiting => life[n].refs = 1
    <2>1. life[n] \in CopyRecord /\ CopyOK(life[n]) BY DEF CountInv, LifeOK
    <2>2. PICK i \in 0..(MaxRequests + 1) : i = life[n].refs BY RefsBounded
    <2>3. life[n] = [held |-> life[n].held, refs |-> i, awaiting |-> life[n].awaiting, age |-> life[n].age]
      BY <2>1, <2>2 DEF CopyRecord
    <2>4. life[n].held \in BOOLEAN /\ life[n].awaiting \in BOOLEAN /\ life[n].age \in 0..Ttl
      BY <2>1 DEF CopyRecord
    <2>5. life[n] \in [held : BOOLEAN, refs : 0..(MaxRequests + 1), awaiting : BOOLEAN, age : 0..Ttl]
      BY <2>3, <2>4
    <2> QED BY <2>1, <2>5 DEF CopyOK
  <1>4. stored \subseteq [path : Paths, id : 1..(MaxRequests + 1), put : BOOLEAN,
                          retention : {"pending", "released"}]
    <2> SUFFICES ASSUME NEW v \in stored
                 PROVE  v \in [path : Paths, id : 1..(MaxRequests + 1), put : BOOLEAN,
                               retention : {"pending", "released"}]
      OBVIOUS
    <2>1. v \in VersionRecord /\ v.id <= requests BY DEF CountInv, Typed, IdsOK
    <2>2. /\ requests \in Nat /\ requests <= MaxRequests + 1 /\ MaxRequests \in Nat
      BY GraceAssumption DEF TypeInv, CountInv, Typed
    <2>3. PICK i \in 1..(MaxRequests + 1) : i = v.id BY <2>1, <2>2 DEF VersionRecord
    <2> QED BY <2>1, <2>3 DEF VersionRecord
  <1>5. \A p \in Paths : head[p] # 0 => \E v \in CurrentVersion(p) : v.id = head[p]
    BY DEF TypeInv, HeadsStored, CurrentVersion, IsCurrent
  <1>6. \A p \in Paths : request[p].phase \in {"idle", "ready", "verified", "waiting"}
    BY DEF CountInv, Typed, RequestRecord
  <1>7. \A s \in Nodes : pass[s].phase \in {"idle", "read", "apply"} /\ pass[s].todo \subseteq Nodes
    BY DEF DeliveryInv, Shaped, PassRecord
  <1>8. \A n \in Nodes : gc[n].phase \in {"idle", "checking", "safe"} /\ gc[n].left \subseteq Nodes
    BY DEF BytesInv, GcRecord
  <1>9. safe \in [Nodes -> BOOLEAN] BY DEF TypeInv
  <1> QED BY <1>1, <1>2, <1>3, <1>4, <1>5, <1>6, <1>7, <1>8, <1>9 DEF TypeOK

(* The state keeps its shape for every placement and every number of        *)
(* requests: consumers stay within the settled prefix and retention behind  *)
(* them, a count never exceeds the requests made, a reservation counts as   *)
(* one reference, and the head of a path always names a stored version      *)
(* (stage_checkpointed_source_version_retirement keeps the current one).    *)
THEOREM TypesHold == Spec => []TypeOK
  <1>1. DeliveryInv /\ CountInv /\ BytesInv /\ TypeInv /\ [Next]_vars
            => DeliveryInv' /\ CountInv' /\ BytesInv' /\ TypeInv'
    BY StepDelivery, StepCounts, StepBytes, StepTypes
  <1>2. DeliveryInv /\ CountInv /\ BytesInv /\ TypeInv => TypeOK BY TypesFollow
  <1> QED BY <1>1, <1>2, InitDelivery, InitCounts, InitBytes, InitTypes, PTL DEF Spec

=============================================================================
