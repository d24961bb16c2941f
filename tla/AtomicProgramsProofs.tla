------------------------ MODULE AtomicProgramsProofs ------------------------
(***************************************************************************)
(* AtomicPrograms for every number of paths and programs, and with no      *)
(* bound on the log or on what goes wrong: programs take effect as a whole *)
(* or not at all, and overtake no acknowledged write.                      *)
(***************************************************************************)
EXTENDS AtomicPrograms, FiniteSetTheorems, TLAPS

Operations == {"reserve", "commit", "release", "coordinate", "apply"}
Publications == {"coordinate", "apply"}
Phases == {"stage", "abandon", "reserve", "decide", "commit", "finalize", "through",
           "release", "abort", "releaseAborted"}

Decision == [begin : Nat, commit : Nat, executor : Nodes, nomination : Nat]
DecisionState ==
    [executor : Nodes \cup {None}, nomination : Nat, preparing : Nat,
     decided : SUBSET Decision, finalized : Nat]
BatchRecord == [begin : Nat, invocation : Invocations, observed : [Paths -> Nat]]
VersionRecord == [path : Paths, begin : Nat, pred : Nat, line : SUBSET Nat]
Job ==
    [kind : {"invoke", "recover", "tail"}, phase : Phases, begin : Nat, nomination : Nat,
     commit : Nat, round : Nat, waiting : SUBSET Nodes, acks : Nat, rejections : Nat]
Message ==
    [from : Nodes, to : Nodes, op : Operations, path : Paths, begin : Nat,
     nomination : Nat, commit : Nat, admitted : BOOLEAN, late : BOOLEAN]

(* The types that the argument needs.  Reservations and sweeps do not      *)
(* occur: they protect what a program observed, not its atomicity.         *)
Typed ==
    /\ decisions \in Seq(DecisionState) /\ decisions # << >>
    /\ applied \in [Nodes -> Nat]
    /\ \A n \in Nodes : applied[n] < Len(decisions)
    /\ batches \in SUBSET BatchRecord
    /\ versions \in Seq(VersionRecord)
    /\ head \in [Nodes -> [Paths -> Nat]]
    /\ job \in [Nodes -> Job \cup {Idle}]
    /\ wire \in SUBSET Message
    /\ acked \in SUBSET DOMAIN versions

-----------------------------------------------------------------------------
(* The log: one batch at a time, and an executor that knows all of it.     *)

IsDecided(begin) == \E d \in Current.decided : d.begin = begin
HasDecision(begin, commit) == \E d \in Current.decided : d.begin = begin /\ d.commit = commit
HasBatch(begin) == \E b \in batches : b.begin = begin

LogOK ==
    /\ \A b \in batches : b.begin # 0 /\ b.begin < Len(decisions)
    /\ \A a, b \in batches : a.begin = b.begin => a = b
    /\ \A k \in 1..Len(decisions) :
         /\ decisions[k].decided \subseteq Current.decided
         /\ decisions[k].preparing # 0 => HasBatch(decisions[k].preparing)
         /\ decisions[k].nomination < Len(decisions)
    /\ \A d \in Current.decided :
         /\ d.commit # 0 /\ d.commit < Len(decisions)
         /\ d.begin # Current.preparing /\ HasBatch(d.begin)
    /\ Current.finalized < Len(decisions)
    /\ \A d, e \in Unfinalized(Current) : d = e
    /\ Current.preparing # 0 => Unfinalized(Current) = {}
    /\ \A n \in Nodes : Current.executor = n => applied[n] = Len(decisions) - 1

-----------------------------------------------------------------------------
(* Versions.  Heads only move to a successor, so lines only grow.          *)

HomeHead(p) == head[CoordinatorOf[p]][p]

Settled(w) == w = 0 \/ versions[w].begin = 0 \/ IsDecided(versions[w].begin)

VersionOK(v) ==
    /\ versions[v].pred < v
    /\ versions[v].pred # 0 => versions[versions[v].pred].path = versions[v].path
    /\ versions[v].line = Line(versions[v].pred) \cup {v}
    /\ versions[v].line \subseteq 0..v
    /\ \A w \in Line(versions[v].pred) : Settled(w)
    /\ versions[v].pred <= HomeHead(versions[v].path)
    /\ versions[v].begin = 0 => v \in Line(HomeHead(versions[v].path))
    /\ versions[v].begin # 0 =>
         \E b \in batches : /\ b.begin = versions[v].begin
                            /\ versions[v].path \in Writes(b.invocation)
                            /\ versions[v].pred = b.observed[versions[v].path]

(* v is what batch begin prepared for path p. *)
IsPrepared(v, begin, p) == versions[v].begin = begin /\ versions[v].path = p

VersionsOK ==
    /\ \A v \in DOMAIN versions : VersionOK(v)
    /\ \A v, w \in DOMAIN versions :
         versions[v].begin # 0 /\ IsPrepared(w, versions[v].begin, versions[v].path) => v = w
    /\ \A b \in batches : \A p \in Writes(b.invocation) :
         \E v \in DOMAIN versions : IsPrepared(v, b.begin, p)

HeadOK(n, p) ==
    /\ head[n][p] <= Len(versions)
    /\ head[n][p] # 0 => versions[head[n][p]].path = p
    /\ \A w \in Line(head[n][p]) : Settled(w)

HeadsOK == \A n \in Nodes, p \in Paths : HeadOK(n, p)

(* The authority of the path has passed the place of w without taking it.  *)
Bypassed(w) ==
    /\ versions[w].pred < HomeHead(versions[w].path)
    /\ w \notin Line(HomeHead(versions[w].path))

Aborted(w) ==
    /\ versions[w].begin # 0 /\ versions[w].begin # Current.preparing
    /\ ~IsDecided(versions[w].begin)

(* A later version succeeds an earlier one of its path, unless that one is *)
(* nowhere and will never be.                                              *)
OneLine ==
    \A w, u \in DOMAIN versions :
        w < u /\ versions[w].path = versions[u].path =>
            w \in versions[u].line \/ Bypassed(w) \/ Aborted(w)

-----------------------------------------------------------------------------
(* Publication. *)

Reached(begin, p) ==
    \A v \in DOMAIN versions : IsPrepared(v, begin, p) => v \in Line(HomeHead(p))

Published(begin, p) ==
    /\ Reached(begin, p)
    /\ \A v \in DOMAIN versions : IsPrepared(v, begin, p) => Cardinality(Holders(v)) >= Required

AllPublished(b) == \A p \in Writes(b.invocation) : Published(b.begin, p)

FinalOK ==
    \A d \in Current.decided \ Unfinalized(Current) :
        \A b \in batches : b.begin = d.begin => AllPublished(b)

AckedOK == \A v \in acked : versions[v].begin = 0 /\ Cardinality(Holders(v)) >= Required

(* The replicas of S that hold what batch begin wrote to p.                *)
Have(begin, p, S) ==
    {r \in S : \A v \in DOMAIN versions : IsPrepared(v, begin, p) => v \in Line(head[r][p])}

RoundsOf(i, phase) ==
    CASE phase = "reserve"  -> EveryReplica("reserve", i)
      [] phase = "commit"   -> EveryReplica("commit", i)
      [] phase = "finalize" -> Finalizing(i)
      [] phase \in {"release", "releaseAborted"} -> EveryReplica("release", i)
      [] OTHER -> << >>

(* How far the publication of a batch has come: the paths of the rounds    *)
(* before this one are published.                                          *)
Progress(j, i) ==
    /\ \A k \in 1..Len(Written[i]) :
         /\ 2 * k < j.round => Published(j.begin, Written[i][k])
         /\ 2 * k = j.round => Reached(j.begin, Written[i][k])

(* The answers counted in this round come from replicas that hold it.      *)
Counted(j, i) ==
    j.acks <= Cardinality(Have(j.begin, RoundsOf(i, "finalize")[j.round].path,
                               RoundsOf(i, "finalize")[j.round].to \ j.waiting))

CommitKnown(j) ==
    /\ j.commit # 0 => HasDecision(j.begin, j.commit)
    /\ j.kind = "tail" \/ j.phase \in {"commit", "finalize", "through"} => j.commit # 0

(* A job about to send its round. *)
ReadyFor(j, b) ==
    /\ b.begin = j.begin
    /\ CommitKnown(j)
    /\ RoundsOf(b.invocation, j.phase) # << >> => j.round \in DOMAIN RoundsOf(b.invocation, j.phase)
    /\ j.phase = "finalize" => Progress(j, b.invocation)
    /\ j.phase = "through" => AllPublished(b)

JobFits(j, b) ==
    /\ ReadyFor(j, b)
    /\ RoundsOf(b.invocation, j.phase) = << >> => j.waiting = {}
    /\ RoundsOf(b.invocation, j.phase) # << >> =>
         j.waiting \subseteq RoundsOf(b.invocation, j.phase)[j.round].to
    /\ j.phase = "finalize" => Counted(j, b.invocation)

JobsOK == \A n \in Nodes : job[n] # Idle => \E b \in batches : JobFits(job[n], b)

(* While the executor that started a job holds its nomination, nobody else *)
(* finalizes anything.                                                     *)
InTenure(n, j) ==
    /\ j.nomination < Len(decisions)
    /\ Current.executor = n /\ j.nomination = Current.nomination /\ j.commit # 0 =>
         Current.finalized <= j.commit

Tenure == \A n \in Nodes : job[n] # Idle => InTenure(n, job[n])

(* A request whose sender still waits is one of its current round.         *)
OfRound(q, j, b) ==
    /\ b.begin = j.begin /\ q.begin = j.begin /\ q.commit = j.commit
    /\ RoundsOf(b.invocation, j.phase) # << >>
    /\ q.op = RoundsOf(b.invocation, j.phase)[j.round].op
    /\ q.path = RoundsOf(b.invocation, j.phase)[j.round].path
    /\ q.to \in j.waiting /\ q.to # q.from
    /\ q.nomination = j.nomination /\ ~q.admitted

RequestOK(q) ==
    /\ q.commit # 0 => HasDecision(q.begin, q.commit)
    /\ \E b \in batches : /\ b.begin = q.begin
                          /\ q.op \in Publications => q.path \in Writes(b.invocation)

WireOK ==
    /\ \A q \in wire : RequestOK(q)
    /\ \A q \in wire : ~q.late => /\ job[q.from] # Idle
                                  /\ \E b \in batches : OfRound(q, job[q.from], b)

(* The inductive invariant. *)
ProgramInv ==
    /\ Typed /\ LogOK
    /\ VersionsOK /\ HeadsOK /\ OneLine
    /\ FinalOK /\ AckedOK /\ JobsOK /\ Tenure /\ WireOK

-----------------------------------------------------------------------------
(* Batches and rounds. *)

LEMMA BatchIs ==
    ASSUME LogOK, NEW b \in batches
    PROVE  Batch(b.begin) = b
  <1>1. \A a \in batches : a.begin = b.begin => a = b BY DEF LogOK
  <1> QED BY <1>1 DEF Batch

LEMMA RoundsAre ==
    ASSUME NEW j
    PROVE  Rounds(j) = RoundsOf(Batch(j.begin).invocation, j.phase)
  BY Zenon DEF Rounds, RoundsOf

LEMMA WrittenShape ==
    ASSUME NEW i \in Invocations
    PROVE  /\ Participants[i] \in Seq(Paths) /\ Written[i] \in Seq(Paths)
           /\ Len(Participants[i]) \in Nat /\ Len(Written[i]) \in Nat
           /\ DOMAIN Participants[i] = 1..Len(Participants[i])
           /\ DOMAIN Written[i] = 1..Len(Written[i])
           /\ \A k \in 1..Len(Participants[i]) : Participants[i][k] \in Paths
           /\ \A k \in 1..Len(Written[i]) : Written[i][k] \in Paths /\ Written[i][k] \in Writes(i)
           /\ \A p \in Writes(i) : \E k \in 1..Len(Written[i]) : p = Written[i][k]
           /\ \A k, l \in 1..Len(Written[i]) : Written[i][k] = Written[i][l] => k = l
  <1>1. Participants \in [Invocations -> Seq(Paths)] /\ Written \in [Invocations -> Seq(Paths)]
    BY ProgramConstants
  <1>2. Participants[i] \in Seq(Paths) /\ Written[i] \in Seq(Paths) BY <1>1
  <1>3. IsInjective(Written[i]) BY ProgramConstants
  <1>4. /\ Len(Participants[i]) \in Nat /\ Len(Written[i]) \in Nat
        /\ DOMAIN Participants[i] = 1..Len(Participants[i])
        /\ DOMAIN Written[i] = 1..Len(Written[i])
    BY <1>2
  <1>5. \A k \in 1..Len(Participants[i]) : Participants[i][k] \in Paths BY <1>2
  <1>6. \A k \in 1..Len(Written[i]) : Written[i][k] \in Paths BY <1>2
  <1>7. \A k \in 1..Len(Written[i]) : Written[i][k] \in Writes(i) BY <1>4 DEF Writes, Range
  <1>8. \A p \in Writes(i) : \E k \in 1..Len(Written[i]) : p = Written[i][k] BY <1>4 DEF Writes, Range
  <1>9. \A k, l \in 1..Len(Written[i]) : Written[i][k] = Written[i][l] => k = l
    BY <1>3, <1>4 DEF IsInjective
  <1> QED BY <1>2, <1>4, <1>5, <1>6, <1>7, <1>8, <1>9

(* The rounds of an operation on every participant.                        *)
LEMMA EveryReplicaShape ==
    ASSUME NEW i \in Invocations, NEW op
    PROVE  /\ DOMAIN EveryReplica(op, i) = 1..Len(EveryReplica(op, i))
           /\ Len(EveryReplica(op, i)) \in Nat
           /\ \A k \in DOMAIN EveryReplica(op, i) :
                /\ EveryReplica(op, i)[k].op = op
                /\ EveryReplica(op, i)[k].path \in Paths
                /\ EveryReplica(op, i)[k].to = Nodes
  <1> DEFINE m == Len(Participants[i])
             f == [k \in 1..m |-> [op |-> op, path |-> Participants[i][k], to |-> Nodes]]
  <1>1. m \in Nat /\ DOMAIN Participants[i] = 1..m /\ \A k \in 1..m : Participants[i][k] \in Paths
    BY WrittenShape
  <1>2. EveryReplica(op, i) = f BY <1>1 DEF EveryReplica
  <1> HIDE DEF m
  <1>3. Len(f) = m /\ DOMAIN f = 1..m BY <1>1
  <1>4. \A k \in 1..m : f[k].op = op /\ f[k].path = Participants[i][k] /\ f[k].to = Nodes OBVIOUS
  <1> QED BY <1>1, <1>2, <1>3, <1>4

(* The rounds of a publication: two for each path it writes.               *)
LEMMA FinalizingShape ==
    ASSUME NEW i \in Invocations
    PROVE  /\ Len(Finalizing(i)) = 2 * Len(Written[i])
           /\ DOMAIN Finalizing(i) = 1..(2 * Len(Written[i]))
           /\ \A k \in 1..Len(Written[i]) :
                /\ Finalizing(i)[2 * k - 1] = [op |-> "coordinate", path |-> Written[i][k],
                                               to |-> {CoordinatorOf[Written[i][k]]}]
                /\ Finalizing(i)[2 * k] = [op |-> "apply", path |-> Written[i][k],
                                           to |-> Nodes \ {CoordinatorOf[Written[i][k]]}]
           /\ \A k \in DOMAIN Finalizing(i) :
                \E l \in 1..Len(Written[i]) : k = 2 * l - 1 \/ k = 2 * l
  <1> DEFINE m == Len(Written[i])
             g(k) == LET p == Written[i][(k + 1) \div 2]
                     IN  IF k % 2 = 1
                         THEN [op |-> "coordinate", path |-> p, to |-> {CoordinatorOf[p]}]
                         ELSE [op |-> "apply", path |-> p, to |-> Nodes \ {CoordinatorOf[p]}]
             f == [k \in 1..(2 * m) |-> g(k)]
  <1>1. m \in Nat BY WrittenShape
  <1>2. Finalizing(i) = f BY DEF Finalizing
  <1>3. ASSUME NEW k \in 1..m
        PROVE  /\ 2 * k - 1 \in 1..(2 * m) /\ 2 * k \in 1..(2 * m)
               /\ (2 * k - 1 + 1) \div 2 = k /\ (2 * k + 1) \div 2 = k
               /\ (2 * k - 1) % 2 = 1 /\ (2 * k) % 2 = 0
    <2> HIDE DEF m
    <2> QED BY <1>1
  <1>4. ASSUME NEW k \in 1..m
        PROVE  /\ g(2 * k - 1) = [op |-> "coordinate", path |-> Written[i][k],
                                  to |-> {CoordinatorOf[Written[i][k]]}]
               /\ g(2 * k) = [op |-> "apply", path |-> Written[i][k],
                              to |-> Nodes \ {CoordinatorOf[Written[i][k]]}]
    <2>1. ASSUME NEW l, (l + 1) \div 2 = k, l % 2 = 1
          PROVE  g(l) = [op |-> "coordinate", path |-> Written[i][k],
                         to |-> {CoordinatorOf[Written[i][k]]}]
      BY <2>1
    <2>2. ASSUME NEW l, (l + 1) \div 2 = k, ~(l % 2 = 1)
          PROVE  g(l) = [op |-> "apply", path |-> Written[i][k],
                         to |-> Nodes \ {CoordinatorOf[Written[i][k]]}]
      BY <2>2, Zenon
    <2>3. ~((2 * k) % 2 = 1) BY <1>3
    <2> HIDE DEF g
    <2> QED BY <1>3, <2>1, <2>2, <2>3
  <1>5. \A k \in 1..(2 * m) : \E l \in 1..m : k = 2 * l - 1 \/ k = 2 * l
    <2> SUFFICES ASSUME NEW k \in 1..(2 * m) PROVE \E l \in 1..m : k = 2 * l - 1 \/ k = 2 * l
      OBVIOUS
    <2> HIDE DEF m
    <2>1. (k + 1) \div 2 \in 1..m /\ (k = 2 * ((k + 1) \div 2) - 1 \/ k = 2 * ((k + 1) \div 2))
      BY <1>1
    <2> QED BY <2>1
  <1> HIDE DEF m, g
  <1>6. Len(f) = 2 * m /\ DOMAIN f = 1..(2 * m)
    <2>1. PICK c \in Nat : c = 2 * m BY <1>1
    <2> QED BY <2>1
  <1>7. \A k \in 1..m : f[2 * k - 1] = g(2 * k - 1) /\ f[2 * k] = g(2 * k) BY <1>3
  <1> QED BY <1>2, <1>4, <1>5, <1>6, <1>7 DEF m

RoundRecord == [op : Operations, path : Paths, to : SUBSET Nodes]

LEMMA RoundShape ==
    ASSUME NEW i \in Invocations, NEW phase \in Phases
    PROVE  /\ RoundsOf(i, phase) \in Seq(RoundRecord)
           /\ \A k \in DOMAIN RoundsOf(i, phase) :
                RoundsOf(i, phase)[k].op \in Publications => RoundsOf(i, phase)[k].path \in Writes(i)
  <1>1. ASSUME NEW op \in Operations \ Publications
        PROVE  /\ EveryReplica(op, i) \in Seq(RoundRecord)
               /\ \A k \in DOMAIN EveryReplica(op, i) :
                    EveryReplica(op, i)[k].op \in Publications => EveryReplica(op, i)[k].path \in Writes(i)
    <2> DEFINE m == Len(Participants[i])
    <2>1. m \in Nat /\ DOMAIN Participants[i] = 1..m /\ \A k \in 1..m : Participants[i][k] \in Paths
      BY WrittenShape
    <2>2. EveryReplica(op, i) = [k \in 1..m |-> [op |-> op, path |-> Participants[i][k], to |-> Nodes]]
      BY <2>1 DEF EveryReplica
    <2> HIDE DEF m
    <2>3. op \in Operations OBVIOUS
    <2>4. \A k \in 1..m : [op |-> op, path |-> Participants[i][k], to |-> Nodes] \in RoundRecord
      BY <2>1, <2>3 DEF RoundRecord
    <2>5. EveryReplica(op, i) \in [1..m -> RoundRecord] BY <2>2, <2>4
    <2>6. EveryReplica(op, i) \in Seq(RoundRecord) BY <2>1, <2>5
    <2>7. \A k \in DOMAIN EveryReplica(op, i) : EveryReplica(op, i)[k].op = op BY EveryReplicaShape
    <2> QED BY <2>6, <2>7
  <1>2. /\ Finalizing(i) \in Seq(RoundRecord)
        /\ \A k \in DOMAIN Finalizing(i) : Finalizing(i)[k].path \in Writes(i)
    <2> DEFINE m == Len(Written[i])
    <2>1. m \in Nat /\ \A l \in 1..m : Written[i][l] \in Paths /\ Written[i][l] \in Writes(i)
      BY WrittenShape
    <2>2. \A l \in 1..m : CoordinatorOf[Written[i][l]] \in Nodes BY <2>1, ProgramConstants
    <2>3. ASSUME NEW k \in 1..(2 * m)
          PROVE  Finalizing(i)[k] \in RoundRecord /\ Finalizing(i)[k].path \in Writes(i)
      <3>1. PICK l \in 1..m : k = 2 * l - 1 \/ k = 2 * l BY FinalizingShape
      <3>2. CASE k = 2 * l - 1
        <4>1. Finalizing(i)[k] = [op |-> "coordinate", path |-> Written[i][l],
                                  to |-> {CoordinatorOf[Written[i][l]]}]
          BY <3>2, FinalizingShape
        <4> QED BY <2>1, <2>2, <4>1 DEF RoundRecord, Operations
      <3>3. CASE k = 2 * l
        <4>1. Finalizing(i)[k] = [op |-> "apply", path |-> Written[i][l],
                                  to |-> Nodes \ {CoordinatorOf[Written[i][l]]}]
          BY <3>3, FinalizingShape
        <4> QED BY <2>1, <4>1 DEF RoundRecord, Operations
      <3> QED BY <3>1, <3>2, <3>3
    <2>4. DOMAIN Finalizing(i) = 1..(2 * m) BY FinalizingShape
    <2>5. \E g : Finalizing(i) = [k \in 1..(2 * m) |-> g[k]]
      <3>1. Finalizing(i) = [k \in 1..(2 * m) |-> Finalizing(i)[k]]
        BY DEF Finalizing
      <3> QED BY <3>1
    <2> HIDE DEF m
    <2>6. Finalizing(i) \in [1..(2 * m) -> RoundRecord] BY <2>3, <2>4, <2>5
    <2>7. PICK c \in Nat : c = 2 * m BY <2>1
    <2>8. Finalizing(i) \in Seq(RoundRecord) BY <2>6, <2>7
    <2> QED BY <2>3, <2>4, <2>8
  <1>3. << >> \in Seq(RoundRecord) /\ DOMAIN << >> = {} OBVIOUS
  <1>4. {"reserve", "commit", "release"} \subseteq Operations \ Publications
    BY DEF Operations, Publications
  <1>5. CASE phase = "reserve"
    <2>1. RoundsOf(i, phase) = EveryReplica("reserve", i) BY <1>5 DEF RoundsOf
    <2> QED BY <1>1, <1>4, <2>1
  <1>6. CASE phase = "commit"
    <2>1. RoundsOf(i, phase) = EveryReplica("commit", i) BY <1>6 DEF RoundsOf
    <2> QED BY <1>1, <1>4, <2>1
  <1>7. CASE phase = "finalize"
    <2>1. RoundsOf(i, phase) = Finalizing(i) BY <1>7 DEF RoundsOf
    <2> QED BY <1>2, <2>1
  <1>8. CASE phase \in {"release", "releaseAborted"}
    <2>1. RoundsOf(i, phase) = EveryReplica("release", i) BY <1>8 DEF RoundsOf
    <2> QED BY <1>1, <1>4, <2>1
  <1>9. CASE phase \notin {"reserve", "commit", "finalize", "release", "releaseAborted"}
    <2>1. RoundsOf(i, phase) = << >> BY <1>9 DEF RoundsOf
    <2> QED BY <1>3, <2>1
  <1> QED BY <1>5, <1>6, <1>7, <1>8, <1>9

(* The first round exists when there is one, and so does the next one.     *)
LEMMA RoundExists ==
    ASSUME NEW i \in Invocations, NEW phase \in Phases
    PROVE  /\ Len(RoundsOf(i, phase)) \in Nat
           /\ DOMAIN RoundsOf(i, phase) = 1..Len(RoundsOf(i, phase))
           /\ RoundsOf(i, phase) # << >> => 1 \in DOMAIN RoundsOf(i, phase)
           /\ \A k \in DOMAIN RoundsOf(i, phase) :
                /\ RoundsOf(i, phase)[k].op \in Operations
                /\ RoundsOf(i, phase)[k].path \in Paths
                /\ RoundsOf(i, phase)[k].to \subseteq Nodes
                /\ RoundsOf(i, phase)[k].op \in Publications => RoundsOf(i, phase)[k].path \in Writes(i)
  <1>1. PICK R \in Seq(RoundRecord) : R = RoundsOf(i, phase) BY RoundShape
  <1>2. Len(R) \in Nat /\ DOMAIN R = 1..Len(R) /\ (R # << >> => 1 \in DOMAIN R) OBVIOUS
  <1>3. \A k \in DOMAIN R : R[k] \in RoundRecord OBVIOUS
  <1>4. \A k \in DOMAIN R : R[k].op \in Operations /\ R[k].path \in Paths /\ R[k].to \subseteq Nodes
    BY <1>3 DEF RoundRecord
  <1> QED BY <1>1, <1>2, <1>4, RoundShape

-----------------------------------------------------------------------------
(* What every step keeps: decisions, batches and versions stay, what is    *)
(* added is new, and replicas only move forward.                           *)

Grows ==
    /\ Current.decided \subseteq Current'.decided
    /\ batches \subseteq batches'
    /\ \A v \in DOMAIN versions : v \in DOMAIN versions' /\ versions'[v] = versions[v]
    /\ \A v \in DOMAIN versions' \ DOMAIN versions :
         versions'[v].begin = 0 \/ ~HasBatch(versions'[v].begin)
    /\ \A n \in Nodes, p \in Paths : Line(head[n][p]) \subseteq Line(head[n][p])'

LEMMA HomeNode == \A p \in Paths : CoordinatorOf[p] \in Nodes
  BY ProgramConstants

LEMMA VersionTyped ==
    ASSUME Typed, NEW v \in DOMAIN versions
    PROVE  /\ versions[v].path \in Paths /\ versions[v].begin \in Nat /\ versions[v].pred \in Nat
           /\ v \in Nat /\ v # 0 /\ v <= Len(versions) /\ Len(versions) \in Nat
           /\ DOMAIN versions = 1..Len(versions)
  <1>1. versions \in Seq(VersionRecord) BY DEF Typed
  <1>2. DOMAIN versions = 1..Len(versions) /\ Len(versions) \in Nat BY <1>1
  <1>3. versions[v] \in VersionRecord BY <1>1
  <1>4. versions[v].path \in Paths /\ versions[v].begin \in Nat /\ versions[v].pred \in Nat
    BY <1>3 DEF VersionRecord
  <1> QED BY <1>2, <1>4

(* A version of a batch that exists is no new one.                         *)
LEMMA PreparedBefore ==
    ASSUME Grows, LogOK, NEW b \in batches, NEW p, NEW v \in DOMAIN versions',
           IsPrepared(v, b.begin, p)'
    PROVE  v \in DOMAIN versions /\ IsPrepared(v, b.begin, p)
  <1>1. versions'[v].begin = b.begin /\ versions'[v].path = p BY DEF IsPrepared
  <1>2. b.begin # 0 /\ HasBatch(b.begin) BY DEF LogOK, HasBatch
  <1>3. v \in DOMAIN versions BY <1>1, <1>2 DEF Grows
  <1> QED BY <1>1, <1>3 DEF Grows, IsPrepared

LEMMA ReachedGrows ==
    ASSUME Grows, LogOK, NEW b \in batches, NEW p \in Paths, Reached(b.begin, p)
    PROVE  Reached(b.begin, p)'
  <1> SUFFICES ASSUME NEW v \in DOMAIN versions', IsPrepared(v, b.begin, p)'
               PROVE  v \in Line(HomeHead(p))'
    BY DEF Reached
  <1>1. v \in DOMAIN versions /\ IsPrepared(v, b.begin, p) BY PreparedBefore
  <1>2. v \in Line(HomeHead(p)) BY <1>1 DEF Reached
  <1>3. CoordinatorOf[p] \in Nodes BY HomeNode
  <1>4. Line(HomeHead(p)) \subseteq Line(HomeHead(p))' BY <1>3 DEF Grows, HomeHead
  <1> QED BY <1>2, <1>4

LEMMA HoldersGrow ==
    ASSUME Grows, Typed, NEW v \in DOMAIN versions
    PROVE  /\ Holders(v) \subseteq Holders(v)'
           /\ Cardinality(Holders(v)) \in Nat /\ Cardinality(Holders(v)') \in Nat
           /\ Cardinality(Holders(v)) <= Cardinality(Holders(v)')
  <1>1. versions[v].path \in Paths BY VersionTyped
  <1>2. versions'[v] = versions[v] BY DEF Grows
  <1>3. Holders(v) \subseteq Holders(v)'
    <2> SUFFICES ASSUME NEW n \in Holders(v) PROVE n \in Holders(v)' OBVIOUS
    <2>1. n \in Nodes /\ v \in Line(head[n][versions[v].path]) BY DEF Holders
    <2>2. PICK p \in Paths : p = versions[v].path BY <1>1
    <2>3. v \in Line(head[n][p])' BY <2>1, <2>2 DEF Grows
    <2>4. versions'[v].path = p BY <1>2, <2>2
    <2> QED BY <2>1, <2>3, <2>4 DEF Holders
  <1>4. IsFiniteSet(Nodes) BY ProgramConstants
  <1>5. Holders(v) \subseteq Nodes /\ Holders(v)' \subseteq Nodes BY DEF Holders
  <1>6. IsFiniteSet(Holders(v)) /\ IsFiniteSet(Holders(v)') BY <1>4, <1>5, FS_Subset
  <1> QED BY <1>3, <1>6, FS_Subset, FS_CardinalityType

LEMMA RequiredNumber == Required \in Nat /\ Required > 0 /\ Cardinality(Nodes) \in Nat
  <1>1. Cardinality(Nodes) \in Nat BY ProgramConstants, FS_CardinalityType
  <1> QED BY <1>1 DEF Required

LEMMA PublishedGrows ==
    ASSUME Grows, Typed, LogOK, NEW b \in batches, NEW p \in Paths, Published(b.begin, p)
    PROVE  Published(b.begin, p)'
  <1>1. Reached(b.begin, p)' BY ReachedGrows DEF Published
  <1>2. ASSUME NEW v \in DOMAIN versions', IsPrepared(v, b.begin, p)'
        PROVE  Cardinality(Holders(v)') >= Required
    <2>1. v \in DOMAIN versions /\ IsPrepared(v, b.begin, p) BY <1>2, PreparedBefore
    <2>2. Cardinality(Holders(v)) >= Required BY <2>1 DEF Published
    <2> QED BY <2>1, <2>2, HoldersGrow, RequiredNumber
  <1>3. \A v \in DOMAIN versions' : IsPrepared(v, b.begin, p)' => Cardinality(Holders(v)') >= Required
    BY <1>2
  <1> QED BY <1>1, <1>3 DEF Published, Required

LEMMA BatchTyped ==
    ASSUME Typed, NEW b \in batches
    PROVE  /\ b.begin \in Nat /\ b.invocation \in Invocations /\ b.observed \in [Paths -> Nat]
           /\ Writes(b.invocation) \subseteq Paths
  <1>1. b \in BatchRecord BY DEF Typed
  <1>2. b.begin \in Nat /\ b.invocation \in Invocations /\ b.observed \in [Paths -> Nat]
    BY <1>1 DEF BatchRecord
  <1>3. PICK i \in Invocations : i = b.invocation BY <1>2
  <1>4. Writes(i) \subseteq Paths BY WrittenShape
  <1> QED BY <1>2, <1>3, <1>4

LEMMA AllPublishedGrows ==
    ASSUME Grows, Typed, LogOK, NEW b \in batches, AllPublished(b)
    PROVE  AllPublished(b)'
  <1> SUFFICES ASSUME NEW p \in Writes(b.invocation) PROVE Published(b.begin, p)'
    BY DEF AllPublished
  <1>1. p \in Paths BY BatchTyped
  <1>2. Published(b.begin, p) BY DEF AllPublished
  <1> QED BY <1>1, <1>2, PublishedGrows

LEMMA HaveGrows ==
    ASSUME Grows, Typed, LogOK, NEW b \in batches, NEW p \in Paths, NEW S \in SUBSET Nodes
    PROVE  /\ Have(b.begin, p, S) \subseteq Have(b.begin, p, S)'
           /\ Cardinality(Have(b.begin, p, S)) \in Nat /\ Cardinality(Have(b.begin, p, S)') \in Nat
           /\ Cardinality(Have(b.begin, p, S)) <= Cardinality(Have(b.begin, p, S)')
  <1>1. Have(b.begin, p, S) \subseteq Have(b.begin, p, S)'
    <2> SUFFICES ASSUME NEW r \in Have(b.begin, p, S) PROVE r \in Have(b.begin, p, S)' OBVIOUS
    <2>1. r \in Nodes /\ r \in S BY DEF Have
    <2>2. ASSUME NEW v \in DOMAIN versions', IsPrepared(v, b.begin, p)'
          PROVE  v \in Line(head[r][p])'
      <3>1. v \in DOMAIN versions /\ IsPrepared(v, b.begin, p) BY <2>2, PreparedBefore
      <3>2. v \in Line(head[r][p]) BY <3>1 DEF Have
      <3> QED BY <2>1, <3>2 DEF Grows
    <2> QED BY <2>1, <2>2 DEF Have
  <1>2. IsFiniteSet(Nodes) BY ProgramConstants
  <1>3. Have(b.begin, p, S) \subseteq Nodes /\ Have(b.begin, p, S)' \subseteq Nodes BY DEF Have
  <1>4. IsFiniteSet(Have(b.begin, p, S)) /\ IsFiniteSet(Have(b.begin, p, S)')
    BY <1>2, <1>3, FS_Subset
  <1> QED BY <1>1, <1>4, FS_Subset, FS_CardinalityType

LEMMA DecisionGrows ==
    ASSUME Grows, NEW begin, NEW commit
    PROVE  /\ HasDecision(begin, commit) => HasDecision(begin, commit)'
           /\ IsDecided(begin) => IsDecided(begin)'
           /\ HasBatch(begin) => HasBatch(begin)'
  BY DEF Grows, HasDecision, IsDecided, HasBatch

LEMMA CommitKnownGrows ==
    ASSUME Grows, NEW j, CommitKnown(j)
    PROVE  CommitKnown(j)'
  BY DecisionGrows DEF CommitKnown

LEMMA ProgressGrows ==
    ASSUME Grows, Typed, LogOK, NEW b \in batches, NEW j, j.begin = b.begin, Progress(j, b.invocation)
    PROVE  Progress(j, b.invocation)'
  <1> DEFINE i == b.invocation
  <1>1. i \in Invocations BY BatchTyped
  <1> SUFFICES ASSUME NEW k \in 1..Len(Written[i])
               PROVE  /\ 2 * k < j.round => Published(b.begin, Written[i][k])'
                      /\ 2 * k = j.round => Reached(b.begin, Written[i][k])'
    BY DEF Progress
  <1>2. Written[i][k] \in Paths BY <1>1, WrittenShape
  <1>3. /\ 2 * k < j.round => Published(b.begin, Written[i][k])
        /\ 2 * k = j.round => Reached(b.begin, Written[i][k])
    BY DEF Progress
  <1> QED BY <1>2, <1>3, PublishedGrows, ReachedGrows

LEMMA ReadyGrows ==
    ASSUME Grows, Typed, LogOK, NEW b \in batches, NEW j, ReadyFor(j, b)
    PROVE  ReadyFor(j, b)'
  <1>1. b.begin = j.begin BY DEF ReadyFor
  <1>2. CommitKnown(j)' BY CommitKnownGrows DEF ReadyFor
  <1>3. j.phase = "finalize" => Progress(j, b.invocation)' BY <1>1, ProgressGrows DEF ReadyFor
  <1>4. j.phase = "through" => AllPublished(b)' BY AllPublishedGrows DEF ReadyFor
  <1> QED BY <1>1, <1>2, <1>3, <1>4 DEF ReadyFor

(* The round a publication is in. *)
LEMMA RoundOf ==
    ASSUME NEW i \in Invocations, NEW j,
           RoundsOf(i, "finalize") # << >> => j.round \in DOMAIN RoundsOf(i, "finalize")
    PROVE  LET R == RoundsOf(i, "finalize") IN
           /\ j.round \in DOMAIN R
           /\ R[j.round].path \in Paths /\ R[j.round].path \in Writes(i)
           /\ R[j.round].to \subseteq Nodes /\ R[j.round].op \in Publications
           /\ \E k \in 1..Len(Written[i]) :
                /\ R[j.round].path = Written[i][k]
                /\ \/ /\ j.round = 2 * k - 1
                      /\ R[j.round].op = "coordinate"
                      /\ R[j.round].to = {CoordinatorOf[R[j.round].path]}
                   \/ /\ j.round = 2 * k
                      /\ R[j.round].op = "apply"
                      /\ R[j.round].to = Nodes \ {CoordinatorOf[R[j.round].path]}
  <1> DEFINE R == RoundsOf(i, "finalize")
  <1>1. i \in Invocations OBVIOUS
  <1>2. R = Finalizing(i) BY DEF RoundsOf
  <1>3. Len(Written[i]) \in Nat /\ Written[i] # << >> /\ Written[i] \in Seq(Paths)
    BY <1>1, WrittenShape, ProgramConstants
  <1>4. Len(Written[i]) > 0 BY <1>3
  <1>5. DOMAIN R = 1..(2 * Len(Written[i])) BY <1>1, <1>2, FinalizingShape
  <1>6. R # << >>
    <2>1. 1 \in DOMAIN R BY <1>3, <1>4, <1>5
    <2>2. DOMAIN << >> = {} OBVIOUS
    <2> QED BY <2>1, <2>2
  <1>7. j.round \in DOMAIN R BY <1>6
  <1>8. PICK k \in 1..Len(Written[i]) : j.round = 2 * k - 1 \/ j.round = 2 * k
    BY <1>1, <1>2, <1>7, FinalizingShape
  <1>9. R[2 * k - 1] = [op |-> "coordinate", path |-> Written[i][k], to |-> {CoordinatorOf[Written[i][k]]}]
    BY <1>1, <1>2, FinalizingShape
  <1>10. R[2 * k] = [op |-> "apply", path |-> Written[i][k],
                     to |-> Nodes \ {CoordinatorOf[Written[i][k]]}]
    BY <1>1, <1>2, FinalizingShape
  <1>11. Written[i][k] \in Paths /\ Written[i][k] \in Writes(i) BY <1>1, WrittenShape
  <1>12. CoordinatorOf[Written[i][k]] \in Nodes BY <1>11, HomeNode
  <1> HIDE DEF R
  <1>13. CASE j.round = 2 * k - 1
    <2>1. /\ R[j.round].path = Written[i][k] /\ R[j.round].op = "coordinate"
          /\ R[j.round].to = {CoordinatorOf[Written[i][k]]}
      BY <1>9, <1>13
    <2> QED BY <1>7, <1>11, <1>12, <1>13, <2>1 DEF R, Publications
  <1>14. CASE j.round = 2 * k
    <2>1. /\ R[j.round].path = Written[i][k] /\ R[j.round].op = "apply"
          /\ R[j.round].to = Nodes \ {CoordinatorOf[Written[i][k]]}
      BY <1>10, <1>14
    <2> QED BY <1>7, <1>11, <1>14, <2>1 DEF R, Publications
  <1> QED BY <1>8, <1>13, <1>14

LEMMA JobGrows ==
    ASSUME Grows, Typed, LogOK, NEW b \in batches, NEW j \in Job, JobFits(j, b)
    PROVE  JobFits(j, b)'
  <1>1. ReadyFor(j, b) BY DEF JobFits
  <1>2. ReadyFor(j, b)' BY <1>1, ReadyGrows
  <1>3. ASSUME j.phase = "finalize" PROVE Counted(j, b.invocation)'
    <2> DEFINE R == RoundsOf(b.invocation, "finalize")
               p == R[j.round].path
               S == R[j.round].to \ j.waiting
    <2>0. b.invocation \in Invocations BY BatchTyped
    <2>1. p \in Paths /\ S \in SUBSET Nodes BY <1>1, <1>3, <2>0, RoundOf DEF ReadyFor
    <2>2. j.acks <= Cardinality(Have(b.begin, p, S))
      BY <1>1, <1>3 DEF JobFits, Counted, ReadyFor
    <2>3. j.acks \in Nat BY DEF Job
    <2> HIDE DEF p, S
    <2>4. j.acks <= Cardinality(Have(b.begin, p, S)') BY <2>1, <2>2, <2>3, HaveGrows
    <2>5. j.begin = b.begin BY <1>1 DEF ReadyFor
    <2> QED BY <2>4, <2>5 DEF Counted, p, S
  <1>4. /\ RoundsOf(b.invocation, j.phase) = << >> => j.waiting = {}
        /\ RoundsOf(b.invocation, j.phase) # << >> =>
             j.waiting \subseteq RoundsOf(b.invocation, j.phase)[j.round].to
    BY DEF JobFits
  <1> QED BY <1>2, <1>3, <1>4 DEF JobFits

LEMMA RequestGrows ==
    ASSUME Grows, NEW q, RequestOK(q)
    PROVE  RequestOK(q)'
  <1>1. q.commit # 0 => HasDecision(q.begin, q.commit)' BY DecisionGrows DEF RequestOK
  <1>2. \E b \in batches' : /\ b.begin = q.begin
                            /\ q.op \in Publications => q.path \in Writes(b.invocation)
    BY DEF RequestOK, Grows
  <1> QED BY <1>1, <1>2 DEF RequestOK

(* The log moved, but nothing more became final.                           *)
LEMMA FinalGrows ==
    ASSUME Grows, Typed, LogOK, LogOK', FinalOK,
           Current'.decided \ Unfinalized(Current)' \subseteq Current.decided \ Unfinalized(Current)
    PROVE  FinalOK'
  <1> SUFFICES ASSUME NEW d \in (Current.decided \ Unfinalized(Current))', NEW b \in batches', b.begin = d.begin
               PROVE  AllPublished(b)'
    BY DEF FinalOK
  <1>1. d \in Current.decided \ Unfinalized(Current) OBVIOUS
  <1>2. PICK a \in batches : a.begin = d.begin BY <1>1 DEF LogOK, HasBatch
  <1>3. a \in batches' BY <1>2 DEF Grows
  <1>4. a = b BY <1>2, <1>3 DEF LogOK
  <1>5. AllPublished(b) BY <1>1, <1>2, <1>4 DEF FinalOK
  <1> QED BY <1>2, <1>4, <1>5, AllPublishedGrows

LEMMA AckedGrows ==
    ASSUME Grows, Typed, NEW v \in DOMAIN versions, versions[v].begin = 0,
           Cardinality(Holders(v)) >= Required
    PROVE  versions'[v].begin = 0 /\ Cardinality(Holders(v)') >= Required
  <1>1. versions'[v] = versions[v] BY DEF Grows
  <1> QED BY <1>1, HoldersGrow, RequiredNumber

-----------------------------------------------------------------------------
(* What a job does with the wire. *)

(* Messages that stay are sound, and nobody waits for one of n's.          *)
RestOK(n, rest) ==
    \A q \in rest : /\ q \in Message /\ RequestOK(q)
                    /\ ~q.late => q \in wire /\ q.from # n

LEMMA JobsStep ==
    ASSUME Grows, Typed, LogOK, JobsOK, WireOK, NEW n \in Nodes, NEW x \in Job \cup {Idle},
           job' = [job EXCEPT ![n] = x],
           x # Idle => \E b \in batches' : JobFits(x, b)',
           \A q \in wire' : q \in Message /\ RequestOK(q)',
           \A q \in wire' : ~q.late /\ q.from # n => q \in wire,
           \A q \in wire' : ~q.late /\ q.from = n => x # Idle /\ \E b \in batches' : OfRound(q, x, b)
    PROVE  /\ job' \in [Nodes -> Job \cup {Idle}] /\ wire' \in SUBSET Message
           /\ JobsOK' /\ WireOK'
  <1>1. job \in [Nodes -> Job \cup {Idle}] BY DEF Typed
  <1>2. job' \in [Nodes -> Job \cup {Idle}] BY <1>1
  <1>3. job'[n] = x /\ \A m \in Nodes \ {n} : job'[m] = job[m] BY <1>1
  <1>4. ASSUME NEW m \in Nodes, job'[m] # Idle
        PROVE  \E b \in batches' : JobFits(job[m], b)'
    <2>0. ASSUME NEW j, NEW b, j = job'[m], JobFits(j, b)'
          PROVE  JobFits(job[m], b)'
      BY <2>0 DEF JobFits, ReadyFor, CommitKnown, Progress, Counted
    <2>1. CASE m = n
      <3>1. job'[m] = x /\ x # Idle BY <1>3, <1>4, <2>1
      <3>2. PICK b \in batches' : JobFits(x, b)' BY <3>1
      <3>3. JobFits(job[m], b)' BY <2>0, <3>1, <3>2
      <3> QED BY <3>3
    <2>2. CASE m # n
      <3>1. PICK j : j = job[m] OBVIOUS
      <3>2. job'[m] = j /\ j # Idle BY <1>3, <1>4, <2>2, <3>1
      <3>3. j \in Job BY <1>1, <3>1, <3>2
      <3>4. PICK b \in batches : JobFits(j, b) BY <3>1, <3>2 DEF JobsOK
      <3>5. JobFits(j, b)' BY <3>3, <3>4, JobGrows
      <3>6. b \in batches' BY DEF Grows
      <3>7. JobFits(job[m], b)' BY <2>0, <3>2, <3>5
      <3> QED BY <3>6, <3>7
    <2> QED BY <2>1, <2>2
  <1>5. JobsOK' BY <1>4 DEF JobsOK
  <1>6. ASSUME NEW q \in wire', ~q.late
        PROVE  job'[q.from] # Idle /\ \E b \in batches' : OfRound(q, job'[q.from], b)
    <2>1. CASE q.from = n BY <1>3, <1>6, <2>1
    <2>2. CASE q.from # n
      <3>1. q \in wire BY <1>6, <2>2
      <3>2. q.from \in Nodes BY DEF Message
      <3>3. job'[q.from] = job[q.from] BY <1>3, <2>2, <3>2
      <3>4. job[q.from] # Idle /\ \E b \in batches : OfRound(q, job[q.from], b)
        BY <1>6, <3>1 DEF WireOK
      <3> QED BY <3>3, <3>4 DEF Grows
    <2> QED BY <2>1, <2>2
  <1>7. WireOK' BY <1>6 DEF WireOK
  <1> QED BY <1>2, <1>5, <1>7

LEMMA StopStep ==
    ASSUME Grows, Typed, LogOK, JobsOK, WireOK, NEW n \in Nodes, NEW rest, RestOK(n, rest),
           Stop(n, rest)
    PROVE  /\ job' \in [Nodes -> Job \cup {Idle}] /\ wire' \in SUBSET Message
           /\ JobsOK' /\ WireOK'
  <1>1. job' = [job EXCEPT ![n] = Idle] /\ wire' = rest BY DEF Stop
  <1>2. \A q \in wire' : q \in Message /\ RequestOK(q)'
    BY <1>1, RequestGrows DEF RestOK
  <1>3. \A q \in wire' : ~q.late => q \in wire /\ q.from # n BY <1>1 DEF RestOK
  <1>4. PICK x \in Job \cup {Idle} : x = Idle OBVIOUS
  <1> QED BY <1>1, <1>2, <1>3, <1>4, JobsStep

(* A job sends its round. *)
LEMMA ContinueStep ==
    ASSUME Grows, Typed, LogOK, JobsOK, WireOK, NEW n \in Nodes, NEW j \in Job, NEW rest,
           NEW b \in batches, ReadyFor(j, b)', RestOK(n, rest), Continue(n, j, rest)
    PROVE  /\ job' \in [Nodes -> Job \cup {Idle}] /\ wire' \in SUBSET Message
           /\ JobsOK' /\ WireOK'
  <1> DEFINE i == b.invocation
             R == RoundsOf(i, j.phase)
             to == IF R = << >> THEN {} ELSE R[j.round].to
             x == [j EXCEPT !.waiting = to, !.acks = 0, !.rejections = 0]
  <1>1. i \in Invocations BY BatchTyped
  <1>2. b.begin = j.begin BY DEF ReadyFor
  <1>3. Rounds(j) = R BY <1>2, BatchIs, RoundsAre
  <1>4. j.phase \in Phases BY DEF Job
  <1>5. R # << >> => j.round \in DOMAIN R BY DEF ReadyFor
  <1>6. R # << >> => /\ R[j.round].op \in Operations /\ R[j.round].path \in Paths
                     /\ R[j.round].to \subseteq Nodes
                     /\ R[j.round].op \in Publications => R[j.round].path \in Writes(i)
    BY <1>1, <1>4, <1>5, RoundExists
  <1>7. to \subseteq Nodes BY <1>6
  <1>8. job' = [job EXCEPT ![n] = x] /\ wire' = rest \cup {Request(n, j, r) : r \in to \ {n}}
    BY <1>3 DEF Continue
  <1> HIDE DEF R
  <1>9. R = << >> => to = {} OBVIOUS
  <1>10. R # << >> => to = R[j.round].to OBVIOUS
  <1> HIDE DEF to
  <1>11. x \in Job BY <1>7 DEF Job
  <1>12. /\ x.kind = j.kind /\ x.phase = j.phase /\ x.begin = j.begin /\ x.commit = j.commit
         /\ x.round = j.round /\ x.waiting = to /\ x.acks = 0 /\ x.nomination = j.nomination
    BY DEF Job
  <1> HIDE DEF x
  <1>13. x # Idle
    <2>1. x.phase \in Phases BY <1>11 DEF Job
    <2> QED BY <2>1 DEF Idle, Phases
  <1>14. JobFits(x, b)'
    <2>1. ReadyFor(x, b)'
      <3>1. CommitKnown(x)' BY <1>12 DEF ReadyFor, CommitKnown
      <3>2. x.phase = "finalize" => Progress(x, i)' BY <1>12 DEF ReadyFor, Progress
      <3>3. x.phase = "through" => AllPublished(b)' BY <1>12 DEF ReadyFor
      <3>4. RoundsOf(i, x.phase) # << >> => x.round \in DOMAIN RoundsOf(i, x.phase)
        BY <1>5, <1>12 DEF R
      <3> QED BY <1>2, <1>12, <3>1, <3>2, <3>3, <3>4 DEF ReadyFor
    <2>2. /\ RoundsOf(i, x.phase) = << >> => x.waiting = {}
          /\ RoundsOf(i, x.phase) # << >> => x.waiting \subseteq RoundsOf(i, x.phase)[x.round].to
      BY <1>9, <1>10, <1>12 DEF R
    <2>3. ASSUME x.phase = "finalize" PROVE Counted(x, i)'
      <3> DEFINE H == Have(x.begin, RoundsOf(i, "finalize")[x.round].path,
                           RoundsOf(i, "finalize")[x.round].to \ x.waiting)
      <3>1. IsFiniteSet(Nodes) BY ProgramConstants
      <3>2. x.phase = "finalize" /\ RoundsOf(i, "finalize") # << >>
        BY <2>3, <1>1, <1>5, <1>12, RoundOf DEF R
      <3>3. RoundsOf(i, "finalize")[x.round].to \subseteq Nodes BY <1>6, <1>12, <2>3, <3>2 DEF R
      <3>4. H' \subseteq Nodes BY <3>3 DEF Have
      <3>5. Cardinality(H') \in Nat BY <3>1, <3>4, FS_Subset, FS_CardinalityType
      <3> HIDE DEF H
      <3>6. x.acks <= Cardinality(H') BY <1>12, <3>5
      <3> QED BY <3>6 DEF Counted, H
    <2> QED BY <2>1, <2>2, <2>3 DEF JobFits
  <1>15. b \in batches' BY DEF Grows
  <1>16. ASSUME NEW r \in to \ {n}, NEW m, m = Request(n, j, r)
         PROVE  /\ m \in Message /\ RequestOK(m)' /\ ~m.late /\ m.from = n
                /\ OfRound(m, x, b)
    <2>1. R # << >> BY <1>9
    <2>2. r \in Nodes BY <1>7
    <2> DEFINE q == [from |-> n, to |-> r, op |-> R[j.round].op, path |-> R[j.round].path,
                     begin |-> j.begin, nomination |-> j.nomination, commit |-> j.commit,
                     admitted |-> FALSE, late |-> FALSE]
    <2>3. m = q BY <1>3, <1>16 DEF Request
    <2>4. j.begin \in Nat /\ j.nomination \in Nat /\ j.commit \in Nat BY DEF Job
    <2>5. q \in Message BY <1>6, <2>1, <2>2, <2>4 DEF Message
    <2>6. /\ q.from = n /\ q.to = r /\ ~q.late /\ q.op = R[j.round].op /\ q.path = R[j.round].path
          /\ q.begin = j.begin /\ q.commit = j.commit /\ q.nomination = j.nomination /\ ~q.admitted
      OBVIOUS
    <2>10. /\ m.nomination = j.nomination /\ ~m.admitted /\ m \in Message /\ m.from = n /\ m.to = r /\ ~m.late /\ m.op = R[j.round].op
           /\ m.path = R[j.round].path /\ m.begin = j.begin /\ m.commit = j.commit
      BY <2>3, <2>5, <2>6
    <2> HIDE DEF q
    <2>7. m.commit # 0 => HasDecision(m.begin, m.commit)' BY <2>10 DEF ReadyFor, CommitKnown
    <2>8. RequestOK(m)' BY <1>2, <1>6, <1>15, <2>1, <2>10, <2>7 DEF RequestOK
    <2>9. OfRound(m, x, b) BY <1>2, <1>12, <2>1, <2>10 DEF OfRound, R
    <2> QED BY <2>10, <2>8, <2>9
  <1>17. \A q \in wire' : q \in Message /\ RequestOK(q)'
    <2> SUFFICES ASSUME NEW q \in wire' PROVE q \in Message /\ RequestOK(q)' OBVIOUS
    <2>1. CASE q \in rest BY <2>1, RequestGrows DEF RestOK
    <2>2. CASE \E r \in to \ {n} : q = Request(n, j, r) BY <2>2, <1>16
    <2> QED BY <1>8, <2>1, <2>2
  <1>18. \A q \in wire' : ~q.late /\ q.from # n => q \in wire
    BY <1>8, <1>16 DEF RestOK
  <1>19. \A q \in wire' : ~q.late /\ q.from = n => x # Idle /\ \E a \in batches' : OfRound(q, x, a)
    BY <1>8, <1>13, <1>15, <1>16 DEF RestOK
  <1> QED BY <1>8, <1>11, <1>14, <1>15, <1>17, <1>18, <1>19, JobsStep

(* A round that enough replicas have answered is done.                     *)
LEMMA PublicationRound ==
    ASSUME Typed, LogOK, NEW b \in batches, NEW j \in Job, JobFits(j, b)',
           j.phase = "finalize", j.waiting = {}, Enough(j)
    PROVE  /\ \A l \in 1..Len(Written[b.invocation]) :
                /\ 2 * l < j.round + 1 => Published(b.begin, Written[b.invocation][l])'
                /\ 2 * l = j.round + 1 => Reached(b.begin, Written[b.invocation][l])'
  <1> DEFINE i == b.invocation
             R == RoundsOf(i, "finalize")
  <1>1. i \in Invocations BY BatchTyped
  <1>2. b.begin = j.begin /\ (R # << >> => j.round \in DOMAIN R) /\ Progress(j, i)' /\ Counted(j, i)'
    BY DEF JobFits, ReadyFor
  <1>3. Rounds(j) = R BY <1>2, BatchIs, RoundsAre
  <1> HIDE DEF R
  <1>4. PICK p \in Paths : p = R[j.round].path BY <1>1, <1>2, RoundOf DEF R
  <1>5. PICK k \in 1..Len(Written[i]) :
               /\ p = Written[i][k]
               /\ \/ j.round = 2 * k - 1 /\ R[j.round].op = "coordinate" /\ R[j.round].to = {CoordinatorOf[p]}
                  \/ j.round = 2 * k /\ R[j.round].op = "apply" /\ R[j.round].to = Nodes \ {CoordinatorOf[p]}
    BY <1>1, <1>2, <1>4, RoundOf DEF R
  <1>6. PICK c \in Nodes : c = CoordinatorOf[p] BY HomeNode
  <1>7. PICK H : H = Have(b.begin, p, R[j.round].to)' OBVIOUS
  <1>8. j.acks <= Cardinality(H)
    <2>1. R[j.round].to \ j.waiting = R[j.round].to OBVIOUS
    <2> QED BY <1>2, <1>4, <1>7, <2>1 DEF Counted, R
  <1>9. H \subseteq R[j.round].to BY <1>7 DEF Have
  <1>10. R[j.round].to \subseteq Nodes BY <1>5, <1>6
  <1>11. IsFiniteSet(Nodes) BY ProgramConstants
  <1>12. IsFiniteSet(H) /\ Cardinality(H) \in Nat BY <1>9, <1>10, <1>11, FS_Subset, FS_CardinalityType
  <1>13. \A r \in H : \A v \in DOMAIN versions' : IsPrepared(v, b.begin, p)' => v \in Line(head[r][p])'
    BY <1>7 DEF Have
  <1>14. j.acks \in Nat /\ j.acks >= Needed(R[j.round].op) BY <1>3 DEF Enough, Job
  <1>15. Len(Written[i]) \in Nat BY <1>1, WrittenShape
  <1>16. \A l \in 1..Len(Written[i]) :
           /\ 2 * l < j.round => Published(b.begin, Written[i][l])'
           /\ 2 * l = j.round => Reached(b.begin, Written[i][l])'
    BY <1>2 DEF Progress
  <1>17. CASE j.round = 2 * k - 1
    <2>1. R[j.round].op = "coordinate" /\ R[j.round].to = {c} BY <1>5, <1>6, <1>15, <1>17
    <2>2. j.acks >= 1 BY <1>14, <2>1 DEF Needed
    <2>3. H # {} BY <1>8, <1>12, <1>14, <2>2, FS_EmptySet
    <2>4. c \in H BY <1>9, <2>1, <2>3
    <2>5. Reached(b.begin, p)' BY <1>6, <1>13, <2>4 DEF Reached, HomeHead
    <2>6. ASSUME NEW l \in 1..Len(Written[i])
          PROVE  (2 * l < j.round + 1 => 2 * l < j.round) /\ (2 * l = j.round + 1 => l = k)
      BY <1>15, <1>17
    <2> QED BY <1>5, <1>16, <2>5, <2>6
  <1>18. CASE j.round = 2 * k
    <2>1. R[j.round].op = "apply" /\ R[j.round].to = Nodes \ {c} BY <1>5, <1>6, <1>15, <1>18
    <2>2. j.acks >= Required - 1 BY <1>14, <2>1 DEF Needed, OtherReplicas
    <2>3. c \notin H BY <1>9, <2>1
    <2>4. Cardinality(H \cup {c}) = Cardinality(H) + 1 /\ IsFiniteSet(H \cup {c})
      BY <1>12, <2>3, FS_AddElement
    <2>5. Cardinality(H \cup {c}) >= Required BY <1>8, <1>12, <1>14, <2>2, <2>4, RequiredNumber
    <2>6. Reached(b.begin, p)' BY <1>5, <1>16, <1>18
    <2>7. ASSUME NEW v \in DOMAIN versions', IsPrepared(v, b.begin, p)'
          PROVE  Cardinality(Holders(v)') >= Required
      <3>1. versions'[v].path = p BY <2>7 DEF IsPrepared
      <3>2. \A r \in H \cup {c} : v \in Line(head[r][p])'
        BY <1>6, <1>13, <2>6, <2>7 DEF Reached, HomeHead
      <3>3. H \cup {c} \subseteq Nodes BY <1>9, <1>10
      <3>4. H \cup {c} \subseteq Holders(v)' BY <3>1, <3>2, <3>3 DEF Holders
      <3>5. Holders(v)' \subseteq Nodes BY DEF Holders
      <3>6. IsFiniteSet(Holders(v)') BY <1>11, <3>5, FS_Subset
      <3>7. Cardinality(H \cup {c}) <= Cardinality(Holders(v)') BY <3>4, <3>6, FS_Subset
      <3>8. Cardinality(Holders(v)') \in Nat BY <3>6, FS_CardinalityType
      <3> QED BY <1>12, <2>4, <2>5, <3>7, <3>8, RequiredNumber
    <2>8. Published(b.begin, p)' BY <2>6, <2>7 DEF Published, Required
    <2>9. ASSUME NEW l \in 1..Len(Written[i])
          PROVE  (2 * l < j.round + 1 => 2 * l < j.round \/ l = k) /\ ~(2 * l = j.round + 1)
      BY <1>15, <1>18
    <2> QED BY <1>5, <1>16, <2>8, <2>9
  <1> QED BY <1>5, <1>17, <1>18

(* What stays on the wire while job n goes on as j.                        *)
Waits(n, j, b, rest) ==
    \A q \in rest : /\ q \in Message /\ RequestOK(q)
                    /\ ~q.late => q \in wire /\ (q.from = n => OfRound(q, j, b))

LEMMA NoRounds ==
    ASSUME NEW i
    PROVE  /\ \A phase \in {"stage", "abandon", "decide", "through", "abort"} : RoundsOf(i, phase) = << >>
           /\ RoundsOf(i, "finalize") = Finalizing(i)
  BY DEF RoundsOf

(* One more round of a phase. *)
LEMMA NextRoundReady ==
    ASSUME Typed, LogOK, NEW b \in batches, NEW j \in Job, JobFits(j, b)', j.waiting = {}, Enough(j),
           RoundsOf(b.invocation, j.phase) # << >>, j.round < Len(Rounds(j))
    PROVE  [j EXCEPT !.round = @ + 1] \in Job /\ ReadyFor([j EXCEPT !.round = @ + 1], b)'
  <1> DEFINE i == b.invocation
             R == RoundsOf(i, j.phase)
             x == [j EXCEPT !.round = @ + 1]
  <1>1. i \in Invocations BY BatchTyped
  <1>2. j.phase \in Phases /\ j.round \in Nat BY DEF Job
  <1>3. x \in Job BY <1>2 DEF Job
  <1>4. /\ x.kind = j.kind /\ x.phase = j.phase /\ x.begin = j.begin /\ x.commit = j.commit
        /\ x.round = j.round + 1
    BY DEF Job
  <1> HIDE DEF x
  <1>5. ReadyFor(j, b)' BY DEF JobFits
  <1>6. b.begin = j.begin BY <1>5 DEF ReadyFor
  <1>7. Rounds(j) = R BY <1>6, BatchIs, RoundsAre
  <1>8. Len(R) \in Nat /\ DOMAIN R = 1..Len(R) BY <1>1, <1>2, RoundExists
  <1>9. x.round \in DOMAIN R BY <1>2, <1>4, <1>7, <1>8
  <1>10. CommitKnown(x)' BY <1>4, <1>5 DEF ReadyFor, CommitKnown
  <1>11. x.phase = "finalize" => Progress(x, i)'
    <2> SUFFICES ASSUME x.phase = "finalize", NEW l \in 1..Len(Written[i])
                 PROVE  /\ 2 * l < x.round => Published(x.begin, Written[i][l])'
                        /\ 2 * l = x.round => Reached(x.begin, Written[i][l])'
      BY DEF Progress
    <2>1. /\ 2 * l < j.round + 1 => Published(b.begin, Written[i][l])'
          /\ 2 * l = j.round + 1 => Reached(b.begin, Written[i][l])'
      BY <1>4, PublicationRound
    <2> QED BY <1>4, <1>6, <2>1
  <1>12. x.phase = "through" => AllPublished(b)' BY <1>4, <1>5 DEF ReadyFor
  <1>13. ReadyFor(x, b)' BY <1>4, <1>6, <1>9, <1>10, <1>11, <1>12 DEF ReadyFor
  <1> QED BY <1>3, <1>13 DEF x

(* The next phase. *)
LEMMA NextPhaseReady ==
    ASSUME Typed, LogOK, NEW b \in batches, NEW j \in Job, JobFits(j, b)', j.waiting = {}, Enough(j),
           RoundsOf(b.invocation, j.phase) # << >>, ~(j.round < Len(Rounds(j))), NextPhase(j) # "idle",
           NEW x, x = [[j EXCEPT !.kind = NextKind(j)] EXCEPT !.phase = NextPhase(j), !.round = 1]
    PROVE  x \in Job /\ ReadyFor(x, b)'
  <1> DEFINE i == b.invocation
             R == RoundsOf(i, j.phase)
  <1>1. i \in Invocations BY BatchTyped
  <1>2. j.phase \in Phases /\ j.round \in Nat /\ j.kind \in {"invoke", "recover", "tail"} BY DEF Job
  <1>3. ReadyFor(j, b)' BY DEF JobFits
  <1>4. b.begin = j.begin /\ CommitKnown(j)' /\ j.round \in DOMAIN R BY <1>3 DEF ReadyFor
  <1>5. Rounds(j) = R BY <1>4, BatchIs, RoundsAre
  <1>6. Len(R) \in Nat /\ DOMAIN R = 1..Len(R) BY <1>1, <1>2, RoundExists
  <1>7. j.round = Len(R) BY <1>2, <1>4, <1>5, <1>6
  <1>8. /\ \/ j.phase = "reserve" /\ j.kind = "tail" /\ NextPhase(j) = "commit"
           \/ j.phase = "reserve" /\ j.kind # "tail" /\ NextPhase(j) = "decide"
           \/ j.phase = "commit" /\ NextPhase(j) = "reserve" /\ NextKind(j) = "tail"
           \/ j.phase = "commit" /\ NextPhase(j) = "finalize"
           \/ j.phase = "finalize" /\ NextPhase(j) = "through"
        /\ j.phase # "commit" => NextKind(j) = j.kind
        /\ NextKind(j) \in {j.kind, "tail"}
    BY DEF NextPhase, NextKind
  <1>9. NextPhase(j) \in Phases BY <1>8 DEF Phases
  <1>10. NextKind(j) \in {"invoke", "recover", "tail"} BY <1>2, <1>8
  <1>11. PICK k \in {"invoke", "recover", "tail"}, f \in Phases : k = NextKind(j) /\ f = NextPhase(j)
    BY <1>9, <1>10
  <1>12. x = [j EXCEPT !.kind = k, !.phase = f, !.round = 1] BY <1>11 DEF Job
  <1>13. x \in Job
    <2>1. [j EXCEPT !.kind = k] \in Job BY DEF Job
    <2>2. PICK y \in Job : y = [j EXCEPT !.kind = k] BY <2>1
    <2>3. [y EXCEPT !.phase = f, !.round = 1] \in Job BY DEF Job
    <2>4. x = [y EXCEPT !.phase = f, !.round = 1] BY <1>11, <2>2
    <2> QED BY <2>3, <2>4
  <1>14. x.kind = k /\ x.phase = f /\ x.round = 1 /\ x.begin = j.begin /\ x.commit = j.commit
    BY <1>12 DEF Job
  <1>15. CommitKnown(x)' BY <1>4, <1>8, <1>11, <1>14 DEF CommitKnown
  <1>16. RoundsOf(i, f) # << >> => x.round \in DOMAIN RoundsOf(i, f) BY <1>1, <1>14, RoundExists
  <1>17. Progress(x, i)'
    <2>1. Len(Written[i]) \in Nat BY <1>1, WrittenShape
    <2>2. \A l \in 1..Len(Written[i]) : ~(2 * l < 1) /\ ~(2 * l = 1) BY <2>1
    <2> QED BY <1>14, <2>2 DEF Progress
  <1>18. ASSUME f = "through" PROVE AllPublished(b)'
    <2>1. j.phase = "finalize" BY <1>8, <1>11, <1>18
    <2>2. Len(Written[i]) \in Nat /\ \A p \in Writes(i) : \E l \in 1..Len(Written[i]) : p = Written[i][l]
      BY <1>1, WrittenShape
    <2>3. j.round = 2 * Len(Written[i]) BY <1>1, <1>7, <2>1, NoRounds, FinalizingShape
    <2>4. \A l \in 1..Len(Written[i]) : 2 * l < j.round + 1 BY <2>2, <2>3
    <2>5. \A l \in 1..Len(Written[i]) : Published(b.begin, Written[i][l])'
      BY <2>1, <2>4, PublicationRound
    <2> QED BY <2>2, <2>5 DEF AllPublished
  <1>19. ReadyFor(x, b)' BY <1>4, <1>14, <1>15, <1>16, <1>17, <1>18 DEF ReadyFor
  <1> QED BY <1>13, <1>19

(* An answer is counted. *)
LEMMA AnswerStep ==
    ASSUME Grows, Typed, LogOK, JobsOK, WireOK, NEW n \in Nodes, NEW j \in Job, NEW rest,
           NEW b \in batches, JobFits(j, b)', RoundsOf(b.invocation, j.phase) # << >>,
           Waits(n, j, b, rest), apply_reservation_operation(n, j, rest)
    PROVE  /\ job' \in [Nodes -> Job \cup {Idle}] /\ wire' \in SUBSET Message
           /\ JobsOK' /\ WireOK'
  <1>0. j # Idle
    <2>1. j.phase \in Phases BY DEF Job
    <2> QED BY <2>1 DEF Idle, Phases
  <1>1. b \in batches' BY DEF Grows
  <1>2. CASE j.waiting # {}
    <2>1. job' = [job EXCEPT ![n] = j] /\ wire' = rest BY <1>2 DEF apply_reservation_operation
    <2>2. \A q \in wire' : q \in Message /\ RequestOK(q)' BY <2>1, RequestGrows DEF Waits
    <2>3. \A q \in wire' : ~q.late /\ q.from # n => q \in wire BY <2>1 DEF Waits
    <2>4. \A q \in wire' : ~q.late /\ q.from = n => \E a \in batches' : OfRound(q, j, a)
      BY <1>1, <2>1 DEF Waits
    <2> QED BY <1>0, <1>1, <2>1, <2>2, <2>3, <2>4, JobsStep
  <1>3. CASE j.waiting = {}
    <2>1. RestOK(n, rest) BY <1>3 DEF RestOK, Waits, OfRound
    <2>2. CASE Enough(j)
      <3>1. CASE j.round < Len(Rounds(j))
        <4>1. PICK x : x = [j EXCEPT !.round = @ + 1] OBVIOUS
        <4>2. Continue(n, x, rest) BY <1>3, <2>2, <3>1, <4>1 DEF apply_reservation_operation
        <4>3. x \in Job /\ ReadyFor(x, b)' BY <1>3, <2>2, <3>1, <4>1, NextRoundReady
        <4> QED BY <2>1, <4>2, <4>3, ContinueStep
      <3>2. CASE ~(j.round < Len(Rounds(j))) /\ NextPhase(j) = "idle"
        <4>1. Stop(n, rest) BY <1>3, <2>2, <3>2 DEF apply_reservation_operation
        <4> QED BY <2>1, <4>1, StopStep
      <3>3. CASE ~(j.round < Len(Rounds(j))) /\ NextPhase(j) # "idle"
        <4>1. PICK x : x = [[j EXCEPT !.kind = NextKind(j)] EXCEPT !.phase = NextPhase(j), !.round = 1]
          OBVIOUS
        <4>2. Continue(n, x, rest) BY <1>3, <2>2, <3>3, <4>1 DEF apply_reservation_operation, Enter
        <4>3. x \in Job /\ ReadyFor(x, b)' BY <1>3, <2>2, <3>3, <4>1, NextPhaseReady
        <4> QED BY <2>1, <4>2, <4>3, ContinueStep
      <3> QED BY <3>1, <3>2, <3>3
    <2>3. CASE ~Enough(j)
      <3> DEFINE Aborts == \/ j.phase = "reserve" /\ j.kind = "invoke"
                           \/ j.phase = "reserve" /\ j.kind = "recover" /\ Terminal(j)
      <3>1. CASE Aborts
        <4>1. PICK x : x = [j EXCEPT !.phase = "abort", !.round = 1] OBVIOUS
        <4>2. Continue(n, x, rest) BY <1>3, <2>3, <3>1, <4>1 DEF apply_reservation_operation, Enter
        <4>3. x \in Job BY <4>1 DEF Job, Phases
        <4>4. x.phase = "abort" /\ x.begin = j.begin /\ x.commit = j.commit /\ x.kind = j.kind
          BY <4>1 DEF Job
        <4>5. b.begin = x.begin /\ CommitKnown(j)' BY <4>4 DEF JobFits, ReadyFor
        <4>6. CommitKnown(x)' BY <3>1, <4>4, <4>5 DEF CommitKnown
        <4>7. RoundsOf(b.invocation, x.phase) = << >> BY <4>4, NoRounds
        <4>8. ReadyFor(x, b)' BY <4>4, <4>5, <4>6, <4>7 DEF ReadyFor
        <4> QED BY <2>1, <4>2, <4>3, <4>8, ContinueStep
      <3>2. CASE ~Aborts
        <4>1. Stop(n, rest) BY <1>3, <2>3, <3>2 DEF apply_reservation_operation
        <4> QED BY <2>1, <4>1, StopStep
      <3> QED BY <3>1, <3>2
    <2> QED BY <2>2, <2>3
  <1> QED BY <1>2, <1>3

(* Two requests that a job waits for differ in their replica.              *)
LEMMA OneRequestEach ==
    ASSUME Typed, LogOK, WireOK, NEW q \in wire, NEW m \in wire, ~q.late, ~m.late,
           q.from = m.from, q.to = m.to
    PROVE  q = m
  <1>1. q \in Message /\ m \in Message BY DEF Typed
  <1>2. PICK j : j = job[q.from] OBVIOUS
  <1>3. PICK a \in batches : OfRound(q, j, a) BY <1>2 DEF WireOK
  <1>4. PICK b \in batches : OfRound(m, j, b) BY <1>2 DEF WireOK
  <1>5. a = b BY <1>3, <1>4 DEF OfRound, LogOK
  <1>6. /\ q.op = m.op /\ q.path = m.path /\ q.begin = m.begin /\ q.nomination = m.nomination
        /\ q.commit = m.commit /\ ~q.admitted /\ ~m.admitted
    BY <1>3, <1>4, <1>5 DEF OfRound
  <1>7. \A x \in Message : ~x.admitted /\ ~x.late =>
          x = [from |-> x.from, to |-> x.to, op |-> x.op, path |-> x.path, begin |-> x.begin,
               nomination |-> x.nomination, commit |-> x.commit, admitted |-> FALSE, late |-> FALSE]
    BY DEF Message
  <1> QED BY <1>1, <1>6, <1>7

(* An answer of replica r.  One that says it has published must have.      *)
LEMMA AnsweredStep ==
    ASSUME Grows, Typed, LogOK, JobsOK, WireOK, NEW n \in Nodes, NEW r \in Nodes, NEW outcome, NEW rest,
           NEW j \in Job, j = job[n], r \in j.waiting, NEW b \in batches, JobFits(j, b),
           outcome = "ok" /\ j.phase = "finalize" =>
             r \in Have(b.begin, RoundsOf(b.invocation, "finalize")[j.round].path, Nodes)',
           \A q \in rest : /\ q \in Message /\ RequestOK(q)
                           /\ ~q.late => q \in wire /\ (q.from = n => q.to # r),
           Answered(n, r, outcome, rest)
    PROVE  /\ job' \in [Nodes -> Job \cup {Idle}] /\ wire' \in SUBSET Message
           /\ JobsOK' /\ WireOK'
  <1>1. j = job[n] OBVIOUS
  <1> DEFINE i == b.invocation
             R == RoundsOf(i, j.phase)
             acks == IF outcome = "ok" THEN j.acks + 1 ELSE j.acks
             rejections == IF outcome = "terminal" THEN j.rejections + 1 ELSE j.rejections
             x == [j EXCEPT !.waiting = j.waiting \ {r}, !.acks = acks, !.rejections = rejections]
  <1>2. JobFits(j, b) BY <1>1
  <1>3. JobFits(j, b)' BY <1>2, JobGrows
  <1>4. apply_reservation_operation(n, x, rest) BY <1>1 DEF Answered
  <1>5. j.acks \in Nat /\ j.rejections \in Nat /\ j.waiting \subseteq Nodes BY DEF Job
  <1>6. acks \in Nat /\ rejections \in Nat BY <1>5
  <1>7. (outcome = "ok" => acks = j.acks + 1) /\ (outcome # "ok" => acks = j.acks) OBVIOUS
  <1> HIDE DEF acks, rejections
  <1>8. x \in Job BY <1>5, <1>6 DEF Job
  <1>9. /\ x.kind = j.kind /\ x.phase = j.phase /\ x.begin = j.begin /\ x.commit = j.commit
        /\ x.round = j.round /\ x.waiting = j.waiting \ {r} /\ x.acks = acks
        /\ x.nomination = j.nomination
    BY DEF Job
  <1> HIDE DEF x
  <1>10. R # << >> /\ j.waiting \subseteq R[j.round].to BY <1>1, <1>2 DEF JobFits
  <1>11. j.begin = b.begin BY <1>2 DEF JobFits, ReadyFor
  <1>12. JobFits(x, b)'
    <2>1. ReadyFor(x, b)'
      <3>1. ReadyFor(j, b)' BY <1>3 DEF JobFits
      <3> QED BY <1>9, <3>1 DEF ReadyFor, CommitKnown, Progress
    <2>2. x.waiting \subseteq RoundsOf(i, x.phase)[x.round].to /\ RoundsOf(i, x.phase) # << >>
      BY <1>9, <1>10
    <2>3. ASSUME x.phase = "finalize" PROVE Counted(x, i)'
      <3>1. PICK p, to : p = R[j.round].path /\ to = R[j.round].to OBVIOUS
      <3>2. i \in Invocations BY BatchTyped
      <3>3. p \in Paths /\ to \subseteq Nodes
        <4>1. j.phase = "finalize" BY <1>9, <2>3
        <4>2. RoundsOf(i, "finalize") # << >> => j.round \in DOMAIN RoundsOf(i, "finalize")
          BY <1>2, <4>1 DEF JobFits, ReadyFor
        <4>3. /\ RoundsOf(i, "finalize")[j.round].path \in Paths
              /\ RoundsOf(i, "finalize")[j.round].to \subseteq Nodes
          BY <3>2, <4>2, RoundOf
        <4> QED BY <3>1, <4>1, <4>3
      <3>4. PICK G : G = Have(b.begin, p, to \ j.waiting)' OBVIOUS
      <3>5. PICK H : H = Have(b.begin, p, to \ (j.waiting \ {r}))' OBVIOUS
      <3>6. j.acks <= Cardinality(G) BY <1>3, <1>9, <1>11, <2>3, <3>1, <3>4 DEF JobFits, Counted
      <3>7. G \subseteq H /\ r \notin G /\ H \subseteq Nodes BY <1>1, <3>3, <3>4, <3>5 DEF Have
      <3>8. IsFiniteSet(H) /\ IsFiniteSet(G)
        <4>1. IsFiniteSet(Nodes) BY ProgramConstants
        <4> QED BY <3>7, <4>1, FS_Subset
      <3>9. Cardinality(G) \in Nat /\ Cardinality(H) \in Nat /\ Cardinality(G) <= Cardinality(H)
        BY <3>7, <3>8, FS_Subset, FS_CardinalityType
      <3>10. acks <= Cardinality(H)
        <4>1. CASE outcome # "ok" BY <1>5, <1>7, <3>6, <3>9, <4>1
        <4>2. CASE outcome = "ok"
          <5>1. r \in Have(b.begin, p, Nodes)' BY <1>1, <1>9, <2>3, <3>1, <4>2
          <5>2. r \in H BY <1>1, <1>10, <3>1, <3>5, <5>1 DEF Have
          <5>3. Cardinality(G \cup {r}) = Cardinality(G) + 1 /\ IsFiniteSet(G \cup {r})
            BY <3>7, <3>8, FS_AddElement
          <5>4. G \cup {r} \subseteq H BY <3>7, <5>2
          <5>5. Cardinality(G \cup {r}) <= Cardinality(H) BY <3>8, <5>4, FS_Subset
          <5> QED BY <1>5, <1>7, <3>6, <3>9, <4>2, <5>3, <5>5
        <4> QED BY <4>1, <4>2
      <3> QED BY <1>9, <1>11, <2>3, <3>1, <3>5, <3>10 DEF Counted
    <2> QED BY <2>1, <2>2, <2>3 DEF JobFits
  <1>13. Waits(n, x, b, rest)
    <2> SUFFICES ASSUME NEW q \in rest, ~q.late, q.from = n PROVE OfRound(q, x, b)
      BY DEF Waits
    <2>1. q \in wire /\ q.to # r OBVIOUS
    <2>2. PICK a \in batches : OfRound(q, j, a) BY <1>1, <2>1 DEF WireOK
    <2>3. a = b BY <1>11, <2>2 DEF OfRound, LogOK
    <2> QED BY <1>9, <2>1, <2>2, <2>3 DEF OfRound
  <1>14. RoundsOf(b.invocation, x.phase) # << >> BY <1>9, <1>10
  <1> QED BY <1>4, <1>8, <1>12, <1>13, <1>14, AnswerStep

-----------------------------------------------------------------------------
(* Steps that move neither the log nor a replica.                          *)

LEMMA LineSame ==
    ASSUME UNCHANGED versions, NEW w
    PROVE  Line(w)' = Line(w)
  BY DEF Line

LEMMA SameData ==
    ASSUME UNCHANGED <<decisions, batches, versions, head, acked>>, ProgramInv
    PROVE  /\ Grows /\ VersionsOK' /\ HeadsOK' /\ OneLine' /\ FinalOK' /\ AckedOK'
  <1>1. Current' = Current BY DEF Current
  <1>2. Grows BY <1>1 DEF Grows, Line
  <1>3. VersionsOK'
    BY <1>1 DEF ProgramInv, VersionsOK, VersionOK, Settled, HomeHead, Line, IsDecided, IsPrepared
  <1>4. HeadsOK' BY <1>1 DEF ProgramInv, HeadsOK, HeadOK, Settled, Line, IsDecided
  <1>5. OneLine' BY <1>1 DEF ProgramInv, OneLine, Bypassed, Aborted, HomeHead, Line, IsDecided
  <1>6. FinalOK'
    BY <1>1 DEF ProgramInv, FinalOK, AllPublished, Published, Reached, IsPrepared, Holders, HomeHead,
                Line, Unfinalized
  <1>7. AckedOK' BY DEF ProgramInv, AckedOK, Holders, Line
  <1> QED BY <1>2, <1>3, <1>4, <1>5, <1>6, <1>7

LEMMA SameLog ==
    ASSUME UNCHANGED <<decisions, applied, batches>>, LogOK
    PROVE  LogOK'
  <1>1. Current' = Current BY DEF Current
  <1> QED BY <1>1 DEF LogOK, HasBatch, Unfinalized

(* A job goes on with its batch, or ends.                                  *)
JobsFollow ==
    \A m \in Nodes : job'[m] # Idle => /\ job[m] # Idle
                                       /\ job'[m].nomination = job[m].nomination
                                       /\ job'[m].commit = job[m].commit

LEMMA FollowsTenure ==
    ASSUME Tenure, UNCHANGED decisions, JobsFollow
    PROVE  Tenure'
  <1>1. Current' = Current BY DEF Current
  <1> QED BY <1>1 DEF Tenure, InTenure, JobsFollow

LEMMA StopFollows ==
    ASSUME Typed, NEW n \in Nodes, NEW rest, Stop(n, rest)
    PROVE  JobsFollow
  <1>1. job \in [Nodes -> Job \cup {Idle}] /\ job' = [job EXCEPT ![n] = Idle] BY DEF Stop, Typed
  <1> QED BY <1>1 DEF JobsFollow

LEMMA ContinueFollows ==
    ASSUME Typed, NEW n \in Nodes, NEW j \in Job, NEW rest, job[n] # Idle,
           j.nomination = job[n].nomination, j.commit = job[n].commit, Continue(n, j, rest)
    PROVE  JobsFollow
  <1>1. PICK to : job' = [job EXCEPT ![n] = [j EXCEPT !.waiting = to, !.acks = 0, !.rejections = 0]]
    BY DEF Continue
  <1>2. PICK x : x = [j EXCEPT !.waiting = to, !.acks = 0, !.rejections = 0] OBVIOUS
  <1>3. x.nomination = j.nomination /\ x.commit = j.commit BY <1>2 DEF Job
  <1>4. job \in [Nodes -> Job \cup {Idle}] BY DEF Typed
  <1> QED BY <1>1, <1>2, <1>3, <1>4 DEF JobsFollow

LEMMA EnterFollows ==
    ASSUME Typed, NEW n \in Nodes, NEW j \in Job, NEW rest, job[n] # Idle,
           j.nomination = job[n].nomination, j.commit = job[n].commit,
           NEW phase \in Phases, Enter(n, j, phase, rest)
    PROVE  JobsFollow
  <1>1. PICK x : x = [j EXCEPT !.phase = phase, !.round = 1] OBVIOUS
  <1>2. Continue(n, x, rest) BY <1>1 DEF Enter
  <1>3. x \in Job /\ x.nomination = j.nomination /\ x.commit = j.commit BY <1>1 DEF Job
  <1> QED BY <1>2, <1>3, ContinueFollows

LEMMA AnsweredFollows ==
    ASSUME Typed, NEW n \in Nodes, NEW r, NEW outcome, NEW rest, job[n] \in Job,
           Answered(n, r, outcome, rest)
    PROVE  JobsFollow
  <1>1. PICK j \in Job : j = job[n] OBVIOUS
  <1> DEFINE acks == IF outcome = "ok" THEN j.acks + 1 ELSE j.acks
             rejections == IF outcome = "terminal" THEN j.rejections + 1 ELSE j.rejections
  <1>2. PICK x : x = [j EXCEPT !.waiting = j.waiting \ {r}, !.acks = acks, !.rejections = rejections]
    OBVIOUS
  <1>3. apply_reservation_operation(n, x, rest) BY <1>1, <1>2 DEF Answered
  <1>4. j.acks \in Nat /\ j.rejections \in Nat /\ j.waiting \subseteq Nodes BY DEF Job
  <1>5. acks \in Nat /\ rejections \in Nat BY <1>4
  <1> HIDE DEF acks, rejections
  <1>6. x \in Job BY <1>2, <1>4, <1>5 DEF Job
  <1>7. x.nomination = j.nomination /\ x.commit = j.commit BY <1>2 DEF Job
  <1>8. job[n] # Idle
    <2>1. j.phase \in Phases BY DEF Job
    <2> QED BY <1>1, <2>1 DEF Idle, Phases
  <1>9. job \in [Nodes -> Job \cup {Idle}] BY DEF Typed
  <1>10. CASE job' = [job EXCEPT ![n] = x] BY <1>1, <1>7, <1>8, <1>9, <1>10 DEF JobsFollow
  <1>11. CASE Continue(n, [x EXCEPT !.round = @ + 1], rest)
    <2>1. PICK y : y = [x EXCEPT !.round = @ + 1] OBVIOUS
    <2>2. x.round \in Nat BY <1>6 DEF Job
    <2>3. y \in Job /\ y.nomination = x.nomination /\ y.commit = x.commit BY <1>6, <2>1, <2>2 DEF Job
    <2> QED BY <1>1, <1>7, <1>8, <1>11, <2>1, <2>3, ContinueFollows
  <1>12. CASE Stop(n, rest) BY <1>12, StopFollows
  <1>13. CASE NextPhase(x) # "idle" /\ Enter(n, [x EXCEPT !.kind = NextKind(x)], NextPhase(x), rest)
    <2>1. NextPhase(x) \in Phases BY <1>13 DEF NextPhase, Phases
    <2>2. x.kind \in {"invoke", "recover", "tail"} BY <1>6 DEF Job
    <2>3. PICK k \in {"invoke", "recover", "tail"} : k = NextKind(x) BY <2>2 DEF NextKind
    <2>4. PICK y : y = [x EXCEPT !.kind = k] OBVIOUS
    <2>5. y \in Job /\ y.nomination = x.nomination /\ y.commit = x.commit BY <1>6, <2>4 DEF Job
    <2>6. PICK phase \in Phases : phase = NextPhase(x) BY <2>1
    <2>7. Enter(n, y, phase, rest) BY <1>13, <2>3, <2>4, <2>6
    <2> QED BY <1>1, <1>7, <1>8, <2>5, <2>7, EnterFollows
  <1>14. CASE Enter(n, x, "abort", rest)
    <2>1. PICK phase \in Phases : phase = "abort" BY DEF Phases
    <2> QED BY <1>1, <1>6, <1>7, <1>8, <1>14, <2>1, EnterFollows
  <1> QED BY <1>3, <1>10, <1>11, <1>12, <1>13, <1>14, Zenon DEF apply_reservation_operation

(* A step of a job that touches nothing else.                              *)
LEMMA QuietStep ==
    ASSUME ProgramInv, UNCHANGED <<decisions, applied, batches, versions, head, acked>>,
           job' \in [Nodes -> Job \cup {Idle}], wire' \in SUBSET Message, JobsOK', Tenure', WireOK'
    PROVE  ProgramInv'
  <1>1. /\ Typed /\ LogOK BY DEF ProgramInv
  <1>2. Typed' BY <1>1 DEF Typed
  <1>3. LogOK' BY <1>1, SameLog
  <1> QED BY <1>2, <1>3, SameData DEF ProgramInv

LEMMA RestIsWire ==
    ASSUME Typed, WireOK, NEW n \in Nodes, \A q \in wire : ~q.late => q.from # n
    PROVE  RestOK(n, wire)
  BY DEF RestOK, WireOK, Typed

(* A job that waits for nobody has nothing live on the wire.               *)
LEMMA WaitsForNone ==
    ASSUME Typed, WireOK, NEW n \in Nodes, job[n] = Idle \/ job[n].waiting = {}
    PROVE  RestOK(n, wire)
  <1>1. \A q \in wire : ~q.late => q.from # n BY DEF WireOK, OfRound
  <1> QED BY <1>1, RestIsWire

(* A phase with no rounds waits for nobody. *)
LEMMA PhaseWaits ==
    ASSUME Typed, JobsOK, NEW n \in Nodes, job[n].phase \in {"stage", "abandon", "decide", "through", "abort"}
    PROVE  /\ job[n] \in Job /\ job[n].waiting = {}
           /\ \E b \in batches : JobFits(job[n], b)
  <1>1. job[n] # Idle BY DEF Idle
  <1>2. job[n] \in Job BY <1>1 DEF Typed
  <1>3. PICK b \in batches : JobFits(job[n], b) BY <1>1 DEF JobsOK
  <1>4. RoundsOf(b.invocation, job[n].phase) = << >> BY NoRounds
  <1>5. job[n].waiting = {} BY <1>3, <1>4 DEF JobFits
  <1> QED BY <1>2, <1>3, <1>5

(* A job enters a phase other than publication.                            *)
LEMMA EnterStep ==
    ASSUME Grows, Typed, LogOK, JobsOK, WireOK, NEW n \in Nodes, NEW j \in Job, NEW rest,
           NEW b \in batches, b.begin = j.begin, CommitKnown(j)',
           NEW phase \in Phases \ {"finalize", "through"}, phase = "commit" => j.commit # 0,
           RestOK(n, rest), Enter(n, j, phase, rest)
    PROVE  /\ job' \in [Nodes -> Job \cup {Idle}] /\ wire' \in SUBSET Message
           /\ JobsOK' /\ WireOK'
  <1>1. PICK x : x = [j EXCEPT !.phase = phase, !.round = 1] OBVIOUS
  <1>2. Continue(n, x, rest) BY <1>1 DEF Enter
  <1>3. x \in Job BY <1>1 DEF Job
  <1>4. x.phase = phase /\ x.round = 1 /\ x.begin = j.begin /\ x.commit = j.commit /\ x.kind = j.kind
    BY <1>1 DEF Job
  <1>5. CommitKnown(x)' BY <1>4 DEF CommitKnown
  <1>6. b.invocation \in Invocations BY BatchTyped
  <1>7. RoundsOf(b.invocation, phase) # << >> => 1 \in DOMAIN RoundsOf(b.invocation, phase)
    BY <1>6, RoundExists
  <1>8. ReadyFor(x, b)' BY <1>4, <1>5, <1>7 DEF ReadyFor
  <1> QED BY <1>2, <1>3, <1>8, ContinueStep

(* What a node knows is part of the log.                                   *)
LEMMA ViewKnown ==
    ASSUME Typed, LogOK, NEW n \in Nodes
    PROVE  /\ View(n) \in DecisionState
           /\ View(n).decided \subseteq Current.decided
           /\ View(n).preparing # 0 => HasBatch(View(n).preparing)
  <1>1. applied[n] \in Nat /\ applied[n] < Len(decisions) /\ decisions \in Seq(DecisionState)
    BY DEF Typed
  <1>2. applied[n] + 1 \in 1..Len(decisions) BY <1>1
  <1>3. decisions[applied[n] + 1] \in DecisionState BY <1>1, <1>2
  <1> QED BY <1>2, <1>3 DEF View, LogOK

LEMMA CurrentTyped ==
    ASSUME Typed
    PROVE  /\ Current \in DecisionState /\ Len(decisions) \in Nat /\ Len(decisions) # 0
           /\ Len(decisions) \in 1..Len(decisions) /\ Current.decided \subseteq Decision
           /\ Current.finalized \in Nat /\ Current.preparing \in Nat /\ Current.nomination \in Nat
  <1>1. decisions \in Seq(DecisionState) /\ decisions # << >> BY DEF Typed
  <1>2. Len(decisions) \in Nat /\ Len(decisions) # 0 BY <1>1
  <1>3. Len(decisions) \in 1..Len(decisions) BY <1>2
  <1>4. Current \in DecisionState BY <1>1, <1>3 DEF Current
  <1> QED BY <1>2, <1>3, <1>4 DEF DecisionState

(* A job that starts from what its node knows.                             *)
LEMMA StartTenure ==
    ASSUME Typed, LogOK, Tenure, UNCHANGED decisions, NEW n \in Nodes, NEW x,
           job' = [job EXCEPT ![n] = x], x.nomination = View(n).nomination,
           x.commit = 0 \/ x.commit > View(n).finalized, x.commit \in Nat
    PROVE  Tenure'
  <1>1. applied[n] \in Nat /\ applied[n] < Len(decisions) /\ Len(decisions) \in Nat BY DEF Typed
  <1>2. applied[n] + 1 \in 1..Len(decisions) BY <1>1
  <1>3. View(n).nomination < Len(decisions) BY <1>2 DEF LogOK, View
  <1>4. Current.executor = n => View(n) = Current BY <1>1 DEF LogOK, View, Current
  <1>5. Current' = Current BY DEF Current
  <1>6. Current.finalized \in Nat BY CurrentTyped
  <1>7. x.nomination < Len(decisions) /\ (Current.executor = n /\ x.commit # 0 => Current.finalized <= x.commit)
    BY <1>3, <1>4, <1>6
  <1>8. job \in [Nodes -> Job \cup {Idle}] BY DEF Typed
  <1>9. job'[n] = x /\ \A m \in Nodes \ {n} : job'[m] = job[m] BY <1>8
  <1> QED BY <1>5, <1>7, <1>9 DEF Tenure, InTenure

LEMMA RecoverKeeps ==
    ASSUME ProgramInv, NEW n \in Nodes, recover_distributed_tail_locked(n)
    PROVE  ProgramInv'
  <1>1. Typed /\ LogOK /\ JobsOK /\ Tenure /\ WireOK BY DEF ProgramInv
  <1>2. UNCHANGED <<decisions, applied, batches, versions, head, acked>>
    BY DEF recover_distributed_tail_locked, store
  <1>3. Grows BY <1>2, SameData
  <1>4. RestOK(n, wire) BY <1>1, WaitsForNone DEF recover_distributed_tail_locked, MayExecute
  <1>5. PICK s \in DecisionState : s = View(n) BY <1>1, ViewKnown
  <1>6. s.preparing \in Nat /\ s.nomination \in Nat /\ s.decided \subseteq Decision BY DEF DecisionState
  <1>7. CASE s.preparing # 0
    <2>1. PICK phase \in {"stage", "abandon"} :
            job' = [job EXCEPT ![n] = NewJob("recover", phase, s.preparing, s.nomination, 0)]
      BY <1>5, <1>7 DEF recover_distributed_tail_locked
    <2>2. wire' = wire BY <1>5, <1>7 DEF recover_distributed_tail_locked
    <2>3. PICK x : x = NewJob("recover", phase, s.preparing, s.nomination, 0) OBVIOUS
    <2>4. x \in Job BY <1>6, <2>3 DEF NewJob, Job, Phases
    <2>5. /\ x.kind = "recover" /\ x.phase = phase /\ x.begin = s.preparing /\ x.commit = 0
          /\ x.waiting = {}
      BY <2>3 DEF NewJob
    <2>6. PICK b \in batches : b.begin = s.preparing BY <1>1, <1>5, <1>7, ViewKnown DEF HasBatch
    <2>7. RoundsOf(b.invocation, x.phase) = << >> BY <2>5, NoRounds
    <2>8. JobFits(x, b)' BY <2>5, <2>6, <2>7 DEF JobFits, ReadyFor, CommitKnown
    <2>9. b \in batches' BY <1>2
    <2>10. \A q \in wire' : q \in Message /\ RequestOK(q)' BY <1>3, <1>4, <2>2, RequestGrows DEF RestOK
    <2>11. \A q \in wire' : ~q.late => q \in wire /\ q.from # n BY <1>4, <2>2 DEF RestOK
    <2>12. /\ job' \in [Nodes -> Job \cup {Idle}] /\ wire' \in SUBSET Message
           /\ JobsOK' /\ WireOK'
      BY <1>1, <1>3, <2>1, <2>3, <2>4, <2>8, <2>9, <2>10, <2>11, JobsStep
    <2>13. x.nomination = View(n).nomination BY <1>5, <2>3 DEF NewJob
    <2>14. Tenure'
      <3>1. job' = [job EXCEPT ![n] = x] BY <2>1, <2>3
      <3>2. x.commit = 0 /\ x.commit \in Nat BY <2>5
      <3> QED BY <1>1, <1>2, <2>13, <3>1, <3>2, StartTenure
    <2> QED BY <1>2, <2>12, <2>14, QuietStep
  <1>8. CASE s.preparing = 0
    <2>1. PICK d \in Unfinalized(s) :
            Continue(n, NewJob("tail", "reserve", d.begin, s.nomination, d.commit), wire)
      BY <1>5, <1>8 DEF recover_distributed_tail_locked
    <2>2. d \in Current.decided /\ d \in Decision
      BY <1>1, <1>5, <1>6, ViewKnown DEF Unfinalized
    <2>3. d.begin \in Nat /\ d.commit \in Nat BY <2>2 DEF Decision
    <2>4. PICK x : x = NewJob("tail", "reserve", d.begin, s.nomination, d.commit) OBVIOUS
    <2>5. x \in Job BY <1>6, <2>3, <2>4 DEF NewJob, Job, Phases
    <2>6. /\ x.kind = "tail" /\ x.phase = "reserve" /\ x.begin = d.begin /\ x.commit = d.commit
          /\ x.round = 1
      BY <2>4 DEF NewJob
    <2>7. d.commit # 0 /\ HasBatch(d.begin) BY <1>1, <2>2 DEF LogOK
    <2>8. PICK b \in batches : b.begin = d.begin BY <2>7 DEF HasBatch
    <2>9. CommitKnown(x)
      BY <2>2, <2>6, <2>7 DEF CommitKnown, HasDecision
    <2>10. CommitKnown(x)' BY <1>3, <2>9, CommitKnownGrows
    <2>11. b.invocation \in Invocations /\ "reserve" \in Phases BY <1>1, BatchTyped DEF Phases
    <2>12. RoundsOf(b.invocation, "reserve") # << >> => 1 \in DOMAIN RoundsOf(b.invocation, "reserve")
      BY <2>11, RoundExists
    <2>13. ReadyFor(x, b)' BY <2>6, <2>8, <2>10, <2>12 DEF ReadyFor
    <2>14. Continue(n, x, wire) BY <2>1, <2>4
    <2>15. /\ job' \in [Nodes -> Job \cup {Idle}] /\ wire' \in SUBSET Message
           /\ JobsOK' /\ WireOK'
      BY <1>1, <1>3, <1>4, <2>5, <2>13, <2>14, ContinueStep
    <2>16. Tenure'
      <3>1. PICK to : job' = [job EXCEPT ![n] = [x EXCEPT !.waiting = to, !.acks = 0, !.rejections = 0]]
        BY <2>14 DEF Continue
      <3>2. PICK y : y = [x EXCEPT !.waiting = to, !.acks = 0, !.rejections = 0] OBVIOUS
      <3>3. y.nomination = x.nomination /\ y.commit = x.commit BY <2>5, <3>2 DEF Job
      <3>4. y.nomination = View(n).nomination BY <1>5, <2>4, <3>3 DEF NewJob
      <3>5. y.commit > View(n).finalized BY <1>5, <2>6, <3>3 DEF Unfinalized
      <3>6. y.commit \in Nat BY <2>3, <2>6, <3>3
      <3> QED BY <1>1, <1>2, <3>1, <3>2, <3>4, <3>5, <3>6, StartTenure
    <2> QED BY <1>2, <2>15, <2>16, QuietStep
  <1> QED BY <1>7, <1>8

LEMMA StageKeeps ==
    ASSUME ProgramInv, NEW n \in Nodes, stage_prepared(n)
    PROVE  ProgramInv'
  <1>1. Typed /\ LogOK /\ JobsOK /\ Tenure /\ WireOK BY DEF ProgramInv
  <1>2. UNCHANGED <<decisions, applied, batches, versions, head, acked>> BY DEF stage_prepared, store
  <1>3. Grows BY <1>2, SameData
  <1>4. job[n].phase = "stage" BY DEF stage_prepared
  <1>5. job[n] \in Job /\ job[n].waiting = {} /\ \E b \in batches : JobFits(job[n], b)
    BY <1>1, <1>4, PhaseWaits
  <1>6. RestOK(n, wire) BY <1>1, <1>5, WaitsForNone
  <1>7. PICK j \in Job : j = job[n] BY <1>5
  <1>8. PICK b \in batches : JobFits(j, b) BY <1>5, <1>7
  <1>9. b.begin = j.begin /\ CommitKnown(j) BY <1>8 DEF JobFits, ReadyFor
  <1>10. CommitKnown(j)' BY <1>3, <1>9, CommitKnownGrows
  <1>11. /\ job' \in [Nodes -> Job \cup {Idle}] /\ wire' \in SUBSET Message
         /\ JobsOK' /\ WireOK'
    <2>1. CASE \E phase \in {"reserve", "abandon"} : Enter(n, job[n], phase, wire)
      <3>1. PICK phase \in {"reserve", "abandon"} : Enter(n, j, phase, wire) BY <1>7, <2>1
      <3>2. phase \in Phases \ {"finalize", "through"} /\ phase # "commit" BY DEF Phases
      <3> QED BY <1>1, <1>3, <1>6, <1>9, <1>10, <3>1, <3>2, EnterStep
    <2>2. CASE Stop(n, wire) BY <1>1, <1>3, <1>6, <2>2, StopStep
    <2> QED BY <2>1, <2>2 DEF stage_prepared
  <1>12. job[n] # Idle BY <1>4 DEF Idle
  <1>13. JobsFollow
    <2>1. CASE \E phase \in {"reserve", "abandon"} : Enter(n, job[n], phase, wire)
      <3>1. PICK phase \in {"reserve", "abandon"} : Enter(n, j, phase, wire) BY <1>7, <2>1
      <3>2. phase \in Phases BY DEF Phases
      <3> QED BY <1>1, <1>7, <1>12, <3>1, <3>2, EnterFollows
    <2>2. CASE Stop(n, wire) BY <1>1, <2>2, StopFollows
    <2> QED BY <2>1, <2>2 DEF stage_prepared
  <1>14. Tenure' BY <1>1, <1>2, <1>13, FollowsTenure
  <1> QED BY <1>2, <1>11, <1>14, QuietStep

LEMMA RejectedKeeps ==
    ASSUME ProgramInv, NEW n \in Nodes, SubmitRejected(n)
    PROVE  ProgramInv'
  <1>1. Typed /\ LogOK /\ JobsOK /\ Tenure /\ WireOK BY DEF ProgramInv
  <1>2. UNCHANGED <<decisions, applied, batches, versions, head, acked>> BY DEF SubmitRejected, store
  <1>3. Grows BY <1>2, SameData
  <1>4. job[n].waiting = {} BY <1>1, PhaseWaits DEF SubmitRejected
  <1>5. RestOK(n, wire) BY <1>1, <1>4, WaitsForNone
  <1>6. Stop(n, wire) BY DEF SubmitRejected
  <1>7. /\ job' \in [Nodes -> Job \cup {Idle}] /\ wire' \in SUBSET Message
        /\ JobsOK' /\ WireOK'
    BY <1>1, <1>3, <1>5, <1>6, StopStep
  <1>8. Tenure' BY <1>1, <1>2, <1>6, StopFollows, FollowsTenure
  <1> QED BY <1>2, <1>7, <1>8, QuietStep

(* The wire loses requests, or changes ones nobody waits for.              *)
LEMMA WireStep ==
    ASSUME Grows, Typed, LogOK, JobsOK, WireOK, UNCHANGED job,
           \A m \in wire' : m \in Message /\ RequestOK(m) /\ (~m.late => m \in wire)
    PROVE  /\ job' \in [Nodes -> Job \cup {Idle}] /\ wire' \in SUBSET Message
           /\ JobsOK' /\ WireOK'
  <1>1. ASSUME NEW n \in Nodes, job[n] # Idle PROVE \E b \in batches' : JobFits(job[n], b)'
    <2>1. job \in [Nodes -> Job \cup {Idle}] BY DEF Typed
    <2>2. PICK j \in Job : j = job[n] BY <1>1, <2>1
    <2>3. PICK b \in batches : JobFits(j, b) BY <1>1, <2>2 DEF JobsOK
    <2>4. JobFits(j, b)' BY <2>3, JobGrows
    <2>5. j = job'[n] BY <2>2
    <2>6. JobFits(job[n], b)' BY <2>4, <2>5 DEF JobFits, ReadyFor, CommitKnown, Progress, Counted
    <2> QED BY <2>6 DEF Grows
  <1>2. JobsOK' BY <1>1 DEF JobsOK
  <1>3. \A q \in wire' : RequestOK(q)' BY RequestGrows
  <1>4. \A q \in wire' : ~q.late => /\ job'[q.from] # Idle
                                    /\ \E b \in batches' : OfRound(q, job'[q.from], b)
    BY DEF WireOK, Grows
  <1>5. WireOK' BY <1>3, <1>4 DEF WireOK
  <1> QED BY <1>2, <1>5 DEF Typed

LEMMA LateCopy ==
    ASSUME Typed, WireOK, NEW q \in wire
    PROVE  /\ q \in Message /\ RequestOK(q)
           /\ [q EXCEPT !.late = TRUE] \in Message /\ RequestOK([q EXCEPT !.late = TRUE])
           /\ [q EXCEPT !.late = TRUE].late
           /\ [q EXCEPT !.admitted = TRUE] \in Message /\ RequestOK([q EXCEPT !.admitted = TRUE])
           /\ [q EXCEPT !.admitted = TRUE].late = q.late
  <1>1. q \in Message /\ RequestOK(q) BY DEF Typed, WireOK
  <1>2. PICK x, y : x = [q EXCEPT !.late = TRUE] /\ y = [q EXCEPT !.admitted = TRUE] OBVIOUS
  <1>3. /\ x \in Message /\ y \in Message /\ x.late /\ y.late = q.late
        /\ x.begin = q.begin /\ x.commit = q.commit /\ x.op = q.op /\ x.path = q.path
        /\ y.begin = q.begin /\ y.commit = q.commit /\ y.op = q.op /\ y.path = q.path
    BY <1>1, <1>2 DEF Message
  <1>4. RequestOK(x) /\ RequestOK(y) BY <1>1, <1>3 DEF RequestOK
  <1> QED BY <1>1, <1>2, <1>3, <1>4

(* What the jobs and the wire owe to a step they take no part in.          *)
LEMMA Bystanders ==
    ASSUME Grows, Typed, LogOK, JobsOK, WireOK, UNCHANGED <<job, wire>>
    PROVE  JobsOK' /\ WireOK'
  <1>1. \A m \in wire' : m \in Message /\ RequestOK(m) /\ (~m.late => m \in wire) BY LateCopy
  <1> QED BY <1>1, WireStep

(* A request whose sender waits is one of its round.                       *)
LEMMA LiveRequest ==
    ASSUME Typed, LogOK, JobsOK, WireOK, NEW q \in wire, ~q.late
    PROVE  /\ q.from \in Nodes /\ q.to \in Nodes
           /\ \E j \in Job, b \in batches :
                j = job[q.from] /\ JobFits(j, b) /\ OfRound(q, j, b) /\ q.to \in j.waiting
           /\ \A m \in wire \ {q} : ~m.late /\ m.from = q.from => m.to # q.to
  <1>1. q.from \in Nodes /\ q.to \in Nodes BY DEF Typed, Message
  <1>2. job[q.from] # Idle BY DEF WireOK
  <1>3. PICK j \in Job : j = job[q.from] BY <1>1, <1>2 DEF Typed
  <1>4. PICK a \in batches : OfRound(q, j, a) BY <1>3 DEF WireOK
  <1>5. PICK b \in batches : JobFits(j, b) BY <1>1, <1>2, <1>3 DEF JobsOK
  <1>6. a = b BY <1>4, <1>5 DEF OfRound, JobFits, ReadyFor, LogOK
  <1>7. q.to \in j.waiting BY <1>4 DEF OfRound
  <1> QED BY <1>1, <1>3, <1>4, <1>5, <1>6, <1>7, OneRequestEach

LEMMA AbandonKeeps ==
    ASSUME ProgramInv, NEW n \in Nodes, Abandon(n)
    PROVE  ProgramInv'
  <1>1. Typed /\ LogOK /\ JobsOK /\ Tenure /\ WireOK BY DEF ProgramInv
  <1>2. UNCHANGED <<decisions, applied, batches, versions, head, acked>> BY DEF Abandon, store
  <1>3. Grows BY <1>2, SameData
  <1> DEFINE live == {q \in wire : q.from = n /\ ~q.late}
             rest == (wire \ live) \cup {[q EXCEPT !.late = TRUE] : q \in live}
  <1>4. Stop(n, rest) BY DEF Abandon
  <1>5. ASSUME NEW m \in rest PROVE m \in Message /\ RequestOK(m) /\ (~m.late => m \in wire /\ m.from # n)
    <2>1. CASE m \in wire \ live BY <1>1, <2>1, LateCopy
    <2>2. CASE \E q \in live : m = [q EXCEPT !.late = TRUE]
      <3>1. PICK q \in live : m = [q EXCEPT !.late = TRUE] BY <2>2
      <3>2. q \in wire OBVIOUS
      <3> QED BY <1>1, <3>1, <3>2, LateCopy
    <2> QED BY <2>1, <2>2
  <1>6. RestOK(n, rest) BY <1>5 DEF RestOK
  <1> HIDE DEF rest
  <1>7. /\ job' \in [Nodes -> Job \cup {Idle}] /\ wire' \in SUBSET Message
        /\ JobsOK' /\ WireOK'
    BY <1>1, <1>3, <1>4, <1>6, StopStep
  <1>8. Tenure' BY <1>1, <1>2, <1>4, StopFollows, FollowsTenure
  <1> QED BY <1>2, <1>7, <1>8, QuietStep

LEMMA TimeOutKeeps ==
    ASSUME ProgramInv, NEW q \in wire, TimeOut(q)
    PROVE  ProgramInv'
  <1>1. Typed /\ LogOK /\ JobsOK /\ Tenure /\ WireOK BY DEF ProgramInv
  <1>2. UNCHANGED <<decisions, applied, batches, versions, head, acked>> BY DEF TimeOut, store
  <1>3. Grows BY <1>2, SameData
  <1>4. ~q.late BY DEF TimeOut
  <1>5. PICK n \in Nodes, r \in Nodes : n = q.from /\ r = q.to BY <1>1, <1>4, LiveRequest
  <1>6. PICK j \in Job, b \in batches : j = job[n] /\ JobFits(j, b) /\ r \in j.waiting
    BY <1>1, <1>4, <1>5, LiveRequest
  <1> DEFINE rest == (wire \ {q}) \cup {[q EXCEPT !.late = TRUE]}
  <1>7. ASSUME NEW m \in rest
        PROVE  m \in Message /\ RequestOK(m) /\ (~m.late => m \in wire /\ (m.from = n => m.to # r))
    <2>1. CASE m \in wire \ {q} BY <1>1, <1>4, <1>5, <2>1, LateCopy, LiveRequest
    <2>2. CASE m = [q EXCEPT !.late = TRUE] BY <1>1, <2>2, LateCopy
    <2> QED BY <2>1, <2>2
  <1>8. Answered(n, r, "unavailable", rest) BY <1>5 DEF TimeOut
  <1> HIDE DEF rest
  <1>9. PICK outcome : outcome = "unavailable" OBVIOUS
  <1>10. /\ job' \in [Nodes -> Job \cup {Idle}] /\ wire' \in SUBSET Message
         /\ JobsOK' /\ WireOK'
    BY <1>1, <1>3, <1>6, <1>7, <1>8, <1>9, AnsweredStep
  <1>11. Tenure' BY <1>1, <1>2, <1>6, <1>8, <1>9, AnsweredFollows, FollowsTenure
  <1> QED BY <1>2, <1>10, <1>11, QuietStep

(* An answer that no publication depends on, or that keeps its word.       *)
LEMMA ReplyStep ==
    ASSUME Grows, Typed, LogOK, JobsOK, WireOK, NEW q \in wire, NEW outcome, Reply(q, outcome),
           outcome = "ok" /\ ~q.late /\ q.op \in Publications =>
             \E b \in batches : b.begin = q.begin /\ q.to \in Have(b.begin, q.path, Nodes)'
    PROVE  /\ job' \in [Nodes -> Job \cup {Idle}] /\ wire' \in SUBSET Message
           /\ JobsOK' /\ WireOK'
  <1>1. CASE q.late
    <2>1. wire' = wire \ {q} /\ UNCHANGED job BY <1>1 DEF Reply
    <2> QED BY <2>1, LateCopy, WireStep
  <1>2. CASE ~q.late
    <2>1. PICK n \in Nodes, r \in Nodes : n = q.from /\ r = q.to BY <1>2, LiveRequest
    <2>2. PICK j \in Job, b \in batches : j = job[n] /\ JobFits(j, b) /\ OfRound(q, j, b) /\ r \in j.waiting
      BY <1>2, <2>1, LiveRequest
    <2>3. PICK rest : rest = wire \ {q} OBVIOUS
    <2>4. \A m \in rest : m \in Message /\ RequestOK(m) /\ (~m.late => m \in wire /\ (m.from = n => m.to # r))
      BY <1>2, <2>1, <2>3, LateCopy, LiveRequest
    <2>5. Answered(n, r, outcome, rest) BY <1>2, <2>1, <2>3 DEF Reply
    <2>6. ASSUME outcome = "ok", j.phase = "finalize"
          PROVE  r \in Have(b.begin, RoundsOf(b.invocation, "finalize")[j.round].path, Nodes)'
      <3>1. b.invocation \in Invocations BY BatchTyped
      <3>2. RoundsOf(b.invocation, "finalize") # << >> => j.round \in DOMAIN RoundsOf(b.invocation, "finalize")
        BY <2>2, <2>6 DEF JobFits, ReadyFor
      <3>3. RoundsOf(b.invocation, "finalize")[j.round].op \in Publications BY <3>1, <3>2, RoundOf
      <3>4. /\ q.op = RoundsOf(b.invocation, "finalize")[j.round].op
            /\ q.path = RoundsOf(b.invocation, "finalize")[j.round].path
            /\ b.begin = q.begin
        BY <2>2, <2>6 DEF OfRound
      <3>5. q.to \in Have(b.begin, q.path, Nodes)' BY <1>2, <2>6, <3>3, <3>4
      <3> QED BY <2>1, <3>4, <3>5
    <2> QED BY <2>2, <2>4, <2>5, <2>6, AnsweredStep
  <1> QED BY <1>1, <1>2

LEMMA ReplyFollows ==
    ASSUME Typed, LogOK, JobsOK, WireOK, NEW q \in wire, NEW outcome, Reply(q, outcome)
    PROVE  JobsFollow
  <1>1. CASE q.late
    <2>1. UNCHANGED job BY <1>1 DEF Reply
    <2> QED BY <2>1 DEF JobsFollow
  <1>2. CASE ~q.late
    <2>1. PICK n \in Nodes, r \in Nodes : n = q.from /\ r = q.to BY <1>2, LiveRequest
    <2>2. job[n] \in Job BY <1>2, <2>1, LiveRequest
    <2>3. PICK rest : rest = wire \ {q} OBVIOUS
    <2>4. Answered(n, r, outcome, rest) BY <1>2, <2>1, <2>3 DEF Reply
    <2> QED BY <2>2, <2>4, AnsweredFollows
  <1> QED BY <1>1, <1>2

LEMMA AdmitKeeps ==
    ASSUME ProgramInv, NEW q \in wire, Admit(q)
    PROVE  ProgramInv'
  <1>1. Typed /\ LogOK /\ JobsOK /\ Tenure /\ WireOK BY DEF ProgramInv
  <1>2. UNCHANGED <<decisions, applied, batches, versions, head, acked>> BY DEF Admit, store
  <1>3. Grows BY <1>2, SameData
  <1>4. UNCHANGED job /\ wire' = (wire \ {q}) \cup {[q EXCEPT !.admitted = TRUE]} /\ q.late BY DEF Admit
  <1>5. ASSUME NEW m \in wire' PROVE m \in Message /\ RequestOK(m) /\ (~m.late => m \in wire)
    <2>1. CASE m \in wire BY <1>1, <2>1, LateCopy
    <2>2. CASE m = [q EXCEPT !.admitted = TRUE] BY <1>1, <1>4, <2>2, LateCopy
    <2> QED BY <1>4, <2>1, <2>2
  <1>6. /\ job' \in [Nodes -> Job \cup {Idle}] /\ wire' \in SUBSET Message
        /\ JobsOK' /\ WireOK'
    BY <1>1, <1>3, <1>4, <1>5, WireStep
  <1>7. JobsFollow BY <1>4 DEF JobsFollow
  <1>8. Tenure' BY <1>1, <1>2, <1>7, FollowsTenure
  <1> QED BY <1>2, <1>6, <1>8, QuietStep

LEMMA RefuseKeeps ==
    ASSUME ProgramInv, NEW q \in wire, Refuse(q)
    PROVE  ProgramInv'
  <1>1. Typed /\ LogOK /\ JobsOK /\ Tenure /\ WireOK BY DEF ProgramInv
  <1>2. UNCHANGED <<decisions, applied, batches, versions, head, acked>> BY DEF Refuse, store
  <1>3. Grows BY <1>2, SameData
  <1>4. PICK outcome : outcome = Admission(q) OBVIOUS
  <1>5. Reply(q, outcome) /\ outcome # "ok" BY <1>4 DEF Refuse
  <1>6. /\ job' \in [Nodes -> Job \cup {Idle}] /\ wire' \in SUBSET Message
        /\ JobsOK' /\ WireOK'
    BY <1>1, <1>3, <1>5, ReplyStep
  <1>7. Tenure' BY <1>1, <1>2, <1>5, ReplyFollows, FollowsTenure
  <1> QED BY <1>2, <1>6, <1>7, QuietStep

(* A sweep of reservations, whatever it does to them.                      *)
LEMMA SweepKeeps ==
    ASSUME ProgramInv, UNCHANGED <<decisions, applied, batches, versions, head, acked, job, wire>>
    PROVE  ProgramInv'
  <1>1. Typed /\ LogOK /\ JobsOK /\ Tenure /\ WireOK BY DEF ProgramInv
  <1>2. Grows BY SameData
  <1>3. JobsOK' /\ WireOK' BY <1>1, <1>2, Bystanders
  <1>4. JobsFollow BY DEF JobsFollow
  <1>5. Tenure' BY <1>1, <1>4, FollowsTenure
  <1> QED BY <1>1, <1>3, <1>5, QuietStep DEF Typed

-----------------------------------------------------------------------------
(* Log entries. *)

(* The next decision state keeps what has been decided and protects one    *)
(* batch at a time.                                                        *)
Successor(n, s) ==
    /\ s \in DecisionState
    /\ Current.decided \subseteq s.decided
    /\ \A d \in s.decided : /\ d.commit # 0 /\ d.commit <= Len(decisions)
                            /\ d.begin # s.preparing /\ HasBatch(d.begin)'
    /\ s.preparing # 0 => HasBatch(s.preparing)'
    /\ s.nomination <= Len(decisions) /\ s.finalized <= Len(decisions)
    /\ \A d, e \in Unfinalized(s) : d = e
    /\ s.preparing # 0 => Unfinalized(s) = {}
    /\ s.executor \in Nodes => s.executor = n
    /\ \A begin : /\ HasBatch(begin) /\ begin # Current.preparing
                  /\ ~ \E d \in Current.decided : d.begin = begin
                  => /\ begin # s.preparing
                     /\ ~ \E d \in s.decided : d.begin = begin

LEMMA Appended ==
    ASSUME Typed, NEW n \in Nodes, NEW s \in DecisionState, AppendEntry(n, s)
    PROVE  /\ Current' = s
           /\ Len(decisions') = Len(decisions) + 1
           /\ \A k \in 1..Len(decisions) : decisions'[k] = decisions[k]
           /\ decisions'[Len(decisions) + 1] = s
           /\ decisions' \in Seq(DecisionState) /\ decisions' # << >>
           /\ applied' \in [Nodes -> Nat]
           /\ \A m \in Nodes : applied'[m] < Len(decisions')
           /\ applied'[n] = Len(decisions)
  <1>1. decisions \in Seq(DecisionState) /\ Len(decisions) \in Nat BY DEF Typed
  <1>2. decisions' = Append(decisions, s) /\ applied' = [applied EXCEPT ![n] = Len(decisions)]
    BY DEF AppendEntry, NextIndex
  <1>3. /\ Len(decisions') = Len(decisions) + 1
        /\ \A k \in 1..Len(decisions) : decisions'[k] = decisions[k]
        /\ decisions'[Len(decisions) + 1] = s
        /\ decisions' \in Seq(DecisionState) /\ decisions' # << >>
    BY <1>1, <1>2
  <1>4. Current' = s BY <1>3 DEF Current
  <1>5. applied \in [Nodes -> Nat] /\ \A m \in Nodes : applied[m] < Len(decisions) BY DEF Typed
  <1>6. applied' \in [Nodes -> Nat] /\ applied'[n] = Len(decisions) BY <1>1, <1>2, <1>5
  <1>7. \A m \in Nodes : applied'[m] < Len(decisions) + 1 BY <1>1, <1>2, <1>5
  <1> QED BY <1>3, <1>4, <1>6, <1>7

LEMMA AppendKeepsLog ==
    ASSUME Typed, LogOK, NEW n \in Nodes, NEW s, Successor(n, s), AppendEntry(n, s),
           batches \subseteq batches', batches' \in SUBSET BatchRecord,
           \A b \in batches' : b.begin # 0 /\ b.begin <= Len(decisions),
           \A a, b \in batches' : a.begin = b.begin => a = b
    PROVE  LogOK'
  <1>1. s \in DecisionState BY DEF Successor
  <1>2. Current' = s /\ Len(decisions') = Len(decisions) + 1 BY <1>1, Appended
  <1>3. Len(decisions) \in Nat BY CurrentTyped
  <1>4. \A b \in batches' : b.begin # 0 /\ b.begin < Len(decisions')
    <2> SUFFICES ASSUME NEW b \in batches' PROVE b.begin < Len(decisions) + 1 BY <1>2
    <2>1. b.begin <= Len(decisions) OBVIOUS
    <2>2. b.begin \in Nat BY DEF BatchRecord
    <2> QED BY <1>3, <2>1, <2>2
  <1>5. ASSUME NEW k \in 1..Len(decisions')
        PROVE  /\ decisions'[k].decided \subseteq s.decided
               /\ decisions'[k].preparing # 0 => HasBatch(decisions[k].preparing)'
               /\ decisions'[k].nomination < Len(decisions')
    <2>1. CASE k \in 1..Len(decisions)
      <3>1. decisions'[k] = decisions[k] BY <1>1, <2>1, Appended
      <3>2. PICK e : e = decisions[k] OBVIOUS
      <3>3. /\ e.decided \subseteq Current.decided /\ (e.preparing # 0 => HasBatch(e.preparing))
            /\ e.nomination < Len(decisions)
        BY <2>1, <3>2 DEF LogOK
      <3>4. e \in DecisionState BY <2>1, <3>2 DEF Typed
      <3>5. e.nomination \in Nat BY <3>4 DEF DecisionState
      <3>6. e.nomination < Len(decisions) + 1 BY <1>3, <3>3, <3>5
      <3>7. e.preparing # 0 => HasBatch(e.preparing)' BY <3>3 DEF HasBatch
      <3>8. e.decided \subseteq s.decided BY <3>3 DEF Successor
      <3> QED BY <1>2, <3>1, <3>2, <3>6, <3>7, <3>8 DEF HasBatch
    <2>2. CASE k = Len(decisions) + 1
      <3>1. decisions'[k] = s BY <1>1, <2>2, Appended
      <3>2. s.nomination \in Nat BY <1>1 DEF DecisionState
      <3>3. s.nomination < Len(decisions) + 1 BY <1>3, <3>2 DEF Successor
      <3> QED BY <1>2, <3>1, <3>3 DEF Successor, HasBatch
    <2> QED BY <1>2, <1>3, <2>1, <2>2
  <1>6. ASSUME NEW d \in s.decided
        PROVE  /\ d.commit # 0 /\ d.commit < Len(decisions')
               /\ d.begin # s.preparing /\ HasBatch(d.begin)'
    <2>1. d \in Decision BY <1>1 DEF DecisionState
    <2>2. d.commit \in Nat BY <2>1 DEF Decision
    <2> QED BY <1>2, <1>3, <2>2 DEF Successor
  <1>7. s.finalized < Len(decisions')
    <2>1. s.finalized \in Nat BY <1>1 DEF DecisionState
    <2> QED BY <1>2, <1>3, <2>1 DEF Successor
  <1>8. \A m \in Nodes : s.executor = m => applied'[m] = Len(decisions') - 1
    BY <1>1, <1>2, <1>3, Appended DEF Successor
  <1>9. (\A d, e \in Unfinalized(s) : d = e) /\ (s.preparing # 0 => Unfinalized(s) = {})
    BY DEF Successor
  <1>10. (\A d, e \in Unfinalized(Current)' : d = e) /\ (s.preparing # 0 => Unfinalized(Current)' = {})
    BY <1>2, <1>9 DEF Unfinalized
  <1> QED BY <1>2, <1>4, <1>5, <1>6, <1>7, <1>8, <1>10 DEF LogOK

(* An entry that moves no replica and prepares nothing.                    *)
LEMMA AppendKeepsData ==
    ASSUME ProgramInv, NEW n \in Nodes, NEW s, Successor(n, s), AppendEntry(n, s),
           UNCHANGED <<batches, versions, head, acked>>
    PROVE  /\ Grows /\ LogOK' /\ VersionsOK' /\ HeadsOK' /\ OneLine' /\ AckedOK'
  <1>1. Typed /\ LogOK /\ VersionsOK /\ HeadsOK /\ OneLine /\ AckedOK BY DEF ProgramInv
  <1>2. s \in DecisionState BY DEF Successor
  <1>3. Current' = s BY <1>1, <1>2, Appended
  <1>4. Grows BY <1>3 DEF Grows, Line, Successor
  <1>5. LogOK'
    <2>1. \A b \in batches' : b.begin # 0 /\ b.begin <= Len(decisions)
      <3> SUFFICES ASSUME NEW b \in batches PROVE b.begin # 0 /\ b.begin <= Len(decisions) OBVIOUS
      <3>1. b.begin \in Nat /\ Len(decisions) \in Nat BY <1>1, BatchTyped, CurrentTyped
      <3> QED BY <1>1, <3>1 DEF LogOK
    <2>2. \A a, b \in batches' : a.begin = b.begin => a = b BY <1>1 DEF LogOK
    <2> QED BY <1>1, <2>1, <2>2, AppendKeepsLog DEF Typed
  <1>6. \A w : Settled(w) => Settled(w)' BY <1>4, DecisionGrows DEF Settled
  <1>7. \A w : Line(w)' = Line(w) BY LineSame
  <1>8. VersionsOK'
    <2>1. ASSUME NEW v \in DOMAIN versions PROVE VersionOK(v)'
      <3>1. VersionOK(v) BY <1>1 DEF VersionsOK
      <3> QED BY <1>6, <3>1 DEF VersionOK, Line, HomeHead
    <2> QED BY <1>1, <2>1 DEF VersionsOK, IsPrepared
  <1>9. HeadsOK'
    <2>1. ASSUME NEW m \in Nodes, NEW p \in Paths PROVE HeadOK(m, p)'
      <3>1. HeadOK(m, p) BY <1>1 DEF HeadsOK
      <3> QED BY <1>6, <3>1 DEF HeadOK, Line
    <2> QED BY <2>1 DEF HeadsOK
  <1>10. ASSUME NEW w \in DOMAIN versions, Aborted(w) PROVE Aborted(w)'
    <2>1. PICK begin : begin = versions[w].begin OBVIOUS
    <2>2. begin # 0 /\ begin # Current.preparing /\ ~ \E d \in Current.decided : d.begin = begin
      BY <1>10, <2>1 DEF Aborted, IsDecided
    <2>3. HasBatch(begin) BY <1>1, <2>1, <2>2 DEF VersionsOK, VersionOK, HasBatch
    <2>4. begin # s.preparing /\ ~ \E d \in s.decided : d.begin = begin
      BY <2>2, <2>3 DEF Successor
    <2> QED BY <1>3, <2>1, <2>2, <2>4 DEF Aborted, IsDecided
  <1>11. ASSUME NEW w, Bypassed(w) PROVE Bypassed(w)' BY <1>11 DEF Bypassed, HomeHead, Line
  <1>12. OneLine' BY <1>1, <1>10, <1>11 DEF OneLine
  <1>13. AckedOK' BY <1>1 DEF AckedOK, Holders, Line
  <1> QED BY <1>4, <1>5, <1>8, <1>9, <1>12, <1>13

LEMMA EntryStep ==
    ASSUME ProgramInv, NEW n \in Nodes, NEW s, Successor(n, s), AppendEntry(n, s),
           UNCHANGED <<batches, versions, head, acked>>,
           job' \in [Nodes -> Job \cup {Idle}], wire' \in SUBSET Message,
           JobsOK', Tenure', WireOK', FinalOK'
    PROVE  ProgramInv'
  <1>1. Typed BY DEF ProgramInv
  <1>2. s \in DecisionState BY DEF Successor
  <1>3. Typed' BY <1>1, <1>2, Appended DEF Typed
  <1> QED BY <1>3, AppendKeepsData DEF ProgramInv

(* An entry that finalizes nothing. *)
LEMMA NothingFinal ==
    ASSUME ProgramInv, NEW n \in Nodes, NEW s, Successor(n, s), AppendEntry(n, s),
           UNCHANGED <<batches, versions, head, acked>>,
           \A d \in s.decided : d.commit <= s.finalized => d \in Current.decided \ Unfinalized(Current)
    PROVE  FinalOK'
  <1>1. Typed /\ LogOK /\ FinalOK BY DEF ProgramInv
  <1>2. Grows /\ LogOK' BY AppendKeepsData
  <1>3. s \in DecisionState BY DEF Successor
  <1>4. Current' = s BY <1>1, <1>3, Appended
  <1>5. \A d \in s.decided : ~(d.commit > s.finalized) => d.commit <= s.finalized
    BY <1>3 DEF DecisionState, Decision
  <1>6. Current'.decided \ Unfinalized(Current)' \subseteq Current.decided \ Unfinalized(Current)
    <2> SUFFICES ASSUME NEW d \in Current'.decided, d \notin Unfinalized(Current)'
                 PROVE  d \in Current.decided \ Unfinalized(Current)
      OBVIOUS
    <2>1. d \in s.decided /\ ~(d.commit > s.finalized) BY <1>4 DEF Unfinalized
    <2> QED BY <1>5, <2>1
  <1> QED BY <1>1, <1>2, <1>6, FinalGrows

(* What the current state satisfies. *)
LEMMA CurrentKnown ==
    ASSUME Typed, LogOK
    PROVE  /\ Current \in DecisionState /\ Len(decisions) \in Nat
           /\ \A d \in Current.decided :
                /\ d \in Decision /\ d.begin \in Nat /\ d.commit \in Nat
                /\ d.commit # 0 /\ d.commit < Len(decisions)
                /\ d.begin # Current.preparing /\ d.begin # 0 /\ HasBatch(d.begin)
           /\ Current.preparing \in Nat /\ (Current.preparing # 0 => HasBatch(Current.preparing))
           /\ Current.nomination \in Nat /\ Current.nomination < Len(decisions)
           /\ Current.finalized \in Nat /\ Current.finalized < Len(decisions)
  <1>1. Current \in DecisionState /\ Len(decisions) \in Nat /\ Len(decisions) \in 1..Len(decisions)
    BY CurrentTyped
  <1>2. /\ Current.preparing \in Nat /\ Current.nomination \in Nat /\ Current.finalized \in Nat
        /\ Current.decided \subseteq Decision
    BY <1>1 DEF DecisionState
  <1>3. (Current.preparing # 0 => HasBatch(Current.preparing)) /\ Current.nomination < Len(decisions)
    BY <1>1 DEF LogOK, Current
  <1>4. ASSUME NEW d \in Current.decided
        PROVE  /\ d \in Decision /\ d.begin \in Nat /\ d.commit \in Nat
               /\ d.commit # 0 /\ d.commit < Len(decisions)
               /\ d.begin # Current.preparing /\ d.begin # 0 /\ HasBatch(d.begin)
    <2>1. d \in Decision /\ d.begin \in Nat /\ d.commit \in Nat BY <1>2 DEF Decision
    <2>2. d.commit # 0 /\ d.commit < Len(decisions) /\ d.begin # Current.preparing /\ HasBatch(d.begin)
      BY DEF LogOK
    <2>3. d.begin # 0 BY <2>2 DEF HasBatch, LogOK
    <2> QED BY <2>1, <2>2, <2>3
  <1>5. Current.finalized < Len(decisions) BY DEF LogOK
  <1> QED BY <1>1, <1>2, <1>3, <1>4, <1>5

LEMMA NominateKeeps ==
    ASSUME ProgramInv, NEW n \in Nodes, NominateExecutor(n)
    PROVE  ProgramInv'
  <1>1. Typed /\ LogOK /\ JobsOK /\ Tenure /\ WireOK BY DEF ProgramInv
  <1>2. UNCHANGED <<batches, versions, head, acked, job, wire>> BY DEF NominateExecutor, store
  <1>3. PICK s : s = [Current EXCEPT !.executor = n, !.nomination = Len(decisions)] OBVIOUS
  <1>4. AppendEntry(n, s) BY <1>3 DEF NominateExecutor, NextIndex
  <1>5. Current \in DecisionState /\ Len(decisions) \in Nat BY <1>1, CurrentKnown
  <1>6. /\ s \in DecisionState /\ s.executor = n /\ s.nomination = Len(decisions)
        /\ s.preparing = Current.preparing /\ s.decided = Current.decided /\ s.finalized = Current.finalized
    BY <1>3, <1>5 DEF DecisionState
  <1>7. Unfinalized(s) = Unfinalized(Current) BY <1>6 DEF Unfinalized
  <1>8. Successor(n, s)
    <2>1. \A d \in s.decided : /\ d.commit # 0 /\ d.commit <= Len(decisions)
                               /\ d.begin # s.preparing /\ HasBatch(d.begin)'
      BY <1>1, <1>2, <1>6, CurrentKnown DEF HasBatch
    <2>2. s.preparing # 0 => HasBatch(s.preparing)' BY <1>1, <1>2, <1>6, CurrentKnown DEF HasBatch
    <2>3. s.nomination <= Len(decisions) /\ s.finalized <= Len(decisions)
      BY <1>1, <1>5, <1>6, CurrentKnown
    <2>4. (\A d, e \in Unfinalized(s) : d = e) /\ (s.preparing # 0 => Unfinalized(s) = {})
      BY <1>1, <1>6, <1>7 DEF LogOK
    <2> QED BY <1>6, <2>1, <2>2, <2>3, <2>4 DEF Successor
  <1>9. FinalOK'
    <2>1. \A d \in s.decided : d.commit <= s.finalized => d \in Current.decided \ Unfinalized(Current)
      <3> SUFFICES ASSUME NEW d \in s.decided, d.commit <= s.finalized PROVE ~(d.commit > Current.finalized)
        BY <1>6 DEF Unfinalized
      <3>1. d.commit \in Nat /\ Current.finalized \in Nat BY <1>1, <1>6, CurrentKnown
      <3> QED BY <1>6, <3>1
    <2> QED BY <1>2, <1>4, <1>8, <2>1, NothingFinal
  <1>10. Grows BY <1>2, <1>4, <1>8, AppendKeepsData
  <1>11. JobsOK' /\ WireOK' BY <1>1, <1>2, <1>10, Bystanders
  <1>12. Tenure'
    <2>1. Current' = s /\ Len(decisions') = Len(decisions) + 1 BY <1>1, <1>4, <1>6, Appended
    <2> SUFFICES ASSUME NEW m \in Nodes, job'[m] # Idle PROVE InTenure(m, job[m])' BY DEF Tenure
    <2>2. job'[m] = job[m] /\ job[m].nomination < Len(decisions) BY <1>1, <1>2 DEF Tenure, InTenure
    <2>3. job[m] \in Job BY <1>1, <1>2 DEF Typed
    <2>4. job[m].nomination \in Nat BY <2>3 DEF Job
    <2>5. job[m].nomination < Len(decisions) + 1 /\ job[m].nomination # s.nomination
      BY <1>5, <1>6, <2>2, <2>4
    <2> QED BY <2>1, <2>2, <2>5 DEF InTenure
  <1>13. job' \in [Nodes -> Job \cup {Idle}] /\ wire' \in SUBSET Message BY <1>1, <1>2 DEF Typed
  <1> QED BY <1>2, <1>4, <1>8, <1>9, <1>11, <1>12, <1>13, EntryStep

LEMMA ApplyEntryKeeps ==
    ASSUME ProgramInv, NEW n \in Nodes, ApplyEntry(n)
    PROVE  ProgramInv'
  <1>1. Typed /\ LogOK /\ JobsOK /\ Tenure /\ WireOK BY DEF ProgramInv
  <1>2. UNCHANGED <<decisions, batches, versions, head, acked, job, wire>> BY DEF ApplyEntry, store
  <1>3. Grows /\ VersionsOK' /\ HeadsOK' /\ OneLine' /\ FinalOK' /\ AckedOK' BY <1>2, SameData
  <1>4. applied' = [applied EXCEPT ![n] = applied[n] + 1] /\ applied[n] + 1 < Len(decisions)
    BY DEF ApplyEntry, HasEntry
  <1>5. applied \in [Nodes -> Nat] /\ Len(decisions) \in Nat BY <1>1 DEF Typed
  <1>6. applied' \in [Nodes -> Nat] /\ \A m \in Nodes : applied'[m] < Len(decisions')
    BY <1>1, <1>2, <1>4, <1>5 DEF Typed
  <1>7. Typed' BY <1>1, <1>2, <1>6 DEF Typed
  <1>8. Current' = Current BY <1>2 DEF Current
  <1>9. ASSUME NEW m \in Nodes, Current.executor = m PROVE applied'[m] = Len(decisions) - 1
    <2>1. applied[m] = Len(decisions) - 1 BY <1>1, <1>9 DEF LogOK
    <2>2. m # n BY <1>4, <1>5, <2>1
    <2> QED BY <1>4, <1>5, <2>1, <2>2
  <1>10. LogOK' BY <1>1, <1>2, <1>8, <1>9 DEF LogOK, HasBatch, Unfinalized
  <1>11. JobsOK' /\ WireOK' BY <1>1, <1>2, <1>3, Bystanders
  <1>12. Tenure'
    <2>1. JobsFollow BY <1>2 DEF JobsFollow
    <2> QED BY <1>1, <1>2, <2>1, FollowsTenure
  <1> QED BY <1>3, <1>7, <1>10, <1>11, <1>12 DEF ProgramInv

LEMMA EnterJob ==
    ASSUME Typed, NEW n \in Nodes, NEW j \in Job, NEW rest, NEW phase \in Phases, Enter(n, j, phase, rest)
    PROVE  /\ \A m \in Nodes \ {n} : job'[m] = job[m]
           /\ job'[n].nomination = j.nomination /\ job'[n].commit = j.commit
  <1>1. PICK x : x = [j EXCEPT !.phase = phase, !.round = 1] OBVIOUS
  <1>2. Continue(n, x, rest) BY <1>1 DEF Enter
  <1>3. x \in Job /\ x.nomination = j.nomination /\ x.commit = j.commit BY <1>1 DEF Job
  <1>4. PICK to : job' = [job EXCEPT ![n] = [x EXCEPT !.waiting = to, !.acks = 0, !.rejections = 0]]
    BY <1>2 DEF Continue
  <1>5. PICK y : y = [x EXCEPT !.waiting = to, !.acks = 0, !.rejections = 0] OBVIOUS
  <1>6. y.nomination = j.nomination /\ y.commit = j.commit BY <1>3, <1>5 DEF Job
  <1>7. job \in [Nodes -> Job \cup {Idle}] BY DEF Typed
  <1> QED BY <1>4, <1>5, <1>6, <1>7

(* A command that is accepted leaves the other jobs where they are.        *)
LEMMA SubmitTenure ==
    ASSUME Typed, LogOK, Tenure, NEW n \in Nodes, NEW s \in DecisionState, AppendEntry(n, s), s.executor = n,
           \A m \in Nodes \ {n} : job'[m] = job[m], job[n] # Idle,
           job'[n] # Idle => /\ job'[n].nomination = job[n].nomination
                             /\ job'[n].commit # 0 => s.finalized <= job'[n].commit
    PROVE  Tenure'
  <1>1. Current' = s /\ Len(decisions') = Len(decisions) + 1 BY Appended
  <1>2. Len(decisions) \in Nat BY CurrentTyped
  <1>3. ASSUME NEW m \in Nodes, job[m] # Idle PROVE job[m].nomination < Len(decisions) + 1
    <2>1. job[m].nomination < Len(decisions) BY <1>3 DEF Tenure, InTenure
    <2>2. job[m] \in Job BY <1>3 DEF Typed
    <2>3. job[m].nomination \in Nat BY <2>2 DEF Job
    <2> QED BY <1>2, <2>1, <2>3
  <1> SUFFICES ASSUME NEW m \in Nodes, job'[m] # Idle PROVE InTenure(m, job[m])' BY DEF Tenure
  <1>4. CASE m = n BY <1>1, <1>3, <1>4 DEF InTenure
  <1>5. CASE m # n BY <1>1, <1>3, <1>5 DEF InTenure
  <1> QED BY <1>4, <1>5

LEMMA CommitKeeps ==
    ASSUME ProgramInv, NEW n \in Nodes, CommitPreparedBatch(n)
    PROVE  ProgramInv'
  <1>1. Typed /\ LogOK /\ JobsOK /\ Tenure /\ WireOK BY DEF ProgramInv
  <1>2. UNCHANGED <<batches, versions, head, acked>> BY DEF CommitPreparedBatch, store
  <1>3. job[n].phase = "decide" BY DEF CommitPreparedBatch
  <1>4. job[n] \in Job /\ job[n].waiting = {} /\ \E b \in batches : JobFits(job[n], b)
    BY <1>1, <1>3, PhaseWaits
  <1>5. PICK j \in Job : j = job[n] BY <1>4
  <1>6. PICK b \in batches : JobFits(j, b) BY <1>4, <1>5
  <1>7. b.begin = j.begin BY <1>6 DEF JobFits, ReadyFor
  <1>8. j.begin # 0 /\ HasBatch(j.begin) BY <1>1, <1>7 DEF LogOK, HasBatch
  <1>9. j.begin \in Nat /\ j.nomination \in Nat BY DEF Job
  <1>10. PICK L \in Nat : L = Len(decisions) BY <1>1, CurrentTyped
  <1>11. PICK d : d = [begin |-> j.begin, commit |-> L, executor |-> n, nomination |-> j.nomination]
    OBVIOUS
  <1>12. d \in Decision /\ d.begin = j.begin /\ d.commit = L BY <1>9, <1>11 DEF Decision
  <1>13. PICK s : s = [Current EXCEPT !.preparing = 0, !.decided = Current.decided \cup {d}] OBVIOUS
  <1>14. Submit(n, s) BY <1>5, <1>10, <1>11, <1>13 DEF CommitPreparedBatch, NextIndex
  <1>15. AppendEntry(n, s) /\ Current.executor = n /\ Current.preparing = j.begin
    BY <1>5, <1>14 DEF Submit, CommitPreparedBatch
  <1>16. /\ s \in DecisionState /\ s.preparing = 0 /\ s.decided = Current.decided \cup {d}
         /\ s.executor = n /\ s.nomination = Current.nomination /\ s.finalized = Current.finalized
    <2>1. Current \in DecisionState /\ Current.decided \subseteq Decision BY <1>1, CurrentTyped
    <2>2. PICK D \in SUBSET Decision : D = Current.decided \cup {d} BY <1>12, <2>1
    <2>3. s = [Current EXCEPT !.preparing = 0, !.decided = D] BY <1>13, <2>2
    <2>4. s \in DecisionState BY <2>1, <2>3 DEF DecisionState
    <2>5. /\ s.preparing = 0 /\ s.decided = D /\ s.executor = Current.executor
          /\ s.nomination = Current.nomination /\ s.finalized = Current.finalized
      BY <2>1, <2>3 DEF DecisionState
    <2> QED BY <1>15, <2>2, <2>4, <2>5
  <1>17. Unfinalized(Current) = {} BY <1>1, <1>8, <1>15 DEF LogOK
  <1>18. Unfinalized(s) \subseteq {d} BY <1>16, <1>17 DEF Unfinalized
  <1>19. Current.finalized \in Nat /\ Current.finalized < L /\ Current.nomination < L /\ L # 0
    BY <1>1, <1>10, CurrentKnown, CurrentTyped
  <1>20. Successor(n, s)
    <2>1. ASSUME NEW e \in s.decided
          PROVE  e.commit # 0 /\ e.commit <= L /\ e.begin # 0 /\ HasBatch(e.begin)'
      <3>1. CASE e = d BY <1>2, <1>8, <1>12, <1>19, <3>1 DEF HasBatch
      <3>2. CASE e \in Current.decided BY <1>1, <1>2, <1>10, <3>2, CurrentKnown DEF HasBatch
      <3> QED BY <1>16, <3>1, <3>2
    <2>2. s.nomination <= L /\ s.finalized <= L BY <1>1, <1>10, <1>16, CurrentKnown
    <2>3. ASSUME NEW begin, HasBatch(begin), begin # Current.preparing,
                 ~ \E e \in Current.decided : e.begin = begin
          PROVE  begin # s.preparing /\ ~ \E e \in s.decided : e.begin = begin
      <3>1. begin # 0 BY <1>1, <2>3 DEF HasBatch, LogOK
      <3> QED BY <1>12, <1>15, <1>16, <2>3, <3>1
    <2> QED BY <1>10, <1>16, <1>18, <2>1, <2>2, <2>3 DEF Successor
  <1>21. FinalOK'
    <2>1. ASSUME NEW e \in s.decided, e.commit <= s.finalized
          PROVE  e \in Current.decided \ Unfinalized(Current)
      <3>1. e # d BY <1>12, <1>16, <1>19, <2>1
      <3> QED BY <1>16, <1>17, <3>1
    <2> QED BY <1>2, <1>15, <1>20, <2>1, NothingFinal
  <1>22. Grows BY <1>2, <1>15, <1>20, AppendKeepsData
  <1>23. PICK x : x = [j EXCEPT !.commit = L] OBVIOUS
  <1>24. x \in Job /\ x.commit = L /\ x.begin = j.begin /\ x.nomination = j.nomination /\ x.phase = j.phase
    BY <1>23 DEF Job
  <1>25. Enter(n, x, "commit", wire) BY <1>5, <1>10, <1>23 DEF CommitPreparedBatch, NextIndex
  <1>26. PICK phase \in Phases \ {"finalize", "through"} : phase = "commit" BY DEF Phases
  <1>27. CommitKnown(x)'
    <2>1. Current' = s BY <1>1, <1>15, <1>16, Appended
    <2>2. HasDecision(x.begin, x.commit)' BY <1>12, <1>16, <1>24, <2>1 DEF HasDecision
    <2> QED BY <1>19, <1>24, <2>2 DEF CommitKnown
  <1>28. RestOK(n, wire) BY <1>1, <1>4, WaitsForNone
  <1>29. /\ job' \in [Nodes -> Job \cup {Idle}] /\ wire' \in SUBSET Message
         /\ JobsOK' /\ WireOK'
    BY <1>1, <1>7, <1>19, <1>22, <1>24, <1>25, <1>26, <1>27, <1>28, EnterStep
  <1>30. Tenure'
    <2>1. /\ \A m \in Nodes \ {n} : job'[m] = job[m]
          /\ job'[n].nomination = j.nomination /\ job'[n].commit = L
      BY <1>1, <1>24, <1>25, <1>26, EnterJob
    <2>2. s.finalized <= L BY <1>16, <1>19
    <2>3. job[n] # Idle BY <1>3 DEF Idle
    <2> QED BY <1>1, <1>5, <1>15, <1>16, <2>1, <2>2, <2>3, SubmitTenure
  <1> QED BY <1>2, <1>15, <1>20, <1>21, <1>29, <1>30, EntryStep

LEMMA AbortKeeps ==
    ASSUME ProgramInv, NEW n \in Nodes, AbortPreparedBatch(n)
    PROVE  ProgramInv'
  <1>1. Typed /\ LogOK /\ JobsOK /\ Tenure /\ WireOK BY DEF ProgramInv
  <1>2. UNCHANGED <<batches, versions, head, acked>> BY DEF AbortPreparedBatch, store
  <1>3. job[n].phase \in {"abort", "abandon"} BY DEF AbortPreparedBatch
  <1>4. job[n] \in Job /\ job[n].waiting = {} /\ \E b \in batches : JobFits(job[n], b)
    BY <1>1, <1>3, PhaseWaits
  <1>5. PICK j \in Job : j = job[n] BY <1>4
  <1>6. PICK b \in batches : JobFits(j, b) BY <1>4, <1>5
  <1>7. b.begin = j.begin /\ CommitKnown(j) BY <1>6 DEF JobFits, ReadyFor
  <1>8. PICK s : s = [Current EXCEPT !.preparing = 0] OBVIOUS
  <1>9. AppendEntry(n, s) /\ Current.executor = n /\ Current.preparing = j.begin
    BY <1>5, <1>8 DEF Submit, AbortPreparedBatch
  <1>10. Current \in DecisionState /\ Len(decisions) \in Nat BY <1>1, CurrentTyped
  <1>11. /\ s \in DecisionState /\ s.preparing = 0 /\ s.decided = Current.decided
         /\ s.executor = n /\ s.nomination = Current.nomination /\ s.finalized = Current.finalized
    BY <1>8, <1>9, <1>10 DEF DecisionState
  <1>12. Unfinalized(s) = Unfinalized(Current) BY <1>11 DEF Unfinalized
  <1>13. Successor(n, s)
    <2>1. \A d \in s.decided : /\ d.commit # 0 /\ d.commit <= Len(decisions)
                               /\ d.begin # s.preparing /\ HasBatch(d.begin)'
      BY <1>1, <1>2, <1>11, CurrentKnown DEF HasBatch
    <2>2. s.nomination <= Len(decisions) /\ s.finalized <= Len(decisions)
      BY <1>1, <1>10, <1>11, CurrentKnown
    <2>3. \A d, e \in Unfinalized(s) : d = e BY <1>1, <1>12 DEF LogOK
    <2>4. \A begin : HasBatch(begin) => begin # 0 BY <1>1 DEF LogOK, HasBatch
    <2> QED BY <1>11, <2>1, <2>2, <2>3, <2>4 DEF Successor
  <1>14. FinalOK'
    <2>1. ASSUME NEW d \in s.decided, d.commit <= s.finalized
          PROVE  d \in Current.decided \ Unfinalized(Current)
      <3>1. d.commit \in Nat /\ Current.finalized \in Nat BY <1>1, <1>11, CurrentKnown
      <3>2. ~(d.commit > Current.finalized) BY <1>11, <2>1, <3>1
      <3> QED BY <1>11, <3>2 DEF Unfinalized
    <2> QED BY <1>2, <1>9, <1>13, <2>1, NothingFinal
  <1>15. Grows BY <1>2, <1>9, <1>13, AppendKeepsData
  <1>16. RestOK(n, wire) BY <1>1, <1>4, WaitsForNone
  <1>17. job[n] # Idle BY <1>3 DEF Idle
  <1>18. CommitKnown(j)' BY <1>7, <1>15, CommitKnownGrows
  <1>19. PICK phase \in Phases \ {"finalize", "through"} : phase = "releaseAborted" BY DEF Phases
  <1>20. Enter(n, j, phase, wire) \/ Stop(n, wire) BY <1>5, <1>19 DEF AbortPreparedBatch
  <1>21. /\ job' \in [Nodes -> Job \cup {Idle}] /\ wire' \in SUBSET Message
         /\ JobsOK' /\ WireOK'
    <2>1. CASE Enter(n, j, phase, wire)
      BY <1>1, <1>7, <1>15, <1>16, <1>18, <1>19, <2>1, EnterStep
    <2>2. CASE Stop(n, wire) BY <1>1, <1>15, <1>16, <2>2, StopStep
    <2> QED BY <1>20, <2>1, <2>2
  <1>22. Tenure'
    <2>1. j.commit # 0 => s.finalized <= j.commit
      <3>1. Current.nomination = j.nomination BY <1>5 DEF AbortPreparedBatch, Submit
      <3> QED BY <1>1, <1>5, <1>9, <1>11, <1>17, <3>1 DEF Tenure, InTenure
    <2>2. CASE Enter(n, j, phase, wire)
      <3>1. /\ \A m \in Nodes \ {n} : job'[m] = job[m]
            /\ job'[n].nomination = j.nomination /\ job'[n].commit = j.commit
        BY <1>1, <2>2, EnterJob
      <3> QED BY <1>1, <1>5, <1>9, <1>11, <1>17, <2>1, <3>1, SubmitTenure
    <2>3. CASE Stop(n, wire)
      <3>1. (\A m \in Nodes \ {n} : job'[m] = job[m]) /\ job'[n] = Idle
        BY <1>1, <2>3 DEF Stop, Typed
      <3> QED BY <1>1, <1>9, <1>11, <1>17, <3>1, SubmitTenure
    <2> QED BY <1>20, <2>2, <2>3
  <1> QED BY <1>2, <1>9, <1>13, <1>14, <1>21, <1>22, EntryStep

LEMMA AdvanceKeeps ==
    ASSUME ProgramInv, NEW n \in Nodes, advance_finalized_through(n)
    PROVE  ProgramInv'
  <1>1. Typed /\ LogOK /\ FinalOK /\ JobsOK /\ Tenure /\ WireOK BY DEF ProgramInv
  <1>2. UNCHANGED <<batches, versions, head, acked>> BY DEF advance_finalized_through, store
  <1>3. job[n].phase = "through" BY DEF advance_finalized_through
  <1>4. job[n] \in Job /\ job[n].waiting = {} /\ \E b \in batches : JobFits(job[n], b)
    BY <1>1, <1>3, PhaseWaits
  <1>5. PICK j \in Job : j = job[n] BY <1>4
  <1>6. PICK b \in batches : JobFits(j, b) BY <1>4, <1>5
  <1>7. b.begin = j.begin /\ CommitKnown(j) /\ AllPublished(b) BY <1>3, <1>5, <1>6 DEF JobFits, ReadyFor
  <1>8. PICK o \in Current.decided : o.begin = j.begin /\ o.commit = j.commit
    BY <1>3, <1>5, <1>7 DEF CommitKnown, HasDecision
  <1>9. j.commit \in Nat BY DEF Job
  <1>10. PICK s : s = [Current EXCEPT !.finalized = j.commit] OBVIOUS
  <1>11. AppendEntry(n, s) /\ Current.executor = n /\ Current.nomination = j.nomination
    BY <1>5, <1>10 DEF Submit, advance_finalized_through
  <1>12. Current \in DecisionState /\ Len(decisions) \in Nat BY <1>1, CurrentTyped
  <1>13. /\ s \in DecisionState /\ s.preparing = Current.preparing /\ s.decided = Current.decided
         /\ s.executor = n /\ s.nomination = Current.nomination /\ s.finalized = j.commit
    BY <1>9, <1>10, <1>11, <1>12 DEF DecisionState
  <1>14. job[n] # Idle BY <1>3 DEF Idle
  <1>15. Current.finalized <= j.commit
    <2>1. j.commit # 0 BY <1>3, <1>5, <1>7 DEF CommitKnown
    <2> QED BY <1>1, <1>5, <1>11, <1>14, <2>1 DEF Tenure, InTenure
  <1>16. Current.finalized \in Nat BY <1>1, CurrentTyped
  <1>17. Unfinalized(s) \subseteq Unfinalized(Current)
    <2> SUFFICES ASSUME NEW d \in Unfinalized(s) PROVE d \in Unfinalized(Current) OBVIOUS
    <2>1. d \in Current.decided /\ d.commit > j.commit BY <1>13 DEF Unfinalized
    <2>2. d.commit \in Nat BY <1>1, <2>1, CurrentKnown
    <2>3. d.commit > Current.finalized BY <1>9, <1>15, <1>16, <2>1, <2>2
    <2> QED BY <2>1, <2>3 DEF Unfinalized
  <1>18. Successor(n, s)
    <2>1. \A d \in s.decided : /\ d.commit # 0 /\ d.commit <= Len(decisions)
                               /\ d.begin # s.preparing /\ HasBatch(d.begin)'
      BY <1>1, <1>2, <1>13, CurrentKnown DEF HasBatch
    <2>2. s.preparing # 0 => HasBatch(s.preparing)' BY <1>1, <1>2, <1>13, CurrentKnown DEF HasBatch
    <2>3. s.nomination <= Len(decisions) /\ s.finalized <= Len(decisions)
      BY <1>1, <1>8, <1>12, <1>13, CurrentKnown
    <2>4. (\A d, e \in Unfinalized(s) : d = e) /\ (s.preparing # 0 => Unfinalized(s) = {})
      BY <1>1, <1>13, <1>17 DEF LogOK
    <2> QED BY <1>13, <2>1, <2>2, <2>3, <2>4 DEF Successor
  <1>19. Grows BY <1>2, <1>11, <1>18, AppendKeepsData
  <1>20. FinalOK'
    <2>1. Current' = s BY <1>1, <1>11, <1>13, Appended
    <2> SUFFICES ASSUME NEW d \in s.decided, d \notin Unfinalized(s), NEW a \in batches, a.begin = d.begin
                 PROVE  AllPublished(a)'
      BY <1>2, <2>1 DEF FinalOK, Unfinalized
    <2>2. AllPublished(a)
      <3>1. CASE d \notin Unfinalized(Current) BY <1>1, <1>13, <3>1 DEF FinalOK
      <3>2. CASE d \in Unfinalized(Current)
        <4>1. d.commit \in Nat /\ d.commit > Current.finalized /\ ~(d.commit > j.commit)
          BY <1>1, <1>13, <3>2, CurrentKnown DEF Unfinalized
        <4>2. o.commit > Current.finalized BY <1>8, <1>9, <1>16, <4>1
        <4>3. d = o BY <1>1, <3>2, <4>2 DEF LogOK, Unfinalized
        <4>4. a = b BY <1>1, <1>7, <1>8, <4>3 DEF LogOK
        <4> QED BY <1>7, <4>4
      <3> QED BY <3>1, <3>2
    <2> QED BY <1>1, <1>19, <2>2, AllPublishedGrows
  <1>21. RestOK(n, wire) BY <1>1, <1>4, WaitsForNone
  <1>22. CommitKnown(j)' BY <1>7, <1>19, CommitKnownGrows
  <1>23. PICK phase \in Phases \ {"finalize", "through"} : phase = "release" BY DEF Phases
  <1>24. Enter(n, j, phase, wire) BY <1>5, <1>23 DEF advance_finalized_through
  <1>25. /\ job' \in [Nodes -> Job \cup {Idle}] /\ wire' \in SUBSET Message
         /\ JobsOK' /\ WireOK'
    BY <1>1, <1>7, <1>19, <1>21, <1>22, <1>23, <1>24, EnterStep
  <1>26. Tenure'
    <2>1. /\ \A m \in Nodes \ {n} : job'[m] = job[m]
          /\ job'[n].nomination = j.nomination /\ job'[n].commit = j.commit
      BY <1>1, <1>24, EnterJob
    <2>2. s.finalized <= j.commit BY <1>9, <1>13
    <2> QED BY <1>1, <1>5, <1>11, <1>13, <1>14, <2>1, <2>2, SubmitTenure
  <1> QED BY <1>2, <1>11, <1>18, <1>20, <1>25, <1>26, EntryStep

-----------------------------------------------------------------------------
(* Replicas move forward. *)

LEMMA LineOf ==
    ASSUME Typed, VersionsOK, NEW v \in DOMAIN versions
    PROVE  /\ Line(v) = versions[v].line /\ v \in Line(v)
           /\ Line(versions[v].pred) \subseteq Line(v)
           /\ Line(v) = Line(versions[v].pred) \cup {v}
           /\ \A w \in Line(v) : w \in Nat /\ w <= v
  <1>1. v \in Nat /\ v # 0 BY VersionTyped
  <1>2. VersionOK(v) BY DEF VersionsOK
  <1>3. Line(v) = versions[v].line BY <1>1 DEF Line
  <1>4. versions[v].line = Line(versions[v].pred) \cup {v} BY <1>2 DEF VersionOK
  <1>5. versions[v].line \subseteq 0..v BY <1>2 DEF VersionOK
  <1>6. \A w \in versions[v].line : w \in Nat /\ w <= v BY <1>1, <1>5
  <1> QED BY <1>3, <1>4, <1>6

LEMMA HeadIs ==
    ASSUME Typed, HeadsOK, NEW n \in Nodes, NEW p \in Paths
    PROVE  /\ head[n][p] \in Nat /\ head[n][p] <= Len(versions)
           /\ head[n][p] # 0 => head[n][p] \in DOMAIN versions /\ versions[head[n][p]].path = p
           /\ \A w \in Line(head[n][p]) : Settled(w)
  <1>1. head[n][p] \in Nat /\ versions \in Seq(VersionRecord) BY DEF Typed
  <1>2. HeadOK(n, p) BY DEF HeadsOK
  <1>3. head[n][p] # 0 => head[n][p] \in 1..Len(versions) BY <1>1, <1>2 DEF HeadOK
  <1> QED BY <1>1, <1>2, <1>3 DEF HeadOK

(* A replica moves to the successor of its head.                           *)
MovesTo(n, p, v) ==
    /\ v \in DOMAIN versions /\ versions[v].path = p /\ versions[v].pred = head[n][p]
    /\ Settled(v)
    /\ head' = [head EXCEPT ![n][p] = v]

LEMMA HeadMoves ==
    ASSUME ProgramInv, NEW n \in Nodes, NEW p \in Paths, NEW v, MovesTo(n, p, v),
           UNCHANGED <<decisions, batches, versions>>
    PROVE  /\ head' \in [Nodes -> [Paths -> Nat]]
           /\ Grows /\ VersionsOK' /\ HeadsOK' /\ OneLine'
           /\ head'[n][p] = v
  <1>1. Typed /\ VersionsOK /\ HeadsOK /\ OneLine BY DEF ProgramInv
  <1>2. v \in DOMAIN versions /\ versions[v].path = p /\ versions[v].pred = head[n][p] /\ Settled(v)
    BY DEF MovesTo
  <1>3. head \in [Nodes -> [Paths -> Nat]] BY <1>1 DEF Typed
  <1>4. v \in Nat /\ v # 0 /\ v <= Len(versions) BY <1>1, <1>2, VersionTyped
  <1>5. head' = [head EXCEPT ![n][p] = v] BY DEF MovesTo
  <1>6. head' \in [Nodes -> [Paths -> Nat]] BY <1>3, <1>4, <1>5
  <1>7. head'[n][p] = v BY <1>3, <1>5
  <1>8. \A m \in Nodes, o \in Paths : ~(m = n /\ o = p) => head'[m][o] = head[m][o] BY <1>3, <1>5
  <1>9. Current' = Current BY DEF Current
  <1>10. \A w : Line(w)' = Line(w) BY LineSame
  <1>11. Line(v) = Line(head[n][p]) \cup {v} BY <1>1, <1>2, LineOf
  <1>12. \A m \in Nodes, o \in Paths : Line(head[m][o]) \subseteq Line(head[m][o])'
    <2> SUFFICES ASSUME NEW m \in Nodes, NEW o \in Paths PROVE Line(head[m][o]) \subseteq Line(head[m][o])'
      OBVIOUS
    <2>1. PICK h : h = head'[m][o] OBVIOUS
    <2>2. Line(head[m][o])' = Line(h) BY <2>1 DEF Line
    <2> QED BY <1>7, <1>8, <1>11, <2>1, <2>2
  <1>13. Grows BY <1>9, <1>12 DEF Grows
  <1>15. \A w : Settled(w) => Settled(w)' BY <1>9 DEF Settled, IsDecided
  <1>16. head[n][p] \in Nat /\ head[n][p] < v
    BY <1>1, <1>2, HeadIs DEF VersionsOK, VersionOK
  <1>17. ASSUME NEW o \in Paths
         PROVE  HomeHead(o) \in Nat /\ HomeHead(o)' \in Nat /\ HomeHead(o) <= HomeHead(o)'
    <2>1. CoordinatorOf[o] \in Nodes BY HomeNode
    <2>2. HomeHead(o) \in Nat BY <1>3, <2>1 DEF HomeHead
    <2>3. HomeHead(o)' = HomeHead(o) \/ (HomeHead(o)' = v /\ HomeHead(o) = head[n][p])
      BY <1>7, <1>8, <2>1 DEF HomeHead
    <2> QED BY <1>4, <1>16, <2>2, <2>3
  <1>18. ASSUME NEW o \in Paths PROVE Line(HomeHead(o)) \subseteq Line(HomeHead(o))'
    BY <1>12, HomeNode DEF HomeHead
  <1>19. VersionsOK'
    <2>1. ASSUME NEW u \in DOMAIN versions PROVE VersionOK(u)'
      <3>1. VersionOK(u) BY <1>1 DEF VersionsOK
      <3>2. versions[u].path \in Paths /\ versions[u].pred \in Nat BY <1>1, VersionTyped
      <3>3. PICK o \in Paths : o = versions[u].path BY <3>2
      <3>4. versions[u].pred <= HomeHead(o) BY <3>1, <3>3 DEF VersionOK
      <3>5. versions[u].pred <= HomeHead(o)' BY <1>17, <3>2, <3>4
      <3>6. versions[u].begin = 0 => u \in Line(HomeHead(o))' BY <1>18, <3>1, <3>3 DEF VersionOK
      <3>7. versions'[u].path = o BY <3>3
      <3>8. versions'[u].pred <= HomeHead(versions[u].path)' BY <3>5, <3>7 DEF HomeHead
      <3>9. versions'[u].begin = 0 => u \in Line(HomeHead(versions[u].path))'
        BY <3>6, <3>7 DEF HomeHead, Line
      <3>10. \A w \in Line(versions[u].pred)' : Settled(w)'
        BY <1>10, <1>15, <3>1 DEF VersionOK, Line
      <3> QED BY <3>1, <3>8, <3>9, <3>10 DEF VersionOK, Line
    <2> QED BY <1>1, <2>1 DEF VersionsOK, IsPrepared
  <1>20. HeadsOK'
    <2> SUFFICES ASSUME NEW m \in Nodes, NEW o \in Paths PROVE HeadOK(m, o)' BY DEF HeadsOK
    <2>1. CASE m = n /\ o = p
      <3>1. \A w \in Line(v) : Settled(w) BY <1>1, <1>2, <1>11, HeadIs
      <3>2. \A w \in Line(v)' : Settled(w)' BY <1>10, <1>15, <3>1
      <3> QED BY <1>2, <1>4, <1>7, <2>1, <3>2 DEF HeadOK, Line
    <2>2. CASE ~(m = n /\ o = p)
      <3>1. HeadOK(m, o) BY <1>1 DEF HeadsOK
      <3> QED BY <1>8, <1>15, <2>2, <3>1 DEF HeadOK, Line
    <2> QED BY <2>1, <2>2
  <1>21. ASSUME NEW w \in DOMAIN versions, Bypassed(w) PROVE Bypassed(w)'
    <2>1. versions[w].path \in Paths /\ versions[w].pred \in Nat BY <1>1, VersionTyped
    <2>2. PICK o \in Paths : o = versions[w].path BY <2>1
    <2>3. versions[w].pred < HomeHead(o) /\ w \notin Line(HomeHead(o)) BY <1>21, <2>2 DEF Bypassed
    <2>4. versions[w].pred < HomeHead(o)' BY <1>17, <2>1, <2>3
    <2>5. w \notin Line(HomeHead(o))'
      <3>1. CoordinatorOf[o] \in Nodes BY HomeNode
      <3>2. CASE CoordinatorOf[o] = n /\ o = p
        <4>1. HomeHead(o) = head[n][p] /\ HomeHead(o)' = v BY <1>7, <3>2 DEF HomeHead
        <4>2. w # v BY <1>2, <1>16, <2>3, <4>1
        <4>3. Line(HomeHead(o))' = Line(v) BY <4>1 DEF Line
        <4> QED BY <1>11, <2>3, <4>1, <4>2, <4>3
      <3>3. CASE ~(CoordinatorOf[o] = n /\ o = p)
        <4>1. HomeHead(o)' = HomeHead(o) BY <1>8, <3>1, <3>3 DEF HomeHead
        <4> QED BY <2>3, <4>1 DEF Line
      <3> QED BY <3>2, <3>3
    <2> QED BY <2>2, <2>4, <2>5 DEF Bypassed, HomeHead, Line
  <1>22. ASSUME NEW w, Aborted(w) PROVE Aborted(w)' BY <1>9, <1>22 DEF Aborted, IsDecided
  <1>23. OneLine' BY <1>1, <1>21, <1>22 DEF OneLine
  <1> QED BY <1>6, <1>7, <1>13, <1>19, <1>20, <1>23

(* Acknowledged versions stay. *)
LEMMA AckedStay ==
    ASSUME Grows, Typed, AckedOK, NEW v \in acked
    PROVE  versions'[v].begin = 0 /\ Cardinality(Holders(v)') >= Required
  <1>1. v \in DOMAIN versions /\ versions[v].begin = 0 /\ Cardinality(Holders(v)) >= Required
    BY DEF AckedOK, Typed
  <1> QED BY <1>1, AckedGrows

LEMMA DataStep ==
    ASSUME ProgramInv, UNCHANGED <<decisions, applied, batches, versions>>,
           head' \in [Nodes -> [Paths -> Nat]], Grows, VersionsOK', HeadsOK', OneLine',
           acked' \in SUBSET DOMAIN versions,
           \A v \in acked' \ acked : versions[v].begin = 0 /\ Cardinality(Holders(v)') >= Required,
           job' \in [Nodes -> Job \cup {Idle}], wire' \in SUBSET Message, JobsOK', Tenure', WireOK'
    PROVE  ProgramInv'
  <1>1. Typed /\ LogOK /\ FinalOK /\ AckedOK BY DEF ProgramInv
  <1>2. Typed' BY <1>1 DEF Typed
  <1>3. LogOK' BY <1>1, SameLog
  <1>4. Current' = Current BY DEF Current
  <1>5. FinalOK' BY <1>1, <1>3, <1>4, FinalGrows DEF Unfinalized
  <1>6. ASSUME NEW v \in acked' PROVE versions'[v].begin = 0 /\ Cardinality(Holders(v)') >= Required
    <2>1. CASE v \in acked BY <1>1, <2>1, AckedStay
    <2>2. CASE v \notin acked BY <2>2
    <2> QED BY <2>1, <2>2
  <1>7. AckedOK' BY <1>6 DEF AckedOK, Required
  <1> QED BY <1>2, <1>3, <1>5, <1>7 DEF ProgramInv

LEMMA RepairKeeps ==
    ASSUME ProgramInv, NEW n \in Nodes, NEW p \in Paths, NEW v \in DOMAIN versions, Repair(n, p, v)
    PROVE  ProgramInv'
  <1>1. Typed /\ LogOK /\ HeadsOK /\ JobsOK /\ Tenure /\ WireOK BY DEF ProgramInv
  <1>2. UNCHANGED <<decisions, applied, batches, versions, acked, job, wire>> BY DEF Repair
  <1>3. PICK m \in Nodes : v \in Line(head[m][p]) BY DEF Repair
  <1>4. Settled(v) BY <1>1, <1>3, HeadIs
  <1>5. MovesTo(n, p, v) BY <1>4 DEF Repair, MovesTo
  <1>6. /\ head' \in [Nodes -> [Paths -> Nat]]
        /\ Grows /\ VersionsOK' /\ HeadsOK' /\ OneLine'
    BY <1>2, <1>5, HeadMoves
  <1>7. JobsOK' /\ WireOK' BY <1>1, <1>2, <1>6, Bystanders
  <1>8. JobsFollow BY <1>2 DEF JobsFollow
  <1>9. Tenure' BY <1>1, <1>2, <1>8, FollowsTenure
  <1>10. /\ job' \in [Nodes -> Job \cup {Idle}] /\ wire' \in SUBSET Message
         /\ acked' \in SUBSET DOMAIN versions /\ acked' \ acked = {}
    BY <1>1, <1>2 DEF Typed
  <1> QED BY <1>2, <1>6, <1>7, <1>9, <1>10, DataStep

LEMMA OrdinaryApplyKeeps ==
    ASSUME ProgramInv, NEW n \in Nodes, NEW v \in DOMAIN versions, OrdinaryApply(n, v)
    PROVE  ProgramInv'
  <1>1. Typed /\ LogOK /\ VersionsOK /\ HeadsOK /\ OneLine /\ JobsOK /\ Tenure /\ WireOK BY DEF ProgramInv
  <1>2. UNCHANGED <<decisions, applied, batches, versions, job, wire>> BY DEF OrdinaryApply
  <1>3. PICK p \in Paths : p = versions[v].path BY <1>1, VersionTyped
  <1>4. versions[v].begin = 0 BY DEF OrdinaryApply, Ordinary
  <1>5. head[n][p] \in {versions[v].pred, v} /\ head' = [head EXCEPT ![n][p] = v]
    BY <1>3 DEF OrdinaryApply
  <1>6. head \in [Nodes -> [Paths -> Nat]] BY <1>1 DEF Typed
  <1>7. /\ head' \in [Nodes -> [Paths -> Nat]]
        /\ Grows /\ VersionsOK' /\ HeadsOK' /\ OneLine'
        /\ head'[n][p] = v
    <2>1. CASE head[n][p] = versions[v].pred
      <3>1. Settled(v) BY <1>4 DEF Settled
      <3>2. MovesTo(n, p, v) BY <1>3, <1>5, <2>1, <3>1 DEF MovesTo
      <3> QED BY <1>2, <3>2, HeadMoves
    <2>2. CASE head[n][p] = v
      <3>1. head' = head BY <1>5, <1>6, <2>2
      <3>2. Current' = Current BY <1>2 DEF Current
      <3>3. Grows BY <1>2, <3>1, <3>2 DEF Grows, Line
      <3>4. VersionsOK'
        BY <1>1, <1>2, <3>1, <3>2 DEF VersionsOK, VersionOK, Settled, HomeHead, Line, IsDecided, IsPrepared
      <3>5. HeadsOK' BY <1>1, <1>2, <3>1, <3>2 DEF HeadsOK, HeadOK, Settled, Line, IsDecided
      <3>6. OneLine'
        BY <1>1, <1>2, <3>1, <3>2 DEF OneLine, Bypassed, Aborted, HomeHead, Line, IsDecided
      <3> QED BY <1>6, <2>2, <3>1, <3>3, <3>4, <3>5, <3>6
    <2> QED BY <1>5, <2>1, <2>2
  <1>8. JobsOK' /\ WireOK' BY <1>1, <1>2, <1>7, Bystanders
  <1>9. JobsFollow BY <1>2 DEF JobsFollow
  <1>10. Tenure' BY <1>1, <1>2, <1>9, FollowsTenure
  <1>11. job' \in [Nodes -> Job \cup {Idle}] /\ wire' \in SUBSET Message BY <1>1, <1>2 DEF Typed
  <1> DEFINE Others == {m \in Nodes \ {n} : v \in Line(head[m][p])}
  <1>12. acked' = IF Cardinality(Others) + 1 >= Required THEN acked \cup {v} ELSE acked
    BY <1>3 DEF OrdinaryApply
  <1>13. acked' \in SUBSET DOMAIN versions BY <1>1, <1>12 DEF Typed
  <1>14. ASSUME NEW u \in acked' \ acked
         PROVE  versions[u].begin = 0 /\ Cardinality(Holders(u)') >= Required
    <2>1. u = v /\ Cardinality(Others) + 1 >= Required BY <1>12, <1>14
    <2>2. IsFiniteSet(Nodes) BY ProgramConstants
    <2>3. Others \subseteq Nodes /\ n \notin Others OBVIOUS
    <2>4. \A m \in Others : v \in Line(head[m][p])' BY <1>7 DEF Grows
    <2>5. v \in Line(head[n][p])'
      <3>1. v \in Line(v) BY <1>1, LineOf
      <3> QED BY <1>2, <1>7, <3>1 DEF Line
    <2>6. versions'[v].path = p BY <1>2, <1>3
    <2> HIDE DEF Others
    <2>7. Others \cup {n} \subseteq Holders(v)' BY <2>3, <2>4, <2>5, <2>6 DEF Holders
    <2>8. Holders(v)' \subseteq Nodes BY DEF Holders
    <2>9. IsFiniteSet(Holders(v)') /\ IsFiniteSet(Others) BY <2>2, <2>3, <2>8, FS_Subset
    <2>10. Cardinality(Others \cup {n}) = Cardinality(Others) + 1 BY <2>3, <2>9, FS_AddElement
    <2>11. Cardinality(Others \cup {n}) <= Cardinality(Holders(v)') BY <2>7, <2>9, FS_Subset
    <2>12. Cardinality(Others) \in Nat /\ Cardinality(Holders(v)') \in Nat BY <2>9, FS_CardinalityType
    <2>13. Cardinality(Holders(v)') >= Required BY <2>1, <2>10, <2>11, <2>12, RequiredNumber
    <2> QED BY <1>4, <2>1, <2>13
  <1> QED BY <1>2, <1>7, <1>8, <1>10, <1>11, <1>13, <1>14, DataStep

(* The version a batch prepared for a path it writes.                      *)
LEMMA PreparedIs ==
    ASSUME Typed, LogOK, VersionsOK, NEW b \in batches, NEW p \in Writes(b.invocation)
    PROVE  /\ Prepared(b.begin, p) \in DOMAIN versions
           /\ IsPrepared(Prepared(b.begin, p), b.begin, p)
           /\ \A v \in DOMAIN versions : IsPrepared(v, b.begin, p) => v = Prepared(b.begin, p)
           /\ versions[Prepared(b.begin, p)].pred = b.observed[p]
  <1>1. PICK v \in DOMAIN versions : IsPrepared(v, b.begin, p) BY DEF VersionsOK
  <1>2. b.begin # 0 BY DEF LogOK
  <1>3. \A w \in DOMAIN versions : IsPrepared(w, b.begin, p) => w = v
    BY <1>1, <1>2 DEF VersionsOK, IsPrepared
  <1>4. Prepared(b.begin, p) = v BY <1>1, <1>3 DEF Prepared, IsPrepared
  <1>5. versions[v].pred = b.observed[p]
    <2>1. PICK a \in batches : a.begin = b.begin /\ versions[v].pred = a.observed[p]
      BY <1>1, <1>2 DEF VersionsOK, VersionOK, IsPrepared
    <2>2. a = b BY <2>1 DEF LogOK
    <2> QED BY <2>1, <2>2
  <1> QED BY <1>1, <1>3, <1>4, <1>5

(* What a store does for a request: publish at most, and then it holds the *)
(* version.  A replica that is ahead holds it when the authority does.     *)
LEMMA StoreMoves ==
    ASSUME ProgramInv, NEW q \in Message, RequestOK(q), Store(q), UNCHANGED <<decisions, batches, versions>>
    PROVE  /\ head' \in [Nodes -> [Paths -> Nat]]
           /\ Grows /\ VersionsOK' /\ HeadsOK' /\ OneLine'
           /\ \A b \in batches :
                /\ StoreAccepts(q) /\ q.op \in Publications /\ b.begin = q.begin
                /\ q.op = "apply" => Reached(b.begin, q.path)
                => q.to \in Have(b.begin, q.path, Nodes)'
  <1>1. Typed /\ LogOK /\ VersionsOK /\ HeadsOK /\ OneLine BY DEF ProgramInv
  <1>2. PICK n \in Nodes, p \in Paths : n = q.to /\ p = q.path BY DEF Message
  <1>3. head \in [Nodes -> [Paths -> Nat]] BY <1>1 DEF Typed
  <1>4. ASSUME head' = head
        PROVE  /\ head' \in [Nodes -> [Paths -> Nat]]
               /\ Grows /\ VersionsOK' /\ HeadsOK' /\ OneLine'
    <2>1. Current' = Current BY DEF Current
    <2>2. Grows BY <1>4, <2>1 DEF Grows, Line
    <2>3. VersionsOK'
      BY <1>1, <1>4, <2>1 DEF VersionsOK, VersionOK, Settled, HomeHead, Line, IsDecided, IsPrepared
    <2>4. HeadsOK' BY <1>1, <1>4, <2>1 DEF HeadsOK, HeadOK, Settled, Line, IsDecided
    <2>5. OneLine' BY <1>1, <1>4, <2>1 DEF OneLine, Bypassed, Aborted, HomeHead, Line, IsDecided
    <2> QED BY <1>3, <1>4, <2>2, <2>3, <2>4, <2>5
  <1>5. CASE ~StoreAccepts(q)
    <2>1. head' = head BY <1>5 DEF Store
    <2> QED BY <1>4, <1>5, <2>1
  <1>6. CASE StoreAccepts(q) /\ q.op \notin Publications
    <2>1. head' = [head EXCEPT ![n][p] = head[n][p]] BY <1>2, <1>6 DEF Store, Publications
    <2>2. head' = head BY <1>3, <2>1
    <2> QED BY <1>4, <1>6, <2>2
  <1>7. CASE StoreAccepts(q) /\ q.op \in Publications
    <2>1. PICK b \in batches : b.begin = q.begin /\ p \in Writes(b.invocation)
      BY <1>2, <1>7 DEF RequestOK
    <2>2. PICK v : v = Prepared(b.begin, p) OBVIOUS
    <2>3. /\ v \in DOMAIN versions /\ IsPrepared(v, b.begin, p) /\ versions[v].pred = b.observed[p]
          /\ \A u \in DOMAIN versions : IsPrepared(u, b.begin, p) => u = v
      BY <1>1, <2>1, <2>2, PreparedIs
    <2>4. Observed(q) = b.observed[p] BY <1>1, <1>2, <2>1, BatchIs DEF Observed
    <2>5. Publishable(reserved[q.to][q.path], q) BY <1>7 DEF StoreAccepts, Publications
    <2>6. q.commit # 0 BY <2>5 DEF Publishable
    <2>7. IsDecided(b.begin) BY <2>1, <2>6 DEF RequestOK, HasDecision, IsDecided
    <2>8. Settled(v) BY <2>3, <2>7 DEF Settled, IsPrepared
    <2>9. \A a \in batches : a.begin = q.begin => a = b BY <1>1, <2>1 DEF LogOK
    <2>10. ASSUME v \in Line(head[n][p])' PROVE n \in Have(b.begin, p, Nodes)'
      <3>1. \A u \in DOMAIN versions' : IsPrepared(u, b.begin, p)' => u = v BY <2>3 DEF IsPrepared
      <3> QED BY <2>10, <3>1 DEF Have
    <2>11. CASE head[n][p] = b.observed[p]
      <3>1. head' = [head EXCEPT ![n][p] = v]
        BY <1>2, <1>7, <2>1, <2>2, <2>4, <2>11 DEF Store, Publications
      <3>2. MovesTo(n, p, v) BY <2>3, <2>8, <2>11, <3>1 DEF MovesTo, IsPrepared
      <3>3. /\ head' \in [Nodes -> [Paths -> Nat]]
            /\ Grows /\ VersionsOK' /\ HeadsOK' /\ OneLine' /\ head'[n][p] = v
        BY <3>2, HeadMoves
      <3>4. v \in Line(v) BY <1>1, <2>3, LineOf
      <3>5. v \in Line(head[n][p])' BY <3>3, <3>4 DEF Line
      <3> QED BY <1>2, <2>9, <2>10, <3>3, <3>5
    <2>12. CASE head[n][p] # b.observed[p]
      <3>1. head' = [head EXCEPT ![n][p] = head[n][p]] BY <1>2, <1>7, <2>4, <2>12 DEF Store
      <3>2. head' = head BY <1>3, <3>1
      <3>3. ASSUME q.op = "apply" => Reached(b.begin, p) PROVE v \in Line(head[n][p])'
        <4>1. head[n][p] = v \/ (q.op = "apply" /\ head[n][p] > v)
          BY <1>2, <2>1, <2>2, <2>4, <2>5, <2>12 DEF Publishable
        <4>2. Line(head[n][p])' = Line(head[n][p]) BY <3>2 DEF Line
        <4>3. CASE head[n][p] = v
          <5>1. v \in Line(v) BY <1>1, <2>3, LineOf
          <5> QED BY <4>2, <4>3, <5>1
        <4>4. CASE q.op = "apply" /\ head[n][p] > v
          <5>1. v \in Nat /\ v # 0 BY <1>1, <2>3, VersionTyped
          <5>2. head[n][p] \in Nat BY <1>3
          <5>3. head[n][p] # 0 BY <4>4, <5>1, <5>2
          <5>4. PICK h \in DOMAIN versions : h = head[n][p] /\ versions[h].path = p BY <1>1, <5>3, HeadIs
          <5>5. v < h BY <4>4, <5>1, <5>2, <5>4
          <5>6. v \in versions[h].line \/ Bypassed(v) \/ Aborted(v)
            BY <1>1, <2>3, <5>4, <5>5 DEF OneLine, IsPrepared
          <5>7. ~Aborted(v) BY <2>3, <2>7 DEF Aborted, IsPrepared
          <5>8. v \in Line(HomeHead(p)) BY <2>3, <3>3, <4>4 DEF Reached
          <5>9. ~Bypassed(v) BY <2>3, <5>8 DEF Bypassed, IsPrepared
          <5>10. v \in Line(h) BY <1>1, <5>6, <5>7, <5>9, LineOf
          <5> QED BY <4>2, <5>4, <5>10
        <4> QED BY <4>1, <4>3, <4>4
      <3> QED BY <1>2, <1>4, <2>9, <2>10, <3>2, <3>3
    <2> QED BY <2>11, <2>12
  <1> QED BY <1>5, <1>6, <1>7

(* Only a publication publishes. *)
LEMMA PublicationPhase ==
    ASSUME NEW i \in Invocations, NEW phase \in Phases, NEW k \in DOMAIN RoundsOf(i, phase),
           RoundsOf(i, phase)[k].op \in Publications
    PROVE  phase = "finalize"
  <1>1. \A op : \A l \in DOMAIN EveryReplica(op, i) : EveryReplica(op, i)[l].op = op
    BY EveryReplicaShape
  <1>2. CASE phase = "reserve" BY <1>1, <1>2 DEF RoundsOf, Publications
  <1>3. CASE phase = "commit" BY <1>1, <1>3 DEF RoundsOf, Publications
  <1>4. CASE phase \in {"release", "releaseAborted"} BY <1>1, <1>4 DEF RoundsOf, Publications
  <1>5. CASE phase \in {"stage", "abandon", "decide", "through", "abort"}
    <2>1. RoundsOf(i, phase) = << >> BY <1>5, NoRounds
    <2>2. DOMAIN << >> = {} OBVIOUS
    <2> QED BY <2>1, <2>2
  <1> QED BY <1>2, <1>3, <1>4, <1>5 DEF Phases

(* The authority has published before the other replicas are asked to.     *)
LEMMA AuthorityFirst ==
    ASSUME Typed, NEW b \in batches, NEW j \in Job, JobFits(j, b),
           RoundsOf(b.invocation, j.phase) # << >>,
           RoundsOf(b.invocation, j.phase)[j.round].op = "apply"
    PROVE  Reached(b.begin, RoundsOf(b.invocation, j.phase)[j.round].path)
  <1> DEFINE i == b.invocation
  <1>1. i \in Invocations /\ j.phase \in Phases BY BatchTyped DEF Job
  <1>2. ReadyFor(j, b) BY DEF JobFits
  <1>3. j.round \in DOMAIN RoundsOf(i, j.phase) BY <1>2 DEF ReadyFor
  <1>4. j.phase = "finalize" BY <1>1, <1>3, PublicationPhase DEF Publications
  <1>5. PICK k \in 1..Len(Written[i]) :
          /\ RoundsOf(i, "finalize")[j.round].path = Written[i][k]
          /\ j.round = 2 * k
    BY <1>1, <1>3, <1>4, RoundOf
  <1>6. Reached(j.begin, Written[i][k]) BY <1>2, <1>4, <1>5 DEF ReadyFor, Progress
  <1> QED BY <1>2, <1>4, <1>5, <1>6 DEF ReadyFor

LEMMA ExecuteKeeps ==
    ASSUME ProgramInv, NEW q \in wire, Execute(q)
    PROVE  ProgramInv'
  <1>1. Typed /\ LogOK /\ JobsOK /\ Tenure /\ WireOK BY DEF ProgramInv
  <1>2. UNCHANGED <<decisions, applied, batches, versions, acked>> BY DEF Execute
  <1>3. q \in Message /\ RequestOK(q) BY <1>1, LateCopy
  <1>4. Store(q) /\ Reply(q, Outcome(q)) BY DEF Execute
  <1>5. /\ head' \in [Nodes -> [Paths -> Nat]]
        /\ Grows /\ VersionsOK' /\ HeadsOK' /\ OneLine'
    BY <1>2, <1>3, <1>4, StoreMoves
  <1>6. PICK outcome : outcome = Outcome(q) OBVIOUS
  <1>7. ASSUME outcome = "ok", ~q.late, q.op \in Publications
        PROVE  \E b \in batches : b.begin = q.begin /\ q.to \in Have(b.begin, q.path, Nodes)'
    <2>1. PICK j \in Job, b \in batches : JobFits(j, b) /\ OfRound(q, j, b) BY <1>1, <1>7, LiveRequest
    <2>2. StoreAccepts(q) BY <1>6, <1>7 DEF Outcome
    <2>3. /\ b.begin = q.begin /\ RoundsOf(b.invocation, j.phase) # << >>
          /\ q.op = RoundsOf(b.invocation, j.phase)[j.round].op
          /\ q.path = RoundsOf(b.invocation, j.phase)[j.round].path
      BY <2>1 DEF OfRound
    <2>4. q.op = "apply" => Reached(b.begin, q.path) BY <1>1, <2>1, <2>3, AuthorityFirst
    <2>5. q.to \in Have(b.begin, q.path, Nodes)'
      BY <1>2, <1>3, <1>4, <1>7, <2>2, <2>3, <2>4, StoreMoves
    <2> QED BY <2>3, <2>5
  <1>8. Reply(q, outcome) BY <1>4, <1>6
  <1>9. /\ job' \in [Nodes -> Job \cup {Idle}] /\ wire' \in SUBSET Message
        /\ JobsOK' /\ WireOK'
    BY <1>1, <1>5, <1>7, <1>8, ReplyStep
  <1>10. Tenure' BY <1>1, <1>2, <1>8, ReplyFollows, FollowsTenure
  <1>11. acked' \in SUBSET DOMAIN versions /\ acked' \ acked = {} BY <1>1, <1>2 DEF Typed
  <1> QED BY <1>2, <1>5, <1>9, <1>10, <1>11, DataStep

LEMMA ExecuteLocalKeeps ==
    ASSUME ProgramInv, NEW n \in Nodes, ExecuteLocal(n)
    PROVE  ProgramInv'
  <1>1. Typed /\ LogOK /\ JobsOK /\ Tenure /\ WireOK BY DEF ProgramInv
  <1>2. UNCHANGED <<decisions, applied, batches, versions, acked>> BY DEF ExecuteLocal
  <1>3. job[n] # Idle BY DEF ExecuteLocal
  <1>4. PICK j \in Job : j = job[n] BY <1>1, <1>3 DEF Typed
  <1>5. PICK b \in batches : JobFits(j, b) BY <1>1, <1>3, <1>4 DEF JobsOK
  <1> DEFINE i == b.invocation
             R == RoundsOf(i, j.phase)
  <1>6. n \in j.waiting BY <1>4 DEF ExecuteLocal
  <1>7. R # << >> BY <1>5, <1>6 DEF JobFits
  <1>8. b.begin = j.begin /\ CommitKnown(j) /\ j.round \in DOMAIN R BY <1>5, <1>7 DEF JobFits, ReadyFor
  <1>9. i \in Invocations /\ j.phase \in Phases BY <1>1, BatchTyped DEF Job
  <1>10. /\ R[j.round].op \in Operations /\ R[j.round].path \in Paths
         /\ R[j.round].op \in Publications => R[j.round].path \in Writes(i)
    BY <1>8, <1>9, RoundExists
  <1>11. Rounds(j) = R BY <1>1, <1>8, BatchIs, RoundsAre
  <1>12. PICK q : q = Request(n, j, n) OBVIOUS
  <1> HIDE DEF R
  <1>13. j.begin \in Nat /\ j.nomination \in Nat /\ j.commit \in Nat BY DEF Job
  <1>14. /\ q \in Message /\ q.to = n /\ q.op = R[j.round].op /\ q.path = R[j.round].path
         /\ q.begin = j.begin /\ q.commit = j.commit
    BY <1>10, <1>11, <1>12, <1>13 DEF Request, Message
  <1>15. RequestOK(q) BY <1>8, <1>10, <1>14 DEF RequestOK, CommitKnown
  <1>16. PICK outcome : outcome = Outcome(q) OBVIOUS
  <1>17. Store(q) /\ Answered(n, n, outcome, wire) BY <1>4, <1>12, <1>16 DEF ExecuteLocal
  <1>18. /\ head' \in [Nodes -> [Paths -> Nat]]
         /\ Grows /\ VersionsOK' /\ HeadsOK' /\ OneLine'
    BY <1>2, <1>14, <1>15, <1>17, StoreMoves
  <1>19. ASSUME outcome = "ok", j.phase = "finalize"
         PROVE  n \in Have(b.begin, RoundsOf(i, "finalize")[j.round].path, Nodes)'
    <2>1. StoreAccepts(q) BY <1>16, <1>19 DEF Outcome
    <2>2. RoundsOf(i, "finalize")[j.round].op \in Publications
      BY <1>8, <1>9, <1>19, RoundOf DEF R
    <2>3. q.op \in Publications BY <1>14, <1>19, <2>2 DEF R
    <2>4. q.op = "apply" => Reached(b.begin, q.path)
      BY <1>1, <1>5, <1>7, <1>14, AuthorityFirst DEF R
    <2>5. q.to \in Have(b.begin, q.path, Nodes)'
      BY <1>2, <1>8, <1>14, <1>15, <1>17, <2>1, <2>3, <2>4, StoreMoves
    <2>6. q.path = RoundsOf(i, "finalize")[j.round].path BY <1>14, <1>19 DEF R
    <2> QED BY <1>14, <2>5, <2>6
  <1>20. \A m \in wire : /\ m \in Message /\ RequestOK(m)
                         /\ ~m.late => m \in wire /\ (m.from = n => m.to # n)
    <2>1. ASSUME NEW m \in wire, ~m.late, m.from = n PROVE m.to # n
      BY <1>1, <2>1, LiveRequest DEF OfRound
    <2> QED BY <1>1, <2>1, LateCopy
  <1>21. /\ job' \in [Nodes -> Job \cup {Idle}] /\ wire' \in SUBSET Message
         /\ JobsOK' /\ WireOK'
    BY <1>1, <1>4, <1>5, <1>6, <1>17, <1>18, <1>19, <1>20, AnsweredStep
  <1>22. Tenure' BY <1>1, <1>2, <1>4, <1>17, AnsweredFollows, FollowsTenure
  <1>23. acked' \in SUBSET DOMAIN versions /\ acked' \ acked = {} BY <1>1, <1>2 DEF Typed
  <1> QED BY <1>2, <1>18, <1>21, <1>22, <1>23, DataStep

-----------------------------------------------------------------------------
(* New versions. *)

LEMMA OldLine ==
    ASSUME Typed, Grows, NEW w \in 0..Len(versions)
    PROVE  Line(w)' = Line(w)
  <1>1. DOMAIN versions = 1..Len(versions) /\ Len(versions) \in Nat BY DEF Typed
  <1>2. CASE w = 0 BY <1>2 DEF Line
  <1>3. CASE w # 0
    <2>1. w \in DOMAIN versions BY <1>1, <1>3
    <2>2. versions'[w] = versions[w] BY <2>1 DEF Grows
    <2> QED BY <1>3, <2>2 DEF Line
  <1> QED BY <1>2, <1>3

LEMMA OldSettled ==
    ASSUME Typed, Grows, NEW w \in 0..Len(versions), Settled(w)
    PROVE  Settled(w)'
  <1>1. DOMAIN versions = 1..Len(versions) /\ Len(versions) \in Nat BY DEF Typed
  <1>2. CASE w = 0 BY <1>2 DEF Settled
  <1>3. CASE w # 0
    <2>1. w \in DOMAIN versions BY <1>1, <1>3
    <2>2. versions'[w] = versions[w] BY <2>1 DEF Grows
    <2> QED BY <1>3, <2>2, DecisionGrows DEF Settled
  <1> QED BY <1>2, <1>3

(* A line only names what exists. *)
LEMMA LineBelow ==
    ASSUME Typed, VersionsOK, NEW h \in 0..Len(versions)
    PROVE  \A w \in Line(h) : w \in 0..Len(versions) /\ w <= h
  <1>1. DOMAIN versions = 1..Len(versions) /\ Len(versions) \in Nat BY DEF Typed
  <1>2. CASE h = 0 BY <1>1, <1>2 DEF Line
  <1>3. CASE h # 0
    <2>1. h \in DOMAIN versions BY <1>1, <1>3
    <2>2. \A w \in Line(h) : w \in Nat /\ w <= h BY <2>1, LineOf
    <2> QED BY <1>1, <2>2
  <1> QED BY <1>2, <1>3

LEMMA OldVersion ==
    ASSUME Typed, VersionsOK, Grows, NEW u \in DOMAIN versions,
           \A o \in Paths : HomeHead(o) \in Nat /\ HomeHead(o)' \in Nat /\ HomeHead(o) <= HomeHead(o)'
    PROVE  VersionOK(u)'
  <1>1. DOMAIN versions = 1..Len(versions) /\ Len(versions) \in Nat BY DEF Typed
  <1>2. VersionOK(u) BY DEF VersionsOK
  <1>3. PICK o \in Paths : o = versions[u].path BY VersionTyped
  <1>4. PICK e \in Nat : e = versions[u].pred BY VersionTyped
  <1>5. e < u /\ e \in 0..Len(versions) BY <1>1, <1>2, <1>4 DEF VersionOK
  <1>6. versions'[u] = versions[u] BY DEF Grows
  <1>7. Line(e)' = Line(e) BY <1>5, OldLine
  <1>8. e # 0 => versions'[e].path = o
    <2>1. e # 0 => e \in DOMAIN versions BY <1>1, <1>5
    <2> QED BY <1>2, <1>3, <1>4, <2>1 DEF Grows, VersionOK
  <1>9. \A w \in Line(e)' : Settled(w)'
    <2> SUFFICES ASSUME NEW w \in Line(e) PROVE Settled(w)' BY <1>7
    <2>1. w \in 0..Len(versions) BY <1>5, LineBelow
    <2>2. Settled(w) BY <1>2, <1>4 DEF VersionOK
    <2> QED BY <2>1, <2>2, OldSettled
  <1>10. e <= HomeHead(o)'
    <2>1. e <= HomeHead(o) BY <1>2, <1>3, <1>4 DEF VersionOK
    <2> QED BY <2>1
  <1>11. versions[u].begin = 0 => u \in Line(HomeHead(o))'
    <2>1. Line(HomeHead(o)) \subseteq Line(HomeHead(o))' BY HomeNode DEF Grows, HomeHead
    <2> QED BY <1>2, <1>3, <2>1 DEF VersionOK
  <1>12. versions[u].begin # 0 =>
           \E b \in batches' : /\ b.begin = versions[u].begin
                               /\ o \in Writes(b.invocation) /\ e = b.observed[o]
    BY <1>2, <1>3, <1>4 DEF VersionOK, Grows
  <1>13. versions[u].line = Line(e) \cup {u} /\ versions[u].line \subseteq 0..u
    BY <1>2, <1>4 DEF VersionOK
  <1>14. Line(versions[u].pred)' = Line(e)' BY <1>4, <1>6 DEF Line
  <1>15. HomeHead(versions[u].path)' = HomeHead(o)' BY <1>3, <1>6 DEF HomeHead
  <1>16. Line(HomeHead(versions[u].path))' = Line(HomeHead(o))' BY <1>15 DEF Line
  <1> QED BY <1>3, <1>4, <1>5, <1>6, <1>7, <1>8, <1>9, <1>10, <1>11, <1>12, <1>13, <1>14, <1>15, <1>16
          DEF VersionOK

LEMMA OrdinaryWriteKeeps ==
    ASSUME ProgramInv, NEW p \in Paths, OrdinaryWrite(p)
    PROVE  ProgramInv'
  <1>1. Typed /\ LogOK /\ VersionsOK /\ HeadsOK /\ OneLine /\ FinalOK /\ AckedOK
        /\ JobsOK /\ Tenure /\ WireOK
    BY DEF ProgramInv
  <1>2. UNCHANGED <<decisions, applied, batches, acked, job, wire>> BY DEF OrdinaryWrite
  <1>3. PICK n \in Nodes : n = CoordinatorOf[p] BY HomeNode
  <1>4. PICK L \in Nat : L = Len(versions) /\ DOMAIN versions = 1..L BY <1>1 DEF Typed
  <1>5. PICK h \in 0..L : h = head[n][p] BY <1>1, <1>4, HeadIs
  <1>6. PICK r : r = [path |-> p, begin |-> 0, pred |-> h, line |-> Line(h) \cup {L + 1}] OBVIOUS
  <1>7. versions' = Append(versions, r) /\ head' = [head EXCEPT ![n][p] = L + 1]
    BY <1>3, <1>4, <1>5, <1>6 DEF OrdinaryWrite, NewVersion
  <1>8. \A w \in Line(h) : w \in 0..L /\ w <= h BY <1>1, <1>4, <1>5, LineBelow
  <1>9. r \in VersionRecord /\ r.path = p /\ r.begin = 0 /\ r.pred = h /\ r.line = Line(h) \cup {L + 1}
    <2>1. Line(h) \cup {L + 1} \subseteq Nat BY <1>8
    <2> QED BY <1>6, <2>1 DEF VersionRecord
  <1>10. versions \in Seq(VersionRecord) BY <1>1 DEF Typed
  <1>11. /\ versions' \in Seq(VersionRecord) /\ Len(versions') = L + 1 /\ DOMAIN versions' = 1..(L + 1)
         /\ \A v \in 1..L : versions'[v] = versions[v]
         /\ versions'[L + 1] = r
    BY <1>4, <1>7, <1>9, <1>10
  <1>12. head \in [Nodes -> [Paths -> Nat]] BY <1>1 DEF Typed
  <1>13. head' \in [Nodes -> [Paths -> Nat]] /\ head'[n][p] = L + 1 BY <1>7, <1>12
  <1>14. \A m \in Nodes, o \in Paths : ~(m = n /\ o = p) => head'[m][o] = head[m][o] BY <1>7, <1>12
  <1>15. Current' = Current BY <1>2 DEF Current
  <1>16. \A w \in 0..L : Line(w)' = Line(w)
    BY <1>4, <1>11 DEF Line
  <1>17. PICK u \in Nat : u = L + 1 /\ u # 0 OBVIOUS
  <1>18. Line(u)' = Line(h) \cup {u} BY <1>9, <1>11, <1>17 DEF Line
  <1>19. ASSUME NEW m \in Nodes, NEW o \in Paths
         PROVE  /\ head[m][o] \in 0..L
                /\ ~(m = n /\ o = p) => Line(head[m][o])' = Line(head[m][o])
                /\ m = n /\ o = p => Line(head[m][o])' = Line(h) \cup {u}
    <2>1. head[m][o] \in 0..L BY <1>1, <1>4, HeadIs
    <2>2. PICK g : g = head'[m][o] OBVIOUS
    <2>3. Line(head[m][o])' = Line(g)' BY <2>2 DEF Line
    <2> QED BY <1>13, <1>14, <1>16, <1>17, <1>18, <2>1, <2>2, <2>3
  <1>20. Grows
    <2>1. \A v \in DOMAIN versions : v \in DOMAIN versions' /\ versions'[v] = versions[v] BY <1>4, <1>11
    <2>2. \A v \in DOMAIN versions' \ DOMAIN versions : versions'[v].begin = 0 BY <1>4, <1>9, <1>11
    <2>3. \A m \in Nodes, o \in Paths : Line(head[m][o]) \subseteq Line(head[m][o])'
      BY <1>5, <1>19
    <2> QED BY <1>2, <1>15, <2>1, <2>2, <2>3 DEF Grows
  <1>21. ASSUME NEW o \in Paths
         PROVE  /\ HomeHead(o) \in Nat /\ HomeHead(o)' \in Nat /\ HomeHead(o) <= HomeHead(o)'
                /\ o # p => HomeHead(o)' = HomeHead(o)
    <2>1. CoordinatorOf[o] \in Nodes BY HomeNode
    <2>2. CASE o = p BY <1>3, <1>5, <1>13, <2>2 DEF HomeHead
    <2>3. CASE o # p BY <1>12, <1>14, <2>1, <2>3 DEF HomeHead
    <2> QED BY <2>2, <2>3
  <1>22. HomeHead(p)' = u /\ Line(HomeHead(p))' = Line(h) \cup {u} /\ HomeHead(p) = h
    <2>1. HomeHead(p)' = u BY <1>3, <1>13, <1>17 DEF HomeHead
    <2>2. Line(HomeHead(p))' = Line(u)' BY <2>1 DEF Line
    <2> QED BY <1>3, <1>5, <1>18, <2>1, <2>2 DEF HomeHead
  <1>23. \A w \in Line(h) : Settled(w)'
    <2> SUFFICES ASSUME NEW w \in Line(h) PROVE Settled(w)' OBVIOUS
    <2>1. Settled(w) BY <1>1, <1>5, HeadIs
    <2> QED BY <1>1, <1>4, <1>8, <1>20, <2>1, OldSettled
  <1>24. Line(h)' = Line(h) BY <1>16
  <1>25. VersionOK(u)'
    <2>1. versions'[u] = r BY <1>11, <1>17
    <2>2. h < u BY <1>17
    <2>3. h # 0 => versions'[h].path = p
      <3>1. h # 0 => h \in 1..L /\ versions[h].path = p BY <1>1, <1>5, HeadIs
      <3> QED BY <1>11, <3>1
    <2>4. r.line = Line(h)' \cup {u} BY <1>9, <1>17, <1>24
    <2>5. r.line \subseteq 0..u BY <1>8, <1>9, <1>17
    <2>6. Line(versions[u].pred)' = Line(h)' BY <1>9, <2>1 DEF Line
    <2>7. HomeHead(versions[u].path)' = u /\ Line(HomeHead(versions[u].path))' = Line(h) \cup {u}
      <3>1. versions'[u].path = p BY <1>9, <2>1
      <3>2. HomeHead(versions[u].path)' = HomeHead(p)' BY <3>1 DEF HomeHead
      <3>3. Line(HomeHead(versions[u].path))' = Line(HomeHead(p))' BY <3>2 DEF Line
      <3> QED BY <1>22, <3>2, <3>3
    <2>8. h <= u BY <2>2
    <2> QED BY <1>9, <1>23, <1>24, <2>1, <2>2, <2>3, <2>4, <2>5, <2>6, <2>7, <2>8 DEF VersionOK
  <1>26. VersionsOK'
    <2>1. \A v \in DOMAIN versions' : VersionOK(v)'
      <3> SUFFICES ASSUME NEW v \in 1..(L + 1) PROVE VersionOK(v)' BY <1>11
      <3>1. CASE v \in 1..L BY <1>1, <1>4, <1>20, <1>21, <3>1, OldVersion
      <3>2. CASE v = u BY <1>25, <3>2
      <3> QED BY <1>17, <3>1, <3>2
    <2>2. ASSUME NEW v \in DOMAIN versions', NEW w \in DOMAIN versions', versions'[v].begin # 0,
                 IsPrepared(w, versions[v].begin, versions[v].path)'
          PROVE  v = w
      <3>1. versions'[w].begin = versions'[v].begin /\ versions'[w].path = versions'[v].path
        BY <2>2 DEF IsPrepared
      <3>2. v \in 1..L /\ w \in 1..L BY <1>9, <1>11, <2>2, <3>1
      <3>3. versions[v].begin # 0 /\ IsPrepared(w, versions[v].begin, versions[v].path)
        BY <1>11, <2>2, <3>1, <3>2 DEF IsPrepared
      <3> QED BY <1>1, <1>4, <3>2, <3>3 DEF VersionsOK
    <2>3. ASSUME NEW b \in batches', NEW o \in Writes(b.invocation)
          PROVE  \E v \in DOMAIN versions' : IsPrepared(v, b.begin, o)'
      <3>1. PICK v \in DOMAIN versions : IsPrepared(v, b.begin, o) BY <1>1, <1>2 DEF VersionsOK
      <3> QED BY <1>4, <1>11, <3>1 DEF IsPrepared
    <2> QED BY <2>1, <2>2, <2>3 DEF VersionsOK
  <1>27. HeadsOK'
    <2> SUFFICES ASSUME NEW m \in Nodes, NEW o \in Paths PROVE HeadOK(m, o)' BY DEF HeadsOK
    <2>1. CASE m = n /\ o = p
      <3>1. \A w \in Line(head[m][o])' : Settled(w)'
        <4>1. Settled(u)' BY <1>9, <1>11, <1>17 DEF Settled
        <4> QED BY <1>19, <1>23, <2>1, <4>1
      <3> QED BY <1>9, <1>11, <1>13, <2>1, <3>1 DEF HeadOK
    <2>2. CASE ~(m = n /\ o = p)
      <3>1. head'[m][o] = head[m][o] /\ head[m][o] \in 0..L /\ Line(head[m][o])' = Line(head[m][o])
        BY <1>14, <1>19, <2>2
      <3>2. PICK g \in 0..L : g = head[m][o] BY <3>1
      <3>3. g # 0 => g \in 1..L /\ versions[g].path = o BY <1>1, <3>2, HeadIs
      <3>4. ASSUME NEW w \in Line(g) PROVE Settled(w)'
        <4>1. Settled(w) BY <1>1, <3>2, HeadIs
        <4>2. w \in 0..L BY <1>1, <1>4, LineBelow
        <4> QED BY <1>1, <1>4, <1>20, <4>1, <4>2, OldSettled
      <3>5. head'[m][o] <= Len(versions') BY <1>11, <3>1
      <3>6. g # 0 => versions'[g].path = o BY <1>11, <3>3
      <3> QED BY <3>1, <3>2, <3>4, <3>5, <3>6 DEF HeadOK
    <2> QED BY <2>1, <2>2
  <1>28. OneLine'
    <2> SUFFICES ASSUME NEW w \in DOMAIN versions', NEW x \in DOMAIN versions', w < x,
                        versions'[w].path = versions'[x].path
                 PROVE  w \in versions'[x].line \/ Bypassed(w)' \/ Aborted(w)'
      BY DEF OneLine
    <2>1. w \in 1..L /\ x \in 1..(L + 1) /\ versions'[w] = versions[w] BY <1>11
    <2>2. PICK o \in Paths : o = versions[w].path BY <1>1, <1>4, <2>1, VersionTyped
    <2>3. versions[w].pred \in Nat /\ versions[w].pred < w
      BY <1>1, <1>4, <2>1, VersionTyped DEF VersionsOK, VersionOK
    <2>4. HomeHead(versions[w].path)' = HomeHead(o)' BY <2>1, <2>2 DEF HomeHead
    <2>5. Line(HomeHead(versions[w].path))' = Line(HomeHead(o))' BY <2>4 DEF Line
    <2>6. CASE x = L + 1
      <3>1. versions'[x] = r /\ o = p BY <1>9, <1>11, <2>1, <2>2, <2>6
      <3>2. CASE w \in Line(h) BY <1>9, <3>1, <3>2
      <3>3. CASE w \notin Line(h)
        <4>1. w # u BY <1>17, <2>1
        <4>2. w \notin Line(HomeHead(o))' BY <1>22, <3>1, <3>3, <4>1
        <4>3. versions[w].pred < HomeHead(o)' BY <1>17, <1>22, <2>1, <2>3, <3>1
        <4> QED BY <2>1, <2>4, <2>5, <4>2, <4>3 DEF Bypassed
      <3> QED BY <3>2, <3>3
    <2>7. CASE x \in 1..L
      <3>1. w \in versions[x].line \/ Bypassed(w) \/ Aborted(w)
        BY <1>1, <1>4, <1>11, <2>1, <2>7 DEF OneLine
      <3>2. CASE w \in versions[x].line BY <1>11, <2>7, <3>2
      <3>3. CASE Bypassed(w)
        <4>1. versions[w].pred < HomeHead(o) /\ w \notin Line(HomeHead(o)) BY <2>2, <3>3 DEF Bypassed
        <4>2. versions[w].pred < HomeHead(o)' BY <1>21, <2>3, <4>1
        <4>3. w \notin Line(HomeHead(o))'
          <5>1. CASE o = p
            <6>1. w # u BY <1>17, <2>1
            <6> QED BY <1>22, <4>1, <5>1, <6>1
          <5>2. CASE o # p
            <6>1. CoordinatorOf[o] \in Nodes BY HomeNode
            <6>2. Line(HomeHead(o))' = Line(HomeHead(o)) BY <1>19, <5>2, <6>1 DEF HomeHead
            <6> QED BY <4>1, <6>2
          <5> QED BY <5>1, <5>2
        <4> QED BY <2>1, <2>4, <2>5, <4>2, <4>3 DEF Bypassed
      <3>4. CASE Aborted(w) BY <1>15, <2>1, <3>4 DEF Aborted, IsDecided
      <3> QED BY <3>1, <3>2, <3>3, <3>4
    <2> QED BY <2>1, <2>6, <2>7
  <1>29. LogOK' BY <1>1, <1>2, SameLog
  <1>30. FinalOK' BY <1>1, <1>15, <1>20, <1>29, FinalGrows DEF Unfinalized
  <1>31. AckedOK' BY <1>1, <1>2, <1>20, AckedStay DEF AckedOK, Required
  <1>32. JobsOK' /\ WireOK' BY <1>1, <1>2, <1>20, Bystanders
  <1>33. Tenure'
    <2>1. JobsFollow BY <1>2 DEF JobsFollow
    <2> QED BY <1>1, <1>2, <2>1, FollowsTenure
  <1>34. Typed' BY <1>1, <1>2, <1>4, <1>11, <1>13 DEF Typed
  <1> QED BY <1>26, <1>27, <1>28, <1>29, <1>30, <1>31, <1>32, <1>33, <1>34 DEF ProgramInv

(* What beginning a batch adds. *)
Begins(n, i, s, nb) ==
    /\ s = [Current EXCEPT !.preparing = Len(decisions)]
    /\ nb = [begin |-> Len(decisions), invocation |-> i, observed |-> head[n]]
    /\ AppendEntry(n, s)
    /\ batches' = batches \cup {nb}
    /\ UNCHANGED <<head, wire, acked>>
    /\ Len(versions') = Len(versions) + Len(Written[i])
    /\ versions' \in Seq(VersionRecord)
    /\ \A v \in 1..Len(versions) : versions'[v] = versions[v]
    /\ \A k \in 1..Len(Written[i]) :
         /\ versions'[Len(versions) + k].path = Written[i][k]
         /\ versions'[Len(versions) + k].begin = Len(decisions)
         /\ versions'[Len(versions) + k].pred = head[n][Written[i][k]]
         /\ versions'[Len(versions) + k].line = Line(head[n][Written[i][k]]) \cup {Len(versions) + k}

LEMMA InvokeBegins ==
    ASSUME ProgramInv, NEW n \in Nodes, NEW i \in Invocations, invoke_distributed(n, i)
    PROVE  /\ \E s, nb : Begins(n, i, s, nb)
           /\ Current.executor = n /\ Current.preparing = 0 /\ Unfinalized(Current) = {}
           /\ job[n] = Idle
           /\ \A k \in 1..Len(Written[i]), m \in Nodes : head[m][Written[i][k]] = head[n][Written[i][k]]
  <1>1. Typed /\ LogOK /\ VersionsOK /\ HeadsOK BY DEF ProgramInv
  <1>2. PICK m \in Nat : m = Len(Written[i]) BY WrittenShape
  <1>3. DOMAIN Written[i] = 1..m /\ \A k \in 1..m : Written[i][k] \in Paths /\ Written[i][k] \in Writes(i)
    BY <1>2, WrittenShape
  <1>4. PICK L \in Nat : L = Len(versions) /\ DOMAIN versions = 1..L BY <1>1 DEF Typed
  <1>5. PICK N \in Nat : N = Len(decisions) BY <1>1 DEF Typed
  <1> DEFINE new(k) == [path |-> Written[i][k], begin |-> N, pred |-> head[n][Written[i][k]],
                        line |-> Line(head[n][Written[i][k]]) \cup {L + k}]
             add == [k \in 1..m |-> new(k)]
  <1>6. versions' = versions \o add BY <1>3, <1>4, <1>5, Zenon DEF invoke_distributed, NewVersion, NextIndex
  <1>7. ASSUME NEW k \in 1..m PROVE new(k) \in VersionRecord
    <2>1. PICK p \in Paths : p = Written[i][k] BY <1>3
    <2>2. PICK h \in 0..L : h = head[n][p] BY <1>1, <1>4, HeadIs
    <2>3. \A w \in Line(h) : w \in 0..L BY <1>1, <1>4, LineBelow
    <2>4. Line(h) \cup {L + k} \in SUBSET Nat BY <2>3
    <2>5. new(k) = [path |-> p, begin |-> N, pred |-> h, line |-> Line(h) \cup {L + k}] BY <2>1, <2>2
    <2> HIDE DEF new
    <2> QED BY <2>4, <2>5 DEF VersionRecord
  <1>8. \A k \in 1..m : /\ new(k).path = Written[i][k] /\ new(k).begin = N
                        /\ new(k).pred = head[n][Written[i][k]]
                        /\ new(k).line = Line(head[n][Written[i][k]]) \cup {L + k}
    OBVIOUS
  <1> HIDE DEF new
  <1>9. add \in Seq(VersionRecord) /\ Len(add) = m /\ \A k \in 1..m : add[k] = new(k)
    BY <1>7
  <1> HIDE DEF add
  <1>10. versions \in Seq(VersionRecord) BY <1>1 DEF Typed
  <1>11. /\ versions' \in Seq(VersionRecord) /\ Len(versions') = L + m
         /\ \A v \in 1..L : versions'[v] = versions[v]
         /\ \A k \in 1..m : versions'[L + k] = add[k]
    BY <1>4, <1>6, <1>9, <1>10
  <1>12. PICK s : s = [Current EXCEPT !.preparing = N] OBVIOUS
  <1>13. PICK nb : nb = [begin |-> N, invocation |-> i, observed |-> head[n]] OBVIOUS
  <1>14. AppendEntry(n, s) /\ batches' = batches \cup {nb} /\ UNCHANGED <<head, wire, acked>>
    BY <1>5, <1>12, <1>13 DEF invoke_distributed, NextIndex
  <1>15. Begins(n, i, s, nb)
    BY <1>2, <1>4, <1>5, <1>8, <1>9, <1>11, <1>12, <1>13, <1>14 DEF Begins
  <1>16. Current.executor = n /\ Current.preparing = 0 /\ job[n] = Idle
    BY DEF invoke_distributed, MayExecute
  <1>17. Unfinalized(Current) = {}
    <2>1. applied[n] = N - 1 BY <1>1, <1>5, <1>16 DEF LogOK
    <2>2. View(n) = Current BY <1>5, <2>1 DEF View, Current
    <2>3. ActiveBegins(Current) = {} BY <2>2 DEF invoke_distributed, TailRecovered
    <2> QED BY <2>3 DEF ActiveBegins
  <1>18. \A k \in 1..m, o \in Nodes : head[o][Written[i][k]] = head[n][Written[i][k]]
    <2>1. Range(Written[i]) \subseteq Range(Participants[i]) BY ProgramConstants
    <2>2. \A k \in 1..m : Written[i][k] \in Range(Participants[i]) BY <1>3, <2>1 DEF Writes
    <2> QED BY <2>2 DEF invoke_distributed
  <1> QED BY <1>2, <1>15, <1>16, <1>17, <1>18

(* A version of a batch is older than the next entry.                      *)
LEMMA BeginBelow ==
    ASSUME Typed, LogOK, VersionsOK
    PROVE  /\ \A begin : HasBatch(begin) => begin # Len(decisions)
           /\ \A v \in DOMAIN versions : versions[v].begin # 0 => HasBatch(versions[v].begin)
  <1>1. ASSUME NEW b \in batches PROVE b.begin # Len(decisions)
    <2>1. b.begin \in Nat /\ b.begin < Len(decisions) /\ Len(decisions) \in Nat
      BY BatchTyped, CurrentTyped DEF LogOK
    <2> QED BY <2>1
  <1>2. \A v \in DOMAIN versions : versions[v].begin # 0 => HasBatch(versions[v].begin)
    BY DEF VersionsOK, VersionOK, HasBatch
  <1> QED BY <1>1, <1>2 DEF HasBatch

LEMMA InvokeKeeps ==
    ASSUME ProgramInv, NEW n \in Nodes, NEW i \in Invocations, invoke_distributed(n, i)
    PROVE  ProgramInv'
  <1>1. Typed /\ LogOK /\ VersionsOK /\ HeadsOK /\ OneLine /\ FinalOK /\ AckedOK
        /\ JobsOK /\ Tenure /\ WireOK
    BY DEF ProgramInv
  <1>2. PICK s, nb : Begins(n, i, s, nb) BY InvokeBegins
  <1>3. Current.executor = n /\ Current.preparing = 0 /\ Unfinalized(Current) = {} /\ job[n] = Idle
    BY InvokeBegins
  <1>4. PICK m \in Nat : m = Len(Written[i]) BY WrittenShape
  <1>5. PICK L \in Nat : L = Len(versions) /\ DOMAIN versions = 1..L BY <1>1 DEF Typed
  <1>6. PICK N \in Nat : N = Len(decisions) /\ N # 0 BY <1>1, CurrentTyped
  <1>7. /\ \A k \in 1..m : Written[i][k] \in Paths /\ Written[i][k] \in Writes(i)
        /\ \A p \in Writes(i) : \E k \in 1..m : p = Written[i][k]
        /\ \A k, l \in 1..m : Written[i][k] = Written[i][l] => k = l
    BY <1>4, WrittenShape
  <1>8. /\ s = [Current EXCEPT !.preparing = N]
        /\ nb = [begin |-> N, invocation |-> i, observed |-> head[n]]
        /\ AppendEntry(n, s)
        /\ batches' = batches \cup {nb}
        /\ head' = head /\ wire' = wire /\ acked' = acked
    BY <1>2, <1>6 DEF Begins
  <1>9. /\ versions' \in Seq(VersionRecord) /\ Len(versions') = L + m
        /\ \A v \in 1..L : versions'[v] = versions[v]
        /\ \A k \in 1..m : /\ versions'[L + k].path = Written[i][k] /\ versions'[L + k].begin = N
                           /\ versions'[L + k].pred = head[n][Written[i][k]]
                           /\ versions'[L + k].line = Line(head[n][Written[i][k]]) \cup {L + k}
    BY <1>2, <1>4, <1>5, <1>6 DEF Begins
  <1>10. DOMAIN versions' = 1..(L + m)
    <2>1. PICK T \in Nat : T = L + m OBVIOUS
    <2> QED BY <1>9, <2>1
  <1>11. \A v \in 1..(L + m) : v \in 1..L \/ \E k \in 1..m : v = L + k
    <2> SUFFICES ASSUME NEW v \in 1..(L + m), v \notin 1..L PROVE v - L \in 1..m /\ v = L + (v - L) OBVIOUS
    <2> QED OBVIOUS
  <1>12. head \in [Nodes -> [Paths -> Nat]] BY <1>1 DEF Typed
  <1>13. /\ nb \in BatchRecord /\ nb.begin = N /\ nb.invocation = i /\ nb.observed = head[n]
    BY <1>8, <1>12 DEF BatchRecord
  <1>14. batches' \in SUBSET BatchRecord BY <1>1, <1>8, <1>13 DEF Typed
  <1>15. Current \in DecisionState BY <1>1, CurrentTyped
  <1>16. /\ s \in DecisionState /\ s.preparing = N /\ s.decided = Current.decided /\ s.executor = n
         /\ s.nomination = Current.nomination /\ s.finalized = Current.finalized
    BY <1>3, <1>8, <1>15 DEF DecisionState
  <1>17. Current' = s BY <1>1, <1>8, <1>16, Appended
  <1>18. \A begin : HasBatch(begin) => begin # N BY <1>1, <1>6, BeginBelow
  <1>19. \A v \in 1..L : versions[v].begin # 0 => HasBatch(versions[v].begin) BY <1>1, <1>5, BeginBelow
  <1>20. Unfinalized(s) = {} BY <1>3, <1>16 DEF Unfinalized
  <1>21. \A begin : HasBatch(begin) => HasBatch(begin)' BY <1>8 DEF HasBatch
  <1>22. Successor(n, s)
    <2>1. ASSUME NEW d \in s.decided
          PROVE  d.commit # 0 /\ d.commit <= N /\ d.begin # s.preparing /\ HasBatch(d.begin)'
      BY <1>1, <1>6, <1>16, <1>18, <1>21, CurrentKnown
    <2>2. HasBatch(s.preparing)' BY <1>8, <1>13, <1>16 DEF HasBatch
    <2>3. s.nomination <= N /\ s.finalized <= N BY <1>1, <1>6, <1>16, CurrentKnown
    <2> QED BY <1>6, <1>16, <1>18, <1>20, <2>1, <2>2, <2>3 DEF Successor
  <1>23. LogOK'
    <2>1. \A b \in batches' : b.begin # 0 /\ b.begin <= N
      <3>1. \A b \in batches : b.begin # 0 /\ b.begin <= N
        <4> SUFFICES ASSUME NEW b \in batches PROVE b.begin # 0 /\ b.begin <= N OBVIOUS
        <4>1. b.begin \in Nat BY <1>1, BatchTyped
        <4> QED BY <1>1, <1>6, <4>1 DEF LogOK
      <3> QED BY <1>6, <1>8, <1>13, <3>1
    <2>2. ASSUME NEW a \in batches', NEW b \in batches', a.begin = b.begin PROVE a = b
      <3>1. \A c \in batches : c.begin # N BY <1>18 DEF HasBatch
      <3> QED BY <1>1, <1>8, <1>13, <2>2, <3>1 DEF LogOK
    <2> QED BY <1>1, <1>6, <1>8, <1>14, <1>22, <2>1, <2>2, AppendKeepsLog
  <1>24. \A w \in 0..L : Line(w)' = Line(w) BY <1>5, <1>9 DEF Line
  <1>25. ASSUME NEW o \in Nodes, NEW p \in Paths
         PROVE  head[o][p] \in 0..L /\ Line(head[o][p])' = Line(head[o][p])
    <2>1. PICK h \in 0..L : h = head[o][p] BY <1>1, <1>5, HeadIs
    <2>2. h = head'[o][p] BY <1>8, <2>1
    <2>3. Line(head[o][p])' = Line(h)' BY <2>2 DEF Line
    <2> QED BY <1>24, <2>1, <2>3
  <1>26. Grows
    <2>1. \A v \in DOMAIN versions : v \in DOMAIN versions' /\ versions'[v] = versions[v]
      BY <1>5, <1>9, <1>10
    <2>2. \A v \in DOMAIN versions' \ DOMAIN versions : ~HasBatch(versions'[v].begin)
      <3> SUFFICES ASSUME NEW v \in 1..(L + m), v \notin 1..L PROVE ~HasBatch(versions'[v].begin)
        BY <1>5, <1>10
      <3>1. PICK k \in 1..m : v = L + k BY <1>11
      <3>2. versions'[v].begin = N BY <1>9, <3>1
      <3> QED BY <1>18, <3>2
    <2> QED BY <1>8, <1>16, <1>17, <1>25, <2>1, <2>2 DEF Grows
  <1>27. ASSUME NEW o \in Paths
         PROVE  /\ HomeHead(o) \in Nat /\ HomeHead(o)' = HomeHead(o)
                /\ Line(HomeHead(o))' = Line(HomeHead(o))
    BY <1>8, <1>12, <1>25, HomeNode DEF HomeHead
  <1>28. ASSUME NEW k \in 1..m
         PROVE  /\ HomeHead(Written[i][k]) = head[n][Written[i][k]]
                /\ head[n][Written[i][k]] \in 0..L
    BY <1>4, <1>7, <1>25, HomeNode, InvokeBegins DEF HomeHead
  <1>29. ASSUME NEW k \in 1..m PROVE VersionOK(L + k)'
    <2>1. PICK v \in Nat : v = L + k OBVIOUS
    <2>2. PICK p \in Paths : p = Written[i][k] /\ p \in Writes(i) BY <1>7
    <2>3. PICK h \in 0..L : h = head[n][p] /\ HomeHead(p) = h BY <1>28, <2>2
    <2>4. /\ versions'[v].path = p /\ versions'[v].begin = N /\ versions'[v].pred = h
          /\ versions'[v].line = Line(h) \cup {v}
      BY <1>9, <2>1, <2>2, <2>3
    <2>5. h < v BY <2>1
    <2>6. h # 0 => versions'[h].path = p
      <3>1. h # 0 => h \in 1..L /\ versions[h].path = p BY <1>1, <2>3, HeadIs
      <3> QED BY <1>9, <3>1
    <2>7. Line(h)' = Line(h) BY <1>24
    <2>8. \A w \in Line(h) : w \in 0..L /\ w <= h BY <1>1, <1>5, LineBelow
    <2>9. Line(h) \cup {v} \subseteq 0..v BY <2>1, <2>8
    <2>10. ASSUME NEW w \in Line(h) PROVE Settled(w)'
      <3>1. Settled(w) BY <1>1, <2>3, HeadIs
      <3> QED BY <1>1, <1>5, <1>26, <2>8, <3>1, OldSettled
    <2>11. Line(versions[v].pred)' = Line(h)' BY <2>4 DEF Line
    <2>12. HomeHead(versions[v].path)' = h
      <3>1. HomeHead(versions[v].path)' = HomeHead(p)' BY <2>4 DEF HomeHead
      <3> QED BY <1>27, <2>3, <3>1
    <2>13. \E b \in batches' : b.begin = N /\ p \in Writes(b.invocation) /\ h = b.observed[p]
      BY <1>8, <1>13, <2>2, <2>3
    <2>14. h <= h BY <2>3
    <2>15. VersionOK(v)'
      BY <1>6, <2>4, <2>5, <2>6, <2>7, <2>9, <2>10, <2>11, <2>12, <2>13, <2>14 DEF VersionOK
    <2> QED BY <2>1, <2>15
  <1>30. VersionsOK'
    <2>1. \A v \in DOMAIN versions' : VersionOK(v)'
      <3> SUFFICES ASSUME NEW v \in 1..(L + m) PROVE VersionOK(v)' BY <1>10
      <3>1. CASE v \in 1..L
        <4>1. \A o \in Paths : HomeHead(o) \in Nat /\ HomeHead(o)' \in Nat /\ HomeHead(o) <= HomeHead(o)'
          BY <1>27
        <4> QED BY <1>1, <1>5, <1>26, <3>1, <4>1, OldVersion
      <3>2. CASE \E k \in 1..m : v = L + k BY <1>29, <3>2
      <3> QED BY <1>11, <3>1, <3>2
    <2>2. ASSUME NEW v \in DOMAIN versions', NEW w \in DOMAIN versions', versions'[v].begin # 0,
                 IsPrepared(w, versions[v].begin, versions[v].path)'
          PROVE  v = w
      <3>1. versions'[w].begin = versions'[v].begin /\ versions'[w].path = versions'[v].path
        BY <2>2 DEF IsPrepared
      <3>2. CASE v \in 1..L /\ w \in 1..L
        <4>1. versions[v].begin # 0 /\ IsPrepared(w, versions[v].begin, versions[v].path)
          BY <1>9, <2>2, <3>1, <3>2 DEF IsPrepared
        <4> QED BY <1>1, <1>5, <3>2, <4>1 DEF VersionsOK
      <3>3. CASE v \in 1..L /\ w \notin 1..L
        <4>1. PICK k \in 1..m : w = L + k BY <1>10, <1>11, <3>3
        <4>2. versions'[w].begin = N BY <1>9, <4>1
        <4> QED BY <1>6, <1>9, <1>18, <1>19, <3>1, <3>3, <4>2
      <3>4. CASE v \notin 1..L /\ w \in 1..L
        <4>1. PICK k \in 1..m : v = L + k BY <1>10, <1>11, <3>4
        <4>2. versions'[v].begin = N BY <1>9, <4>1
        <4> QED BY <1>6, <1>9, <1>18, <1>19, <3>1, <3>4, <4>2
      <3>5. CASE v \notin 1..L /\ w \notin 1..L
        <4>1. PICK k \in 1..m : v = L + k BY <1>10, <1>11, <3>5
        <4>2. PICK l \in 1..m : w = L + l BY <1>10, <1>11, <3>5
        <4>3. Written[i][k] = Written[i][l] BY <1>9, <3>1, <4>1, <4>2
        <4> QED BY <1>7, <4>1, <4>2, <4>3
      <3> QED BY <3>2, <3>3, <3>4, <3>5
    <2>3. ASSUME NEW b \in batches', NEW p \in Writes(b.invocation)
          PROVE  \E v \in DOMAIN versions' : IsPrepared(v, b.begin, p)'
      <3>1. CASE b \in batches
        <4>1. PICK v \in DOMAIN versions : IsPrepared(v, b.begin, p) BY <1>1, <3>1 DEF VersionsOK
        <4> QED BY <1>26, <4>1 DEF IsPrepared, Grows
      <3>2. CASE b = nb
        <4>1. PICK k \in 1..m : p = Written[i][k] BY <1>7, <1>13, <3>2
        <4>2. L + k \in DOMAIN versions' BY <1>10
        <4> QED BY <1>9, <1>13, <3>2, <4>1, <4>2 DEF IsPrepared
      <3> QED BY <1>8, <3>1, <3>2
    <2> QED BY <2>1, <2>2, <2>3 DEF VersionsOK
  <1>31. HeadsOK'
    <2> SUFFICES ASSUME NEW o \in Nodes, NEW p \in Paths PROVE HeadOK(o, p)' BY DEF HeadsOK
    <2>1. PICK g \in 0..L : g = head[o][p] /\ Line(head[o][p])' = Line(g) BY <1>25
    <2>2. head'[o][p] = g BY <1>8, <2>1
    <2>3. g # 0 => g \in 1..L /\ versions[g].path = p BY <1>1, <2>1, HeadIs
    <2>4. ASSUME NEW w \in Line(g) PROVE Settled(w)'
      <3>1. Settled(w) BY <1>1, <2>1, HeadIs
      <3>2. w \in 0..L BY <1>1, <1>5, LineBelow
      <3> QED BY <1>1, <1>5, <1>26, <3>1, <3>2, OldSettled
    <2>5. g <= Len(versions') BY <1>9
    <2>6. g # 0 => versions'[g].path = p BY <1>9, <2>3
    <2> QED BY <2>1, <2>2, <2>4, <2>5, <2>6 DEF HeadOK
  <1>32. ASSUME NEW w \in 1..L PROVE (Bypassed(w) => Bypassed(w)') /\ (Aborted(w) => Aborted(w)')
    <2>1. versions'[w] = versions[w] BY <1>9
    <2>2. PICK o \in Paths : o = versions[w].path BY <1>1, <1>5, VersionTyped
    <2>3. HomeHead(versions[w].path)' = HomeHead(o)' BY <2>1, <2>2 DEF HomeHead
    <2>4. Line(HomeHead(versions[w].path))' = Line(HomeHead(o))' BY <2>3 DEF Line
    <2>5. Bypassed(w) => Bypassed(w)' BY <1>27, <2>1, <2>2, <2>3, <2>4 DEF Bypassed
    <2>6. Aborted(w) => Aborted(w)' BY <1>16, <1>17, <1>18, <1>19, <2>1 DEF Aborted, IsDecided
    <2> QED BY <2>5, <2>6
  <1>33. ASSUME NEW w \in 1..L, NEW k \in 1..m, versions[w].path = Written[i][k]
         PROVE  w \in Line(head[n][Written[i][k]]) \/ Bypassed(w) \/ Aborted(w)
    <2>1. PICK p \in Paths : p = Written[i][k] /\ p \in Writes(i) BY <1>7
    <2>2. PICK h \in 0..L : h = head[n][p] /\ h = HomeHead(p) BY <1>28, <2>1
    <2>3. VersionOK(w) /\ versions[w].pred \in Nat BY <1>1, <1>5, VersionTyped DEF VersionsOK
    <2> SUFFICES ASSUME w \notin Line(h), ~Bypassed(w) PROVE Aborted(w) BY <2>1, <2>2
    <2>4. versions[w].begin # 0 BY <1>33, <2>1, <2>2, <2>3 DEF VersionOK
    <2>5. ASSUME IsDecided(versions[w].begin) PROVE FALSE
      <3>1. PICK d \in Current.decided : d.begin = versions[w].begin BY <2>5 DEF IsDecided
      <3>2. PICK b \in batches : b.begin = d.begin BY <1>1, <3>1 DEF LogOK, HasBatch
      <3>3. AllPublished(b) BY <1>1, <1>3, <3>1, <3>2 DEF FinalOK
      <3>4. PICK a \in batches : a.begin = versions[w].begin /\ p \in Writes(a.invocation)
        BY <1>33, <2>1, <2>3, <2>4 DEF VersionOK
      <3>5. a = b BY <1>1, <3>1, <3>2, <3>4 DEF LogOK
      <3>6. Reached(b.begin, p) BY <3>3, <3>4, <3>5 DEF AllPublished, Published
      <3>7. w \in Line(HomeHead(p)) BY <1>5, <1>33, <2>1, <3>1, <3>2, <3>6 DEF Reached, IsPrepared
      <3> QED BY <2>2, <3>7
    <2> QED BY <1>3, <2>4, <2>5 DEF Aborted
  <1>34. OneLine'
    <2> SUFFICES ASSUME NEW w \in DOMAIN versions', NEW x \in DOMAIN versions', w < x,
                        versions'[w].path = versions'[x].path
                 PROVE  w \in versions'[x].line \/ Bypassed(w)' \/ Aborted(w)'
      BY DEF OneLine
    <2>1. CASE x \in 1..L
      <3>1. w \in 1..L BY <1>10, <2>1
      <3>2. w \in versions[x].line \/ Bypassed(w) \/ Aborted(w)
        BY <1>1, <1>5, <1>9, <2>1, <3>1 DEF OneLine
      <3> QED BY <1>9, <1>32, <2>1, <3>1, <3>2
    <2>2. CASE w \in 1..L /\ x \notin 1..L
      <3>1. PICK k \in 1..m : x = L + k BY <1>10, <1>11, <2>2
      <3>2. versions[w].path = Written[i][k] BY <1>9, <2>2, <3>1
      <3>3. w \in Line(head[n][Written[i][k]]) \/ Bypassed(w) \/ Aborted(w) BY <1>33, <2>2, <3>2
      <3> QED BY <1>9, <1>32, <2>2, <3>1, <3>3
    <2>3. CASE w \notin 1..L /\ x \notin 1..L
      <3>1. PICK k \in 1..m : x = L + k BY <1>10, <1>11, <2>3
      <3>2. PICK l \in 1..m : w = L + l BY <1>10, <1>11, <2>3
      <3>3. Written[i][k] = Written[i][l] BY <1>9, <3>1, <3>2
      <3> QED BY <1>7, <3>1, <3>2, <3>3
    <2> QED BY <2>1, <2>2, <2>3
  <1>35. FinalOK'
    <2>1. Current'.decided \ Unfinalized(Current)' \subseteq Current.decided \ Unfinalized(Current)
      BY <1>3, <1>16, <1>17
    <2> QED BY <1>1, <1>23, <1>26, <2>1, FinalGrows
  <1>36. AckedOK' BY <1>1, <1>8, <1>26, AckedStay DEF AckedOK, Required
  <1>37. PICK x : x = NewJob("invoke", "stage", N, View(n).nomination, 0) OBVIOUS
  <1>38. job' = [job EXCEPT ![n] = x] BY <1>6, <1>37 DEF invoke_distributed, NextIndex
  <1>39. View(n).nomination = Current.nomination /\ Current.nomination \in Nat /\ Current.nomination < N
    BY <1>1, <1>6, CurrentKnown DEF invoke_distributed
  <1>40. /\ x \in Job /\ x.kind = "invoke" /\ x.phase = "stage" /\ x.begin = N /\ x.commit = 0
         /\ x.waiting = {} /\ x.nomination = Current.nomination
    BY <1>37, <1>39 DEF NewJob, Job, Phases
  <1>41. JobFits(x, nb)'
    <2>1. RoundsOf(nb.invocation, x.phase) = << >> BY <1>40, NoRounds
    <2> QED BY <1>13, <1>40, <2>1 DEF JobFits, ReadyFor, CommitKnown
  <1>42. RestOK(n, wire) BY <1>1, <1>3, WaitsForNone
  <1>43. /\ \A q \in wire' : q \in Message /\ RequestOK(q)'
         /\ \A q \in wire' : ~q.late => q \in wire /\ q.from # n
    BY <1>8, <1>26, <1>42, RequestGrows DEF RestOK
  <1>44. nb \in batches' BY <1>8
  <1>45. /\ job' \in [Nodes -> Job \cup {Idle}] /\ wire' \in SUBSET Message
         /\ JobsOK' /\ WireOK'
    BY <1>1, <1>26, <1>38, <1>40, <1>41, <1>43, <1>44, JobsStep
  <1>46. Tenure'
    <2>1. Len(decisions') = N + 1 BY <1>1, <1>6, <1>8, <1>16, Appended
    <2>2. job \in [Nodes -> Job \cup {Idle}] BY <1>1 DEF Typed
    <2>3. job'[n] = x /\ \A o \in Nodes \ {n} : job'[o] = job[o] BY <1>38, <2>2
    <2> SUFFICES ASSUME NEW o \in Nodes, job'[o] # Idle PROVE InTenure(o, job[o])' BY DEF Tenure
    <2>4. CASE o = n
      <3>1. Current.nomination < N + 1 BY <1>39
      <3> QED BY <1>40, <2>1, <2>3, <2>4, <3>1 DEF InTenure
    <2>5. CASE o # n
      <3>1. job[o] \in Job /\ job[o].nomination < N BY <1>1, <1>6, <2>2, <2>3, <2>5 DEF Tenure, InTenure
      <3>2. job[o].nomination \in Nat BY <3>1 DEF Job
      <3>3. job[o].nomination < N + 1 BY <3>1, <3>2
      <3> QED BY <1>16, <1>17, <2>1, <2>3, <2>5, <3>3 DEF InTenure
    <2> QED BY <2>4, <2>5
  <1>47. Typed'
    <2>1. acked' \in SUBSET DOMAIN versions' BY <1>1, <1>5, <1>8, <1>10 DEF Typed
    <2>2. /\ decisions' \in Seq(DecisionState) /\ decisions' # << >> /\ applied' \in [Nodes -> Nat]
          /\ \A o \in Nodes : applied'[o] < Len(decisions')
      BY <1>1, <1>8, <1>16, Appended
    <2> QED BY <1>8, <1>9, <1>12, <1>14, <1>45, <2>1, <2>2 DEF Typed
  <1> QED BY <1>23, <1>30, <1>31, <1>34, <1>35, <1>36, <1>45, <1>46, <1>47 DEF ProgramInv

-----------------------------------------------------------------------------
(* The invariant, and what it says. *)

LEMMA InitLemma == Init => ProgramInv
  <1> SUFFICES ASSUME Init PROVE ProgramInv OBVIOUS
  <1>1. PICK s : s = [executor |-> None, nomination |-> 0, preparing |-> 0,
                      decided |-> {}, finalized |-> 0]
    OBVIOUS
  <1>2. s \in DecisionState /\ s.nomination = 0 /\ s.preparing = 0 /\ s.decided = {} /\ s.finalized = 0
    BY <1>1 DEF DecisionState
  <1>3. decisions = <<s>> BY <1>1 DEF Init
  <1>4. /\ decisions \in Seq(DecisionState) /\ Len(decisions) = 1 /\ decisions # << >>
        /\ decisions[1] = s
    BY <1>2, <1>3
  <1>5. Current = s BY <1>4 DEF Current
  <1>6. Unfinalized(Current) = {} BY <1>2, <1>5 DEF Unfinalized
  <1>7. applied \in [Nodes -> Nat] /\ \A n \in Nodes : applied[n] = 0 BY DEF Init
  <1>8. batches = {} /\ versions = << >> /\ wire = {} /\ acked = {} BY DEF Init
  <1>9. /\ head \in [Nodes -> [Paths -> Nat]] /\ \A n \in Nodes, p \in Paths : head[n][p] = 0
        /\ job \in [Nodes -> Job \cup {Idle}] /\ \A n \in Nodes : job[n] = Idle
    BY DEF Init
  <1>10. versions \in Seq(VersionRecord) /\ DOMAIN versions = {} /\ Len(versions) = 0 BY <1>8
  <1>11. Typed BY <1>4, <1>7, <1>8, <1>9, <1>10 DEF Typed
  <1>12. LogOK
    <2>1. \A k \in 1..Len(decisions) : k = 1 BY <1>4
    <2>2. \A n \in Nodes : Current.executor = n => applied[n] = Len(decisions) - 1 BY <1>4, <1>7
    <2> QED BY <1>2, <1>4, <1>5, <1>6, <1>8, <2>1, <2>2 DEF LogOK
  <1>13. VersionsOK /\ OneLine BY <1>8, <1>10 DEF VersionsOK, OneLine
  <1>14. HeadsOK BY <1>9, <1>10 DEF HeadsOK, HeadOK, Line, Settled
  <1>15. FinalOK /\ AckedOK BY <1>8 DEF FinalOK, AckedOK
  <1>16. JobsOK /\ Tenure /\ WireOK BY <1>8, <1>9 DEF JobsOK, Tenure, WireOK
  <1> QED BY <1>11, <1>12, <1>13, <1>14, <1>15, <1>16 DEF ProgramInv

LEMMA NextLemma == ProgramInv /\ [Next]_vars => ProgramInv'
  <1> SUFFICES ASSUME ProgramInv, [Next]_vars PROVE ProgramInv' OBVIOUS
  <1>1. ASSUME NEW n \in Nodes, NominateExecutor(n) PROVE ProgramInv' BY <1>1, NominateKeeps
  <1>2. ASSUME NEW n \in Nodes, ApplyEntry(n) PROVE ProgramInv' BY <1>2, ApplyEntryKeeps
  <1>3. ASSUME NEW n \in Nodes, NEW i \in Invocations, invoke_distributed(n, i) PROVE ProgramInv'
    BY <1>3, InvokeKeeps
  <1>4. ASSUME NEW n \in Nodes, recover_distributed_tail_locked(n) PROVE ProgramInv'
    BY <1>4, RecoverKeeps
  <1>5. ASSUME NEW n \in Nodes, stage_prepared(n) PROVE ProgramInv' BY <1>5, StageKeeps
  <1>6. ASSUME NEW n \in Nodes, CommitPreparedBatch(n) PROVE ProgramInv' BY <1>6, CommitKeeps
  <1>7. ASSUME NEW n \in Nodes, AbortPreparedBatch(n) PROVE ProgramInv' BY <1>7, AbortKeeps
  <1>8. ASSUME NEW n \in Nodes, advance_finalized_through(n) PROVE ProgramInv' BY <1>8, AdvanceKeeps
  <1>9. ASSUME NEW n \in Nodes, SubmitRejected(n) PROVE ProgramInv' BY <1>9, RejectedKeeps
  <1>10. ASSUME NEW n \in Nodes, Abandon(n) PROVE ProgramInv' BY <1>10, AbandonKeeps
  <1>11. ASSUME NEW n \in Nodes, ExecuteLocal(n) PROVE ProgramInv' BY <1>11, ExecuteLocalKeeps
  <1>12. ASSUME NEW n \in Nodes, SweepRead(n) \/ SweepList(n) \/ SweepRelease(n) PROVE ProgramInv'
    BY <1>12, SweepKeeps DEF SweepRead, SweepList, SweepRelease, store
  <1>13. ASSUME NEW n \in Nodes, NEW v \in DOMAIN versions, OrdinaryApply(n, v) PROVE ProgramInv'
    BY <1>13, OrdinaryApplyKeeps
  <1>14. ASSUME NEW n \in Nodes, NEW p \in Paths, NEW v \in DOMAIN versions, Repair(n, p, v)
         PROVE  ProgramInv'
    BY <1>14, RepairKeeps
  <1>15. ASSUME NEW p \in Paths, OrdinaryWrite(p) PROVE ProgramInv' BY <1>15, OrdinaryWriteKeeps
  <1>16. ASSUME NEW q \in wire, TimeOut(q) \/ Admit(q) \/ Refuse(q) \/ Execute(q) PROVE ProgramInv'
    BY <1>16, TimeOutKeeps, AdmitKeeps, RefuseKeeps, ExecuteKeeps
  <1>17. CASE UNCHANGED vars BY <1>17, SweepKeeps DEF vars
  <1> QED
    BY <1>1, <1>2, <1>3, <1>4, <1>5, <1>6, <1>7, <1>8, <1>9, <1>10, <1>11, <1>12, <1>13,
       <1>14, <1>15, <1>16, <1>17
    DEF Next

LEMMA InvariantSuffices == ProgramInv => ProgramsAtomic
  <1> SUFFICES ASSUME ProgramInv PROVE ProgramsAtomic OBVIOUS
  <1>1. Typed /\ LogOK /\ VersionsOK /\ HeadsOK /\ FinalOK /\ AckedOK BY DEF ProgramInv
  <1>2. ASSUME NEW v \in DOMAIN versions, versions[v].begin # 0, Holders(v) # {}
        PROVE  \E d \in Current.decided : d.begin = versions[v].begin
    <2>1. PICK n \in Nodes : v \in Line(head[n][versions[v].path]) BY <1>2 DEF Holders
    <2>2. PICK p \in Paths : p = versions[v].path BY <1>1, VersionTyped
    <2>3. Settled(v) BY <1>1, <2>1, <2>2, HeadIs
    <2>4. v # 0 BY <1>1, VersionTyped
    <2> QED BY <1>2, <2>3, <2>4 DEF Settled, IsDecided
  <1>3. ASSUME NEW d \in Current.decided \ Unfinalized(Current),
               NEW p \in Writes(Batch(d.begin).invocation)
        PROVE  Cardinality(Holders(Prepared(d.begin, p))) >= Required
    <2>1. PICK b \in batches : b.begin = d.begin BY <1>1 DEF LogOK, HasBatch
    <2>2. Batch(d.begin) = b BY <1>1, <2>1, BatchIs
    <2>3. p \in Writes(b.invocation) BY <2>2
    <2>4. AllPublished(b) BY <1>1, <2>1 DEF FinalOK
    <2>5. Published(b.begin, p) BY <2>3, <2>4 DEF AllPublished
    <2>6. Prepared(b.begin, p) \in DOMAIN versions /\ IsPrepared(Prepared(b.begin, p), b.begin, p)
      BY <1>1, <2>3, PreparedIs
    <2> QED BY <2>1, <2>5, <2>6 DEF Published
  <1> QED BY <1>1, <1>2, <1>3 DEF ProgramsAtomic, AckedOK

(* For every number of paths, programs and log entries: no replica shows a *)
(* version of a program that Raft has not decided, a quorum holds every    *)
(* version of a program once the watermark has passed it, and a quorum     *)
(* keeps every acknowledged ordinary write in its line, whatever           *)
(* nominations, abandoned jobs, unanswered or late requests and sweeps     *)
(* come between (invoke_distributed, apply_reservation_operation,          *)
(* advance_finalized_through, recover_distributed_tail_locked).            *)
THEOREM ProgramsTakeEffectWhole == Spec => []ProgramsAtomic
  <1>1. ProgramInv /\ [Next]_vars => ProgramInv' BY NextLemma
  <1>2. ProgramInv => ProgramsAtomic BY InvariantSuffices
  <1> QED BY <1>1, <1>2, InitLemma, PTL DEF Spec
=============================================================================
