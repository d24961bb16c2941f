----------------------- MODULE AtomicReservationProofs -----------------------
(***************************************************************************)
(* What the reservations of AtomicPrograms are for, for every number of    *)
(* paths and programs and with no bound on the log or on what goes wrong;  *)
(* that its log of decisions is one of AtomicDecisions; and that what it   *)
(* stores names only things that exist.                                    *)
(***************************************************************************)
EXTENDS AtomicProgramsProofs

Reservation == [begin : Nat, nomination : Nat, commit : Nat]

(* Node n keeps path p for batch begin.                                    *)
Fenced(n, p, begin) == reserved[n][p] # None /\ reserved[n][p].begin = begin

(* The decision state protects the batch, and no sweep took from it.       *)
Live(begin) == begin \in ActiveBegins(Current) /\ begin \notin swept

Touches(b) == Range(Participants[b.invocation])

(* The node shows what the batch observed, or what it wrote.               *)
ShowsOwn(n, p, b) ==
    \/ head[n][p] = b.observed[p]
    \/ head[n][p] # 0 /\ IsPrepared(head[n][p], b.begin, p)

(* A node that does not keep p for the batch has moved past what the batch *)
(* observed, so the batch will never have p on every node.                 *)
Lost(p, b) == \E m \in Nodes : ~Fenced(m, p, b.begin) /\ b.observed[p] < head[m][p]

FencesTyped ==
    /\ reserved \in [Nodes -> [Paths -> Reservation \cup {None}]]
    /\ \A n \in Nodes, p \in Paths : reserved[n][p] # None => HasBatch(reserved[n][p].begin)

DecidedOnce == \A d, e \in Current.decided : d.begin = e.begin => d = e

Releasing == {"release", "releaseAborted"}

(* Only a batch that is over is released.                                  *)
ReleasesOver ==
    /\ \A n \in Nodes : job[n] # Idle /\ job[n].phase \in Releasing =>
         job[n].begin \notin ActiveBegins(Current)
    /\ \A q \in wire : q.op = "release" => q.begin \notin ActiveBegins(Current)

(* What a node keeps for a live batch stays as it was when the reservation *)
(* was made, or the batch is lost.                                         *)
FencedHeads ==
    \A b \in batches : Live(b.begin) =>
        \A p \in Touches(b), n \in Nodes :
            Fenced(n, p, b.begin) => ShowsOwn(n, p, b) \/ Lost(p, b)

AllFenced(b) == \A p \in Touches(b), n \in Nodes : Fenced(n, p, b.begin)

DecidedFenced ==
    \A b \in batches : Live(b.begin) /\ b.begin # Current.preparing => AllFenced(b)

(* The rounds before this one have reserved their paths on every node, and *)
(* those counted in this one have.                                         *)
ReserveProgress(j, b) ==
    /\ \A k \in DOMAIN Participants[b.invocation] :
         k < j.round => \A n \in Nodes : Fenced(n, Participants[b.invocation][k], b.begin)
    /\ j.acks <= Cardinality({n \in Nodes \ j.waiting :
                                Fenced(n, Participants[b.invocation][j.round], b.begin)})

JobFenced(j, b) ==
    Live(b.begin) => /\ j.phase = "reserve" => ReserveProgress(j, b)
                     /\ j.phase = "decide" => AllFenced(b)

JobsFenced == \A n \in Nodes, b \in batches : job[n] # Idle /\ job[n].begin = b.begin => JobFenced(job[n], b)

(* The inductive invariant of reservations, over that of programs.         *)
FenceInv ==
    /\ FencesTyped /\ DecidedOnce /\ ReleasesOver
    /\ FencedHeads /\ DecidedFenced /\ JobsFenced

-----------------------------------------------------------------------------
(* What a step owes to the reservations. *)

(* A batch that is over stays over. *)
StaysOver ==
    /\ batches \subseteq batches' /\ swept \subseteq swept'
    /\ \A b \in batches' \ batches : ~HasBatch(b.begin)
    /\ \A begin : HasBatch(begin) /\ begin \in ActiveBegins(Current)' => begin \in ActiveBegins(Current)

(* The reservations of a live batch stay.                                  *)
FencesStay ==
    \A b \in batches, n \in Nodes, p \in Paths :
        Live(b.begin)' /\ Fenced(n, p, b.begin) => Fenced(n, p, b.begin)'

(* A new one is made over what the batch observed.                         *)
FencesFit ==
    \A n \in Nodes, p \in Paths : reserved'[n][p] # None =>
        \/ Fenced(n, p, reserved'[n][p].begin)
        \/ \E b \in batches : /\ b.begin = reserved'[n][p].begin
                              /\ head[n][p] = b.observed[p]

LEMMA LiveBefore ==
    ASSUME StaysOver, NEW b \in batches, Live(b.begin)'
    PROVE  Live(b.begin)
  <1>1. HasBatch(b.begin) BY DEF HasBatch
  <1>2. b.begin \in ActiveBegins(Current)' /\ b.begin \notin swept' BY DEF Live
  <1> QED BY <1>1, <1>2 DEF StaysOver, Live

LEMMA TouchesPaths ==
    ASSUME Typed, NEW b \in batches
    PROVE  /\ Touches(b) \subseteq Paths
           /\ \A k \in DOMAIN Participants[b.invocation] : Participants[b.invocation][k] \in Touches(b)
           /\ \A p \in Touches(b) : \E k \in DOMAIN Participants[b.invocation] :
                p = Participants[b.invocation][k]
           /\ DOMAIN Participants[b.invocation] = 1..Len(Participants[b.invocation])
           /\ Len(Participants[b.invocation]) \in Nat
  <1>1. PICK i \in Invocations : i = b.invocation BY BatchTyped
  <1>2. /\ DOMAIN Participants[i] = 1..Len(Participants[i]) /\ Len(Participants[i]) \in Nat
        /\ \A k \in 1..Len(Participants[i]) : Participants[i][k] \in Paths
    BY WrittenShape
  <1> QED BY <1>1, <1>2 DEF Touches, Range

(* Reservations move and heads do not. *)
LEMMA HeadsStay ==
    ASSUME ProgramInv, FenceInv, StaysOver, FencesFit, UNCHANGED head,
           \A v \in DOMAIN versions : versions'[v] = versions[v], batches' \subseteq BatchRecord
    PROVE  FencedHeads'
  <1>1. Typed /\ LogOK /\ HeadsOK /\ FencesTyped /\ FencedHeads BY DEF ProgramInv, FenceInv
  <1> SUFFICES ASSUME NEW b \in batches', Live(b.begin)', NEW p \in Touches(b), NEW n \in Nodes,
                      Fenced(n, p, b.begin)'
               PROVE  (ShowsOwn(n, p, b) \/ Lost(p, b))'
    BY DEF FencedHeads, Touches
  <1>2. p \in Paths
    <2>1. b \in BatchRecord OBVIOUS
    <2>2. PICK i \in Invocations : i = b.invocation BY <2>1 DEF BatchRecord
    <2>3. Participants[i] \in Seq(Paths) BY WrittenShape
    <2> QED BY <2>2, <2>3 DEF Touches, Range
  <1>3. reserved'[n][p] # None /\ reserved'[n][p].begin = b.begin BY DEF Fenced
  <1>4. b \in batches
    <2>1. HasBatch(b.begin) BY <1>1, <1>2, <1>3 DEF FencesFit, FencesTyped, Fenced, HasBatch
    <2> QED BY <2>1 DEF StaysOver
  <1>5. ASSUME NEW m \in Nodes, Fenced(m, p, b.begin)', ~Fenced(m, p, b.begin)
        PROVE  head[m][p] = b.observed[p]
    <2>1. reserved'[m][p] # None /\ reserved'[m][p].begin = b.begin BY <1>5 DEF Fenced
    <2>2. PICK a \in batches : a.begin = b.begin /\ head[m][p] = a.observed[p]
      BY <1>2, <1>5, <2>1 DEF FencesFit
    <2>3. a = b BY <1>1, <1>4, <2>2 DEF LogOK
    <2> QED BY <2>2, <2>3
  <1>6. CASE ~Fenced(n, p, b.begin) BY <1>5, <1>6 DEF ShowsOwn
  <1>7. CASE Fenced(n, p, b.begin)
    <2>1. Live(b.begin) BY <1>4, LiveBefore
    <2>2. ShowsOwn(n, p, b) \/ Lost(p, b) BY <1>1, <1>4, <1>7, <2>1 DEF FencedHeads
    <2>3. ASSUME ShowsOwn(n, p, b) PROVE ShowsOwn(n, p, b)'
      <3>1. head[n][p] # 0 => head[n][p] \in DOMAIN versions BY <1>1, <1>2, HeadIs
      <3> QED BY <2>3, <3>1 DEF ShowsOwn, IsPrepared
    <2>4. ASSUME Lost(p, b) PROVE Lost(p, b)'
      <3>1. PICK m \in Nodes : ~Fenced(m, p, b.begin) /\ b.observed[p] < head[m][p] BY <2>4 DEF Lost
      <3>2. b.observed[p] \in Nat /\ head[m][p] \in Nat BY <1>1, <1>2, <1>4, BatchTyped DEF Typed
      <3>3. ~Fenced(m, p, b.begin)' BY <1>5, <3>1, <3>2
      <3> QED BY <3>1, <3>3 DEF Lost
    <2> QED BY <2>2, <2>3, <2>4
  <1> QED BY <1>6, <1>7

(* One head moves forward and reservations do not.                         *)
LEMMA HeadAdvances ==
    ASSUME ProgramInv, FenceInv, UNCHANGED <<decisions, batches, reserved, swept>>,
           \A v \in DOMAIN versions : versions'[v] = versions[v],
           NEW n \in Nodes, NEW p \in Paths, NEW v \in Nat, head[n][p] < v,
           head' = [head EXCEPT ![n][p] = v],
           \A b \in batches : Live(b.begin) /\ p \in Touches(b) /\ Fenced(n, p, b.begin)
                                /\ ShowsOwn(n, p, b) =>
             ShowsOwn(n, p, b)' \/ Lost(p, b)
    PROVE  FencedHeads'
  <1>1. Typed /\ LogOK /\ HeadsOK /\ FencesTyped /\ FencedHeads BY DEF ProgramInv, FenceInv
  <1>2. Current' = Current BY DEF Current
  <1>3. \A begin : Live(begin)' <=> Live(begin) BY <1>2 DEF Live, ActiveBegins, Unfinalized
  <1>4. \A m, o, begin : Fenced(m, o, begin)' <=> Fenced(m, o, begin) BY DEF Fenced
  <1>5. head \in [Nodes -> [Paths -> Nat]] BY <1>1 DEF Typed
  <1>6. /\ head'[n][p] = v
        /\ \A m \in Nodes, o \in Paths : <<m, o>> # <<n, p>> => head'[m][o] = head[m][o]
        /\ \A m \in Nodes, o \in Paths : /\ head[m][o] \in Nat /\ head'[m][o] \in Nat
                                         /\ head[m][o] <= head'[m][o]
    BY <1>5
  <1> SUFFICES ASSUME NEW b \in batches, Live(b.begin), NEW o \in Touches(b), NEW m \in Nodes,
                      Fenced(m, o, b.begin)
               PROVE  (ShowsOwn(m, o, b) \/ Lost(o, b))'
    BY <1>3, <1>4 DEF FencedHeads, Touches
  <1>7. o \in Paths BY <1>1, TouchesPaths
  <1>8. ASSUME Lost(o, b) PROVE Lost(o, b)'
    <2>1. PICK k \in Nodes : ~Fenced(k, o, b.begin) /\ b.observed[o] < head[k][o] BY <1>8 DEF Lost
    <2>2. b.observed[o] \in Nat BY <1>1, <1>7, BatchTyped
    <2>3. b.observed[o] < head'[k][o] BY <1>6, <1>7, <2>1, <2>2
    <2> QED BY <1>4, <2>1, <2>3 DEF Lost
  <1>9. ShowsOwn(m, o, b) \/ Lost(o, b) BY <1>1 DEF FencedHeads
  <1>10. CASE m = n /\ o = p BY <1>8, <1>9, <1>10
  <1>11. CASE ~(m = n /\ o = p) /\ ShowsOwn(m, o, b)
    <2>1. head'[m][o] = head[m][o] BY <1>6, <1>7, <1>11
    <2>2. head[m][o] # 0 => head[m][o] \in DOMAIN versions BY <1>1, <1>7, HeadIs
    <2> QED BY <1>11, <2>1, <2>2 DEF ShowsOwn, IsPrepared
  <1> QED BY <1>8, <1>9, <1>10, <1>11

-----------------------------------------------------------------------------
(* Jobs. *)

(* The round of a phase that reserves or releases.                         *)
LEMMA ReservingRounds ==
    ASSUME NEW i \in Invocations, NEW phase \in Phases, NEW k \in DOMAIN RoundsOf(i, phase)
    PROVE  /\ RoundsOf(i, phase)[k].op = "release" <=> phase \in Releasing
           /\ phase = "reserve" => /\ RoundsOf(i, phase)[k].op = "reserve"
                                   /\ RoundsOf(i, phase)[k].path = Participants[i][k]
                                   /\ RoundsOf(i, phase)[k].to = Nodes
                                   /\ k \in DOMAIN Participants[i]
                                   /\ Len(RoundsOf(i, phase)) = Len(Participants[i])
  <1>1. CASE phase = "reserve"
    <2> DEFINE m == Len(Participants[i])
               f == [l \in 1..m |-> [op |-> "reserve", path |-> Participants[i][l], to |-> Nodes]]
    <2>1. m \in Nat /\ DOMAIN Participants[i] = 1..m BY WrittenShape
    <2>2. RoundsOf(i, phase) = f BY <1>1, <2>1 DEF RoundsOf, EveryReplica
    <2> HIDE DEF m
    <2>3. Len(f) = m /\ DOMAIN f = 1..m BY <2>1
    <2>4. k \in 1..m BY <2>2, <2>3
    <2>5. f[k].op = "reserve" /\ f[k].path = Participants[i][k] /\ f[k].to = Nodes BY <2>4
    <2> QED BY <1>1, <2>1, <2>2, <2>3, <2>4, <2>5 DEF Releasing, m
  <1>2. CASE phase = "commit"
    <2>1. RoundsOf(i, phase) = EveryReplica("commit", i) BY <1>2 DEF RoundsOf
    <2>2. PICK op : op = "commit" OBVIOUS
    <2>3. RoundsOf(i, phase)[k].op = "commit" BY <2>1, <2>2, EveryReplicaShape
    <2> QED BY <1>2, <2>3 DEF Releasing
  <1>3. CASE phase = "finalize"
    <2>1. RoundsOf(i, phase) = Finalizing(i) BY <1>3 DEF RoundsOf
    <2>2. PICK l \in 1..Len(Written[i]) : k = 2 * l - 1 \/ k = 2 * l BY <2>1, FinalizingShape
    <2>3. PICK R : R = Finalizing(i) OBVIOUS
    <2>4. /\ R[2 * l - 1] = [op |-> "coordinate", path |-> Written[i][l],
                             to |-> {CoordinatorOf[Written[i][l]]}]
          /\ R[2 * l] = [op |-> "apply", path |-> Written[i][l],
                         to |-> Nodes \ {CoordinatorOf[Written[i][l]]}]
      BY <2>3, FinalizingShape
    <2>5. R[2 * l - 1].op = "coordinate" /\ R[2 * l].op = "apply" BY <2>4
    <2> QED BY <1>3, <2>1, <2>2, <2>3, <2>5 DEF Releasing
  <1>4. CASE phase \in Releasing
    <2>1. RoundsOf(i, phase) = EveryReplica("release", i) BY <1>4 DEF RoundsOf, Releasing
    <2>2. PICK op : op = "release" OBVIOUS
    <2>3. RoundsOf(i, phase)[k].op = "release" BY <2>1, <2>2, EveryReplicaShape
    <2> QED BY <1>4, <2>3 DEF Releasing
  <1>5. CASE phase \notin {"reserve", "commit", "finalize"} \cup Releasing
    <2>1. RoundsOf(i, phase) = << >> BY <1>5 DEF RoundsOf, Releasing
    <2> QED BY <2>1
  <1> QED BY <1>1, <1>2, <1>3, <1>4, <1>5

(* What has been reserved for a live batch stays counted.                  *)
LEMMA JobFencedStays ==
    ASSUME Typed, StaysOver, FencesStay, NEW b \in batches, NEW j \in Job, JobFenced(j, b),
           j.phase = "reserve" => j.round \in DOMAIN Participants[b.invocation]
    PROVE  JobFenced(j, b)'
  <1> SUFFICES ASSUME Live(b.begin)'
               PROVE  (/\ j.phase = "reserve" => ReserveProgress(j, b)
                       /\ j.phase = "decide" => AllFenced(b))'
    BY DEF JobFenced
  <1>1. Live(b.begin) BY LiveBefore
  <1>2. \A n \in Nodes, p \in Touches(b) : Fenced(n, p, b.begin) => Fenced(n, p, b.begin)'
    BY TouchesPaths DEF FencesStay
  <1>3. \A k \in DOMAIN Participants[b.invocation] : Participants[b.invocation][k] \in Touches(b)
    BY TouchesPaths
  <1>4. ASSUME j.phase = "decide" PROVE AllFenced(b)'
    BY <1>1, <1>2, <1>4 DEF JobFenced, AllFenced, Touches
  <1>5. ASSUME j.phase = "reserve" PROVE ReserveProgress(j, b)'
    <2>1. ReserveProgress(j, b) BY <1>1, <1>5 DEF JobFenced
    <2>2. PICK p \in Touches(b) : p = Participants[b.invocation][j.round] BY <1>3, <1>5
    <2> DEFINE S == {n \in Nodes \ j.waiting : Fenced(n, p, b.begin)}
               T == {n \in Nodes \ j.waiting : Fenced(n, p, b.begin)'}
    <2>3. S \subseteq T /\ T \subseteq Nodes BY <1>2
    <2>4. IsFiniteSet(T) /\ IsFiniteSet(S) BY <2>3, ProgramConstants, FS_Subset
    <2>5. Cardinality(S) <= Cardinality(T) /\ Cardinality(S) \in Nat /\ Cardinality(T) \in Nat
      BY <2>3, <2>4, FS_Subset, FS_CardinalityType
    <2>6. j.acks \in Nat /\ j.acks <= Cardinality(S) BY <2>1, <2>2 DEF ReserveProgress, Job
    <2>7. j.acks <= Cardinality(T) BY <2>5, <2>6
    <2>8. \A k \in DOMAIN Participants[b.invocation] :
            k < j.round => \A n \in Nodes : Fenced(n, Participants[b.invocation][k], b.begin)'
      BY <1>2, <1>3, <2>1 DEF ReserveProgress
    <2> QED BY <2>2, <2>7, <2>8 DEF ReserveProgress
  <1> QED BY <1>4, <1>5

(* A job that serves a batch.                                              *)
LEMMA JobServes ==
    ASSUME Typed, JobsOK, NEW n \in Nodes, job[n] # Idle
    PROVE  /\ job[n] \in Job
           /\ \E b \in batches : /\ b.begin = job[n].begin
                                 /\ job[n].phase = "reserve" => job[n].round \in DOMAIN Participants[b.invocation]
                                 /\ JobFits(job[n], b)
  <1>1. PICK j \in Job : j = job[n] BY DEF Typed
  <1>2. PICK b \in batches : JobFits(j, b) BY <1>1 DEF JobsOK
  <1>3. PICK i \in Invocations : i = b.invocation BY BatchTyped
  <1>4. ASSUME j.phase = "reserve" PROVE j.round \in DOMAIN Participants[i]
    <2>1. RoundsOf(i, "reserve") # << >>
      <3>1. RoundsOf(i, "reserve") = EveryReplica("reserve", i) BY DEF RoundsOf
      <3>2. Written[i] \in Seq(Paths) /\ Written[i] # << >> /\ Len(Written[i]) \in Nat
        BY WrittenShape, ProgramConstants
      <3>3. Written[i][1] \in Range(Written[i]) BY <3>2 DEF Range
      <3>4. Written[i][1] \in Range(Participants[i]) BY <3>3, ProgramConstants
      <3>5. PICK k \in DOMAIN Participants[i] : TRUE BY <3>4 DEF Range
      <3>6. k \in DOMAIN EveryReplica("reserve", i) BY <3>5 DEF EveryReplica
      <3>7. DOMAIN << >> = {} OBVIOUS
      <3> QED BY <3>1, <3>6, <3>7
    <2>2. j.round \in DOMAIN RoundsOf(i, "reserve") BY <1>2, <1>3, <1>4, <2>1 DEF JobFits, ReadyFor
    <2>3. PICK phase \in Phases : phase = "reserve" BY DEF Phases
    <2> QED BY <2>2, <2>3, ReservingRounds
  <1>5. b.begin = j.begin BY <1>2 DEF JobFits, ReadyFor
  <1> QED BY <1>1, <1>2, <1>3, <1>4, <1>5

(* The jobs that move have reserved what they say.                         *)
MovedFenced ==
    \A n \in Nodes, b \in batches' :
        job'[n] # job[n] /\ job'[n] # Idle /\ job'[n].begin = b.begin => JobFenced(job[n], b)'

LEMMA JobsFencedStep ==
    ASSUME ProgramInv, FenceInv, StaysOver, FencesStay, MovedFenced
    PROVE  JobsFenced'
  <1>1. Typed /\ LogOK /\ JobsOK /\ JobsFenced BY DEF ProgramInv, FenceInv
  <1> SUFFICES ASSUME NEW n \in Nodes, NEW b \in batches', job'[n] # Idle, job'[n].begin = b.begin,
                      job'[n] = job[n]
               PROVE  JobFenced(job[n], b)'
    BY DEF JobsFenced, MovedFenced
  <1>2. PICK j \in Job : j = job[n] BY <1>1, JobServes
  <1>3. PICK a \in batches : a.begin = j.begin /\ (j.phase = "reserve" => j.round \in DOMAIN Participants[a.invocation])
    BY <1>1, <1>2, JobServes
  <1>4. b \in batches BY <1>2, <1>3 DEF StaysOver, HasBatch
  <1>5. a = b BY <1>1, <1>2, <1>3, <1>4 DEF LogOK
  <1>6. JobFenced(j, b) BY <1>1, <1>2, <1>4 DEF JobsFenced
  <1>7. JobFenced(j, b)' BY <1>1, <1>3, <1>4, <1>5, <1>6, JobFencedStays
  <1>8. j = job'[n] BY <1>2
  <1> QED BY <1>7, <1>8 DEF JobFenced, ReserveProgress

(* The jobs that move release only what is over, and a request given up is *)
(* one that was made.                                                      *)
MovedRelease ==
    /\ \A n \in Nodes : job'[n] # Idle /\ job'[n].phase \in Releasing =>
         \/ job[n] # Idle /\ job[n].phase \in Releasing /\ job[n].begin = job'[n].begin
         \/ job'[n].begin \notin ActiveBegins(Current)'
    /\ \A q \in wire' : q.late => \E o \in wire : o.op = q.op /\ o.begin = q.begin

LEMMA ReleasesStep ==
    ASSUME ProgramInv, ProgramInv', FenceInv, StaysOver, MovedRelease
    PROVE  ReleasesOver'
  <1>1. Typed /\ LogOK /\ JobsOK /\ WireOK /\ ReleasesOver BY DEF ProgramInv, FenceInv
  <1>2. ASSUME NEW n \in Nodes, job'[n] # Idle, job'[n].phase \in Releasing
        PROVE  job'[n].begin \notin ActiveBegins(Current)'
    <2>1. CASE job[n] # Idle /\ job[n].phase \in Releasing /\ job[n].begin = job'[n].begin
      <3>1. HasBatch(job[n].begin) BY <1>1, <2>1, JobServes DEF HasBatch
      <3>2. job[n].begin \notin ActiveBegins(Current) BY <1>1, <2>1 DEF ReleasesOver
      <3> QED BY <2>1, <3>1, <3>2 DEF StaysOver
    <2> QED BY <1>2, <2>1 DEF MovedRelease
  <1>3. ASSUME NEW q \in wire', q.op = "release" PROVE q.begin \notin ActiveBegins(Current)'
    <2>1. CASE q.late
      <3>1. PICK o \in wire : o.op = q.op /\ o.begin = q.begin BY <2>1 DEF MovedRelease
      <3>2. HasBatch(q.begin) BY <1>1, <3>1 DEF WireOK, RequestOK, HasBatch
      <3>3. q.begin \notin ActiveBegins(Current) BY <1>1, <1>3, <3>1 DEF ReleasesOver
      <3> QED BY <3>2, <3>3 DEF StaysOver
    <2>2. CASE ~q.late
      <3>1. Typed' /\ WireOK' /\ JobsOK' /\ LogOK' BY DEF ProgramInv
      <3>2. q \in Message BY <3>1 DEF Typed
      <3>3. PICK n \in Nodes : n = q.from BY <3>2 DEF Message
      <3>4. job'[n] # Idle /\ job'[n] \in Job BY <2>2, <3>1, <3>3 DEF WireOK, Typed
      <3>5. PICK j \in Job : j = job'[n] BY <3>4
      <3>6. PICK b \in batches' : OfRound(q, j, b) BY <2>2, <3>1, <3>3, <3>5 DEF WireOK
      <3>7. PICK a \in batches' : JobFits(job[n], a)' BY <3>1, <3>4 DEF JobsOK
      <3>8. a.begin = j.begin /\ (RoundsOf(a.invocation, j.phase) # << >> => j.round \in DOMAIN RoundsOf(a.invocation, j.phase))
        BY <3>5, <3>7 DEF JobFits, ReadyFor
      <3>9. a = b BY <3>1, <3>6, <3>8 DEF OfRound, LogOK
      <3>10. b \in BatchRecord BY <3>1 DEF Typed
      <3>11. PICK i \in Invocations : i = b.invocation BY <3>10 DEF BatchRecord
      <3>12. PICK phase \in Phases : phase = j.phase BY DEF Job
      <3>13. PICK k \in DOMAIN RoundsOf(i, phase) : k = j.round /\ RoundsOf(i, phase)[k].op = "release"
        BY <1>3, <3>6, <3>8, <3>9, <3>11, <3>12 DEF OfRound
      <3>14. phase \in Releasing BY <3>13, ReservingRounds
      <3>15. q.begin = job'[n].begin BY <3>5, <3>6 DEF OfRound
      <3> QED BY <1>2, <3>4, <3>5, <3>12, <3>14, <3>15
    <2> QED BY <2>1, <2>2
  <1> QED BY <1>2, <1>3 DEF ReleasesOver

(* A batch in an unguarded phase, or at the start of its reservation.      *)
FreshJob(j) ==
    \/ j.phase \notin {"reserve", "decide"}
    \/ j.phase = "reserve" /\ j.round = 1 /\ j.acks = 0

(* What a job becomes when it sends its round.                             *)
LEMMA ContinueShape ==
    ASSUME Typed, NEW n \in Nodes, NEW j \in Job, NEW rest, Continue(n, j, rest)
    PROVE  /\ \A m \in Nodes \ {n} : job'[m] = job[m]
           /\ job'[n].phase = j.phase /\ job'[n].begin = j.begin /\ job'[n].round = j.round
           /\ job'[n].acks = 0
           /\ \A q \in wire' : q.late => q \in rest
  <1>1. PICK to : /\ job' = [job EXCEPT ![n] = [j EXCEPT !.waiting = to, !.acks = 0, !.rejections = 0]]
                  /\ wire' = rest \cup {Request(n, j, r) : r \in to \ {n}}
    BY DEF Continue
  <1>2. PICK x : x = [j EXCEPT !.waiting = to, !.acks = 0, !.rejections = 0] OBVIOUS
  <1>3. x.phase = j.phase /\ x.begin = j.begin /\ x.round = j.round /\ x.acks = 0 BY <1>2 DEF Job
  <1>4. job \in [Nodes -> Job \cup {Idle}] BY DEF Typed
  <1>5. \A r : ~Request(n, j, r).late BY DEF Request
  <1> QED BY <1>1, <1>2, <1>3, <1>4, <1>5

LEMMA EnterShape ==
    ASSUME Typed, NEW n \in Nodes, NEW j \in Job, NEW phase \in Phases, NEW rest, Enter(n, j, phase, rest)
    PROVE  /\ \A m \in Nodes \ {n} : job'[m] = job[m]
           /\ job'[n].phase = phase /\ job'[n].begin = j.begin /\ job'[n].round = 1
           /\ job'[n].acks = 0
           /\ \A q \in wire' : q.late => q \in rest
  <1>1. PICK x : x = [j EXCEPT !.phase = phase, !.round = 1] OBVIOUS
  <1>2. Continue(n, x, rest) BY <1>1 DEF Enter
  <1>3. x \in Job /\ x.phase = phase /\ x.begin = j.begin /\ x.round = 1 BY <1>1 DEF Job
  <1> QED BY <1>2, <1>3, ContinueShape

LEMMA StopShape ==
    ASSUME Typed, NEW n \in Nodes, NEW rest, Stop(n, rest)
    PROVE  /\ \A m \in Nodes \ {n} : job'[m] = job[m]
           /\ job'[n] = Idle /\ wire' = rest
  BY DEF Stop, Typed

(* One job moves, to something new, to the next round, or stops.           *)
LEMMA OneMoves ==
    ASSUME ProgramInv, ProgramInv', NEW n \in Nodes, \A m \in Nodes \ {n} : job'[m] = job[m],
           job'[n] # Idle => \/ FreshJob(job'[n])
                             \/ \A b \in batches' : job'[n].begin = b.begin => JobFenced(job[n], b)'
    PROVE  MovedFenced
  <1> SUFFICES ASSUME NEW b \in batches', job'[n] # Idle, FreshJob(job'[n])
               PROVE  JobFenced(job[n], b)'
    BY DEF MovedFenced
  <1>1. Typed' BY DEF ProgramInv
  <1>2. b \in BatchRecord BY <1>1 DEF Typed
  <1>3. PICK i \in Invocations : i = b.invocation BY <1>2 DEF BatchRecord
  <1>4. DOMAIN Participants[i] = 1..Len(Participants[i]) /\ Len(Participants[i]) \in Nat BY WrittenShape
  <1>5. DOMAIN Participants[b.invocation] \subseteq Nat \ {0} BY <1>3, <1>4
  <1>6. CASE job'[n].phase = "reserve" /\ job'[n].round = 1 /\ job'[n].acks = 0
    <2>1. \A k \in DOMAIN Participants[b.invocation] : ~(k < job'[n].round) BY <1>5, <1>6
    <2> DEFINE S == {m \in Nodes \ job'[n].waiting :
                       Fenced(m, Participants[b.invocation][job[n].round], b.begin)'}
    <2>2. S \subseteq Nodes OBVIOUS
    <2>3. IsFiniteSet(S) BY <2>2, ProgramConstants, FS_Subset
    <2>4. Cardinality(S) \in Nat BY <2>3, FS_CardinalityType
    <2>5. 0 <= Cardinality(S) BY <2>4
    <2>6. ReserveProgress(job[n], b)' BY <1>6, <2>1, <2>5 DEF ReserveProgress
    <2> QED BY <1>6, <2>6 DEF JobFenced
  <1>7. CASE job'[n].phase \notin {"reserve", "decide"} BY <1>7 DEF JobFenced
  <1> QED BY <1>6, <1>7 DEF FreshJob

(* The answer is counted.  One that says it has reserved must have.        *)
LEMMA AnswerCounted ==
    ASSUME Typed, NEW b \in batches, NEW j \in Job, NEW x \in Job, NEW r \in j.waiting, NEW outcome,
           x.phase = j.phase, x.round = j.round, x.waiting = j.waiting \ {r},
           outcome = "ok" => x.acks = j.acks + 1, outcome # "ok" => x.acks = j.acks,
           JobFenced(j, b)',
           outcome = "ok" /\ j.phase = "reserve" /\ Live(b.begin)' =>
             Fenced(r, Participants[b.invocation][j.round], b.begin)'
    PROVE  JobFenced(x, b)'
  <1> SUFFICES ASSUME Live(b.begin)', j.phase = "reserve" PROVE ReserveProgress(x, b)'
    BY DEF JobFenced
  <1>1. ReserveProgress(j, b)' BY DEF JobFenced
  <1>2. PICK p : p = Participants[b.invocation][j.round] OBVIOUS
  <1>3. PICK G : G = {n \in Nodes \ j.waiting : Fenced(n, p, b.begin)'} OBVIOUS
  <1>4. PICK H : H = {n \in Nodes \ (j.waiting \ {r}) : Fenced(n, p, b.begin)'} OBVIOUS
  <1>5. j.acks \in Nat /\ j.acks <= Cardinality(G) BY <1>1, <1>2, <1>3 DEF ReserveProgress, Job
  <1>6. G \subseteq H /\ r \notin G /\ H \subseteq Nodes BY <1>3, <1>4
  <1>7. IsFiniteSet(H) /\ IsFiniteSet(G) BY <1>6, ProgramConstants, FS_Subset
  <1>8. Cardinality(G) \in Nat /\ Cardinality(H) \in Nat /\ Cardinality(G) <= Cardinality(H)
    BY <1>6, <1>7, FS_Subset, FS_CardinalityType
  <1>9. x.acks <= Cardinality(H)
    <2>1. CASE outcome # "ok" BY <1>5, <1>8, <2>1
    <2>2. CASE outcome = "ok"
      <3>1. r \in Nodes BY DEF Job
      <3>2. r \in H BY <1>2, <1>4, <2>2, <3>1
      <3>3. Cardinality(G \cup {r}) = Cardinality(G) + 1 BY <1>6, <1>7, FS_AddElement
      <3>4. G \cup {r} \subseteq H BY <1>6, <3>2
      <3>5. Cardinality(G \cup {r}) <= Cardinality(H) BY <1>7, <3>4, FS_Subset
      <3> QED BY <1>5, <1>8, <2>2, <3>3, <3>5
    <2> QED BY <2>1, <2>2
  <1> QED BY <1>1, <1>2, <1>4, <1>9 DEF ReserveProgress

(* What a job does with an answer of replica r.                            *)
LEMMA AnsweredFenced ==
    ASSUME ProgramInv, ProgramInv', FenceInv, StaysOver, FencesStay, UNCHANGED batches,
           NEW n \in Nodes, NEW r, NEW outcome, NEW rest,
           NEW j \in Job, j = job[n], r \in j.waiting, NEW b \in batches, JobFits(j, b),
           outcome = "ok" /\ j.phase = "reserve" /\ Live(b.begin)' =>
             Fenced(r, Participants[b.invocation][j.round], b.begin)',
           \A q \in rest : q.late => \E o \in wire : o.op = q.op /\ o.begin = q.begin,
           Answered(n, r, outcome, rest)
    PROVE  MovedFenced /\ MovedRelease
  <1>1. Typed /\ LogOK /\ JobsOK /\ JobsFenced /\ LogOK' BY DEF ProgramInv, FenceInv
  <1>2. j = job[n] /\ r \in j.waiting OBVIOUS
  <1> DEFINE acks == IF outcome = "ok" THEN j.acks + 1 ELSE j.acks
             rejections == IF outcome = "terminal" THEN j.rejections + 1 ELSE j.rejections
  <1>3. PICK x : x = [j EXCEPT !.waiting = j.waiting \ {r}, !.acks = acks, !.rejections = rejections]
    OBVIOUS
  <1>4. apply_reservation_operation(n, x, rest) BY <1>2, <1>3 DEF Answered
  <1>5. j.acks \in Nat /\ j.rejections \in Nat /\ j.waiting \subseteq Nodes BY DEF Job
  <1>6. acks \in Nat /\ rejections \in Nat BY <1>5
  <1>7. (outcome = "ok" => acks = j.acks + 1) /\ (outcome # "ok" => acks = j.acks) OBVIOUS
  <1> HIDE DEF acks, rejections
  <1>8. x \in Job BY <1>3, <1>5, <1>6 DEF Job
  <1>9. /\ x.kind = j.kind /\ x.phase = j.phase /\ x.begin = j.begin
        /\ x.round = j.round /\ x.waiting = j.waiting \ {r} /\ x.acks = acks
    BY <1>3 DEF Job
  <1>10. b.begin = j.begin BY DEF JobFits, ReadyFor
  <1>11. j # Idle
    <2>1. j.phase \in Phases BY DEF Job
    <2> QED BY <2>1 DEF Idle, Phases
  <1>12. PICK i \in Invocations : i = b.invocation BY <1>1, BatchTyped
  <1>13. j.phase = "reserve" => j.round \in DOMAIN Participants[i]
    <2>1. PICK a \in batches : a.begin = j.begin /\ (j.phase = "reserve" => j.round \in DOMAIN Participants[a.invocation])
      BY <1>1, <1>2, <1>11, JobServes
    <2>2. a = b BY <1>1, <1>10, <2>1 DEF LogOK
    <2> QED BY <1>12, <2>1, <2>2
  <1>14. JobFenced(x, b)'
    <2>1. JobFenced(j, b) BY <1>1, <1>2, <1>10, <1>11 DEF JobsFenced
    <2>2. JobFenced(j, b)' BY <1>1, <1>12, <1>13, <2>1, JobFencedStays
    <2> QED BY <1>1, <1>2, <1>7, <1>8, <1>9, <2>2, AnswerCounted
  <1>15. \A a \in batches' : a.begin = x.begin => a = b BY <1>1, <1>9, <1>10 DEF LogOK
  <1>16. Rounds(x) = RoundsOf(i, x.phase)
    <2>1. Batch(x.begin) = b BY <1>1, <1>9, <1>10, BatchIs
    <2> QED BY <1>12, <2>1, RoundsAre
  <1>17. ASSUME x.phase = "reserve", x.waiting = {}, Enough(x), Live(b.begin)'
         PROVE  /\ \A k \in DOMAIN Participants[i] : k <= x.round =>
                      \A m \in Nodes : Fenced(m, Participants[i][k], b.begin)'
                /\ Len(Rounds(x)) = Len(Participants[i])
    <2>1. PICK phase \in Phases : phase = "reserve" BY DEF Phases
    <2>2. x.round \in DOMAIN RoundsOf(i, phase)
      <3>1. x.round \in DOMAIN Participants[i] BY <1>9, <1>13, <1>17
      <3> QED BY <2>1, <3>1 DEF RoundsOf, EveryReplica
    <2>3. RoundsOf(i, phase)[x.round].op = "reserve" /\ Len(RoundsOf(i, phase)) = Len(Participants[i])
      BY <2>1, <2>2, ReservingRounds
    <2>4. x.acks >= Required BY <1>16, <1>17, <2>1, <2>3 DEF Enough, Needed
    <2>5. ReserveProgress(x, b)' BY <1>14, <1>17 DEF JobFenced
    <2>6. \A m \in Nodes : Fenced(m, Participants[b.invocation][x.round], b.begin)'
      <3>1. PICK G : G = {m \in Nodes \ x.waiting : Fenced(m, Participants[b.invocation][x.round], b.begin)'}
        OBVIOUS
      <3>2. G \subseteq Nodes /\ IsFiniteSet(Nodes) /\ Cardinality(Nodes) = 2 BY <3>1, ProgramConstants
      <3>3. IsFiniteSet(G) /\ Cardinality(G) <= 2 /\ (Cardinality(G) = 2 => G = Nodes)
        BY <3>2, FS_Subset
      <3>4. Cardinality(G) \in Nat BY <3>3, FS_CardinalityType
      <3>5. Required = 2 BY <3>2 DEF Required
      <3>6. x.acks \in Nat /\ x.acks <= Cardinality(G) BY <1>8, <2>5, <3>1 DEF ReserveProgress, Job
      <3>7. G = Nodes BY <2>4, <3>3, <3>4, <3>5, <3>6
      <3> QED BY <3>1, <3>7
    <2>7. \A k \in DOMAIN Participants[i] : k < x.round =>
            \A m \in Nodes : Fenced(m, Participants[i][k], b.begin)'
      BY <1>12, <2>5 DEF ReserveProgress
    <2>8. DOMAIN Participants[i] = 1..Len(Participants[i]) /\ Len(Participants[i]) \in Nat BY WrittenShape
    <2>9. x.round \in Nat BY <1>8 DEF Job
    <2>10. \A k \in DOMAIN Participants[i] : k <= x.round => k < x.round \/ k = x.round BY <2>8, <2>9
    <2> QED BY <1>12, <1>16, <1>17, <2>1, <2>3, <2>6, <2>7, <2>10
  <1> DEFINE Others == \A m \in Nodes \ {n} : job'[m] = job[m]
             LateOld == \A q \in wire' : q.late => \E o \in wire : o.op = q.op /\ o.begin = q.begin
  <1>18. ASSUME Others, LateOld,
                job'[n] # Idle => \/ FreshJob(job'[n])
                                  \/ job'[n].begin = x.begin /\ JobFenced(job[n], b)',
                job'[n] # Idle /\ job'[n].phase \in Releasing => job'[n].phase = j.phase /\ job'[n].begin = j.begin
         PROVE  MovedFenced /\ MovedRelease
    <2>1. job'[n] # Idle => \/ FreshJob(job'[n])
                            \/ \A a \in batches' : job'[n].begin = a.begin => JobFenced(job[n], a)'
      BY <1>15, <1>18
    <2>2. MovedFenced BY <1>18, <2>1, OneMoves
    <2>3. MovedRelease BY <1>2, <1>11, <1>18 DEF MovedRelease
    <2> QED BY <2>2, <2>3
  <1>19. CASE x.waiting # {}
    <2>1. job' = [job EXCEPT ![n] = x] /\ wire' = rest BY <1>4, <1>19 DEF apply_reservation_operation
    <2>2. job'[n] = x /\ Others BY <1>1, <2>1 DEF Typed
    <2>3. JobFenced(job[n], b)' BY <1>14, <2>2 DEF JobFenced, ReserveProgress
    <2> QED BY <1>9, <1>18, <2>1, <2>2, <2>3
  <1>20. CASE Stop(n, rest)
    <2>1. Others /\ job'[n] = Idle /\ wire' = rest BY <1>1, <1>20, StopShape
    <2> QED BY <1>18, <2>1
  <1>21. CASE x.waiting = {} /\ Enough(x) /\ x.round < Len(Rounds(x)) /\ Continue(n, [x EXCEPT !.round = @ + 1], rest)
    <2>1. PICK y : y = [x EXCEPT !.round = @ + 1] OBVIOUS
    <2>2. x.round \in Nat BY <1>8 DEF Job
    <2>3. y \in Job /\ y.phase = x.phase /\ y.begin = x.begin /\ y.round = x.round + 1
      BY <1>8, <2>1, <2>2 DEF Job
    <2>4. /\ Others /\ job'[n].phase = x.phase /\ job'[n].begin = x.begin
          /\ job'[n].round = x.round + 1 /\ job'[n].acks = 0
          /\ \A q \in wire' : q.late => q \in rest
      BY <1>1, <1>21, <2>1, <2>3, ContinueShape
    <2>5. ASSUME Live(b.begin)', x.phase = "reserve" PROVE ReserveProgress(job[n], b)'
      <3>1. \A k \in DOMAIN Participants[i] : k <= x.round =>
              \A m \in Nodes : Fenced(m, Participants[i][k], b.begin)'
        BY <1>17, <1>21, <2>5
      <3>2. DOMAIN Participants[i] = 1..Len(Participants[i]) /\ Len(Participants[i]) \in Nat BY WrittenShape
      <3>3. \A k \in DOMAIN Participants[i] : k < x.round + 1 => k <= x.round BY <2>2, <3>2
      <3>4. PICK G : G = {m \in Nodes \ job'[n].waiting : Fenced(m, Participants[i][job[n].round], b.begin)'}
        OBVIOUS
      <3>5. IsFiniteSet(G) BY <3>4, ProgramConstants, FS_Subset
      <3>6. 0 <= Cardinality(G) BY <3>5, FS_CardinalityType
      <3> QED BY <1>12, <2>4, <3>1, <3>3, <3>4, <3>6 DEF ReserveProgress
    <2>6. x.phase = "decide" => RoundsOf(i, x.phase) = << >> BY NoRounds
    <2>7. x.phase # "decide"
      <3>1. RoundsOf(b.invocation, j.phase) # << >> BY <1>2 DEF JobFits
      <3> QED BY <1>9, <1>12, <2>6, <3>1
    <2>8. JobFenced(job[n], b)' BY <2>4, <2>5, <2>7 DEF JobFenced
    <2> QED BY <1>9, <1>18, <2>4, <2>8
  <1>22. ASSUME x.waiting = {}, Enough(x), ~(x.round < Len(Rounds(x))), NextPhase(x) # "idle",
                Enter(n, [x EXCEPT !.kind = NextKind(x)], NextPhase(x), rest)
         PROVE  MovedFenced /\ MovedRelease
    <2>1. PICK phase \in Phases : phase = NextPhase(x) /\ phase \notin Releasing
      BY <1>22 DEF NextPhase, Phases, Releasing
    <2>2. x.kind \in {"invoke", "recover", "tail"} BY <1>8 DEF Job
    <2>3. PICK k \in {"invoke", "recover", "tail"} : k = NextKind(x) BY <2>2 DEF NextKind
    <2>4. PICK y : y = [x EXCEPT !.kind = k] OBVIOUS
    <2>5. y \in Job /\ y.begin = x.begin BY <1>8, <2>4 DEF Job
    <2>6. Enter(n, y, phase, rest) BY <1>22, <2>1, <2>3, <2>4
    <2>7. /\ Others /\ job'[n].phase = phase /\ job'[n].begin = x.begin /\ job'[n].round = 1 /\ job'[n].acks = 0
          /\ \A q \in wire' : q.late => q \in rest
      BY <1>1, <2>5, <2>6, EnterShape
    <2>8. CASE phase = "decide"
      <3>1. x.phase = "reserve" BY <2>1, <2>8 DEF NextPhase
      <3>2. ASSUME Live(b.begin)' PROVE AllFenced(b)'
        <4>1. /\ \A l \in DOMAIN Participants[i] : l <= x.round =>
                   \A m \in Nodes : Fenced(m, Participants[i][l], b.begin)'
              /\ Len(Rounds(x)) = Len(Participants[i])
          BY <1>17, <1>22, <3>1, <3>2
        <4>2. DOMAIN Participants[i] = 1..Len(Participants[i]) /\ Len(Participants[i]) \in Nat BY WrittenShape
        <4>3. x.round \in Nat BY <1>8 DEF Job
        <4>4. \A l \in DOMAIN Participants[i] : l <= x.round BY <1>22, <4>1, <4>2, <4>3
        <4> QED BY <1>12, <4>1, <4>4 DEF AllFenced, Touches, Range
      <3>3. JobFenced(job[n], b)' BY <2>7, <2>8, <3>2 DEF JobFenced
      <3> QED BY <1>18, <2>1, <2>7, <3>3
    <2>9. CASE phase # "decide"
      <3>1. FreshJob(job'[n]) BY <2>7, <2>9 DEF FreshJob
      <3> QED BY <1>18, <2>1, <2>7, <3>1
    <2> QED BY <2>8, <2>9
  <1>23. CASE Enter(n, x, "abort", rest)
    <2>1. PICK phase \in Phases : phase = "abort" BY DEF Phases
    <2>2. /\ Others /\ job'[n].phase = "abort"
          /\ \A q \in wire' : q.late => q \in rest
      BY <1>1, <1>8, <1>23, <2>1, EnterShape
    <2>3. FreshJob(job'[n]) BY <2>2 DEF FreshJob
    <2> QED BY <1>18, <2>2, <2>3 DEF Releasing
  <1> QED BY <1>4, <1>19, <1>20, <1>21, <1>22, <1>23, Zenon DEF apply_reservation_operation

-----------------------------------------------------------------------------
(* Steps. *)

LEMMA FenceStep ==
    ASSUME ProgramInv, ProgramInv', FenceInv, StaysOver, FencesStay, MovedFenced, MovedRelease,
           FencesTyped', DecidedOnce', FencedHeads',
           \A b \in batches' : /\ Live(b.begin)' /\ b.begin # (Current').preparing
                               /\ b \notin batches \/ b.begin = Current.preparing
                               => AllFenced(b)'
    PROVE  FenceInv'
  <1>1. Typed /\ DecidedFenced BY DEF ProgramInv, FenceInv
  <1>2. JobsFenced' BY JobsFencedStep
  <1>3. ReleasesOver' BY ReleasesStep
  <1>4. ASSUME NEW b \in batches', Live(b.begin)', b.begin # (Current').preparing
        PROVE  AllFenced(b)'
    <2>1. CASE b \in batches /\ b.begin # Current.preparing
      <3>1. AllFenced(b) BY <1>1, <1>4, <2>1, LiveBefore DEF DecidedFenced
      <3>2. Touches(b) \subseteq Paths BY <1>1, <2>1, TouchesPaths
      <3>3. \A p \in Touches(b), n \in Nodes : Fenced(n, p, b.begin)'
        BY <1>4, <2>1, <3>1, <3>2 DEF AllFenced, FencesStay
      <3> QED BY <3>3 DEF AllFenced, Touches
    <2> QED BY <1>4, <2>1
  <1>5. DecidedFenced' BY <1>4 DEF DecidedFenced
  <1> QED BY <1>2, <1>3, <1>5 DEF FenceInv

(* The decision log and the batches stay.                                  *)
LEMMA SameDecisions ==
    ASSUME UNCHANGED <<decisions, batches>>, swept \subseteq swept', FenceInv
    PROVE  /\ StaysOver /\ DecidedOnce' /\ Current' = Current
           /\ \A b \in batches' : ~(b \notin batches \/ b.begin = Current.preparing)
                                    \/ b.begin = (Current').preparing
  <1>1. Current' = Current BY DEF Current
  <1>2. DecidedOnce' BY <1>1 DEF DecidedOnce, FenceInv
  <1>3. ActiveBegins(Current)' = ActiveBegins(Current) BY <1>1 DEF ActiveBegins, Unfinalized
  <1> QED BY <1>1, <1>2, <1>3 DEF StaysOver

(* Heads and reservations stay, and no decision is made.                   *)
LEMMA QuietFences ==
    ASSUME ProgramInv, ProgramInv', FenceInv,
           UNCHANGED <<decisions, batches, versions, head, reserved, swept>>,
           MovedFenced, MovedRelease
    PROVE  FenceInv'
  <1>1. /\ StaysOver /\ DecidedOnce' /\ Current' = Current
        /\ \A b \in batches' : ~(b \notin batches \/ b.begin = Current.preparing)
                                 \/ b.begin = (Current').preparing
    BY SameDecisions
  <1>2. FencesStay BY DEF FencesStay, Fenced
  <1>3. FencesFit BY DEF FencesFit, Fenced
  <1>4. FencesTyped' BY DEF FenceInv, FencesTyped, HasBatch
  <1>5. batches' \subseteq BatchRecord BY DEF ProgramInv, Typed
  <1>6. FencedHeads' BY <1>1, <1>3, <1>5, HeadsStay
  <1> QED BY <1>1, <1>2, <1>4, <1>6, FenceStep

LEMMA SameJobs ==
    ASSUME UNCHANGED job, \A q \in wire' : q.late => \E o \in wire : o.op = q.op /\ o.begin = q.begin
    PROVE  MovedFenced /\ MovedRelease
  BY DEF MovedFenced, MovedRelease

LEMMA RecoverFences ==
    ASSUME ProgramInv, ProgramInv', FenceInv, NEW n \in Nodes, recover_distributed_tail_locked(n)
    PROVE  FenceInv'
  <1>1. Typed /\ LogOK BY DEF ProgramInv
  <1>2. UNCHANGED <<decisions, batches, versions, head, reserved, swept>>
    BY DEF recover_distributed_tail_locked, store
  <1>3. PICK view : view = View(n) OBVIOUS
  <1>4. view \in DecisionState BY <1>1, <1>3, ViewKnown
  <1>5. ASSUME NEW phase \in {"stage", "abandon"}, UNCHANGED wire,
               job' = [job EXCEPT ![n] = NewJob("recover", phase, view.preparing, view.nomination, 0)]
        PROVE  MovedFenced /\ MovedRelease
    <2>1. job \in [Nodes -> Job \cup {Idle}] BY <1>1 DEF Typed
    <2>2. /\ \A m \in Nodes \ {n} : job'[m] = job[m]
          /\ job'[n].phase = phase
      BY <1>5, <2>1 DEF NewJob
    <2>3. FreshJob(job'[n]) BY <1>5, <2>2 DEF FreshJob
    <2>4. MovedFenced BY <2>2, <2>3, OneMoves
    <2>5. MovedRelease
      <3>1. job'[n].phase \notin Releasing BY <1>5, <2>2 DEF Releasing
      <3> QED BY <1>5, <2>2, <3>1 DEF MovedRelease
    <2> QED BY <2>4, <2>5
  <1>6. ASSUME NEW d \in Unfinalized(view),
               Continue(n, NewJob("tail", "reserve", d.begin, view.nomination, d.commit), wire)
        PROVE  MovedFenced /\ MovedRelease
    <2>1. PICK j : j = NewJob("tail", "reserve", d.begin, view.nomination, d.commit) OBVIOUS
    <2>2. d \in Decision /\ view.nomination \in Nat BY <1>4 DEF Unfinalized, DecisionState
    <2>3. d.begin \in Nat /\ d.commit \in Nat BY <2>2 DEF Decision
    <2>4. j \in Job BY <2>1, <2>2, <2>3 DEF NewJob, Job, Phases
    <2>5. j.phase = "reserve" /\ j.round = 1 BY <2>1 DEF NewJob
    <2>6. /\ \A m \in Nodes \ {n} : job'[m] = job[m]
          /\ job'[n].phase = "reserve" /\ job'[n].round = 1 /\ job'[n].acks = 0
          /\ \A q \in wire' : q.late => q \in wire
      BY <1>1, <1>6, <2>1, <2>4, <2>5, ContinueShape
    <2>7. FreshJob(job'[n]) BY <2>6 DEF FreshJob
    <2>8. MovedFenced BY <2>6, <2>7, OneMoves
    <2>9. MovedRelease BY <2>6 DEF MovedRelease, Releasing
    <2> QED BY <2>8, <2>9
  <1>7. MovedFenced /\ MovedRelease BY <1>3, <1>5, <1>6, Zenon DEF recover_distributed_tail_locked
  <1> QED BY <1>2, <1>7, QuietFences

LEMMA StopFences ==
    ASSUME ProgramInv, ProgramInv', NEW n \in Nodes, NEW rest, Stop(n, rest),
           \A q \in rest : q.late => \E o \in wire : o.op = q.op /\ o.begin = q.begin
    PROVE  MovedFenced /\ MovedRelease
  <1>1. Typed BY DEF ProgramInv
  <1>2. (\A m \in Nodes \ {n} : job'[m] = job[m]) /\ job'[n] = Idle /\ wire' = rest BY <1>1, StopShape
  <1>3. MovedFenced BY <1>2, OneMoves
  <1> QED BY <1>2, <1>3 DEF MovedRelease

LEMMA EnterFences ==
    ASSUME ProgramInv, ProgramInv', NEW n \in Nodes, NEW j \in Job, NEW phase \in Phases,
           Enter(n, j, phase, wire), phase # "decide",
           phase \in Releasing => j.begin \notin ActiveBegins(Current)'
    PROVE  MovedFenced /\ MovedRelease
  <1>1. Typed BY DEF ProgramInv
  <1>2. /\ \A m \in Nodes \ {n} : job'[m] = job[m]
        /\ job'[n].phase = phase /\ job'[n].begin = j.begin /\ job'[n].round = 1 /\ job'[n].acks = 0
        /\ \A q \in wire' : q.late => q \in wire
    BY <1>1, EnterShape
  <1>3. FreshJob(job'[n]) BY <1>2 DEF FreshJob
  <1>4. MovedFenced BY <1>2, <1>3, OneMoves
  <1>5. MovedRelease BY <1>2 DEF MovedRelease
  <1> QED BY <1>4, <1>5

LEMMA StageFences ==
    ASSUME ProgramInv, ProgramInv', FenceInv, NEW n \in Nodes, stage_prepared(n)
    PROVE  FenceInv'
  <1>1. Typed BY DEF ProgramInv
  <1>2. UNCHANGED <<decisions, batches, versions, head, reserved, swept>> BY DEF stage_prepared, store
  <1>3. job[n] # Idle => job[n] \in Job BY <1>1 DEF Typed
  <1>4. PICK j \in Job : j = job[n]
    <2>1. job[n].phase = "stage" BY DEF stage_prepared
    <2>2. job[n] # Idle BY <2>1 DEF Idle
    <2> QED BY <1>3, <2>2
  <1>5. ASSUME NEW phase \in {"reserve", "abandon"}, Enter(n, j, phase, wire)
        PROVE  MovedFenced /\ MovedRelease
    <2>1. phase \in Phases /\ phase # "decide" /\ phase \notin Releasing BY DEF Phases, Releasing
    <2> QED BY <1>5, <2>1, EnterFences
  <1>6. ASSUME Stop(n, wire) PROVE MovedFenced /\ MovedRelease BY <1>6, StopFences
  <1>7. MovedFenced /\ MovedRelease BY <1>4, <1>5, <1>6 DEF stage_prepared
  <1> QED BY <1>2, <1>7, QuietFences

LEMMA RejectedFences ==
    ASSUME ProgramInv, ProgramInv', FenceInv, NEW n \in Nodes, SubmitRejected(n)
    PROVE  FenceInv'
  <1>1. UNCHANGED <<decisions, batches, versions, head, reserved, swept>> /\ Stop(n, wire)
    BY DEF SubmitRejected, store
  <1> QED BY <1>1, StopFences, QuietFences

LEMMA AbandonFences ==
    ASSUME ProgramInv, ProgramInv', FenceInv, NEW n \in Nodes, Abandon(n)
    PROVE  FenceInv'
  <1>1. Typed /\ WireOK BY DEF ProgramInv
  <1>2. UNCHANGED <<decisions, batches, versions, head, reserved, swept>> BY DEF Abandon, store
  <1>3. PICK rest : /\ Stop(n, rest)
                    /\ \A q \in rest : q \in wire \/ \E o \in wire : q = [o EXCEPT !.late = TRUE]
    BY DEF Abandon
  <1>4. \A o \in wire : [o EXCEPT !.late = TRUE].op = o.op /\ [o EXCEPT !.late = TRUE].begin = o.begin
    BY <1>1 DEF Typed, Message
  <1>5. \A q \in rest : q.late => \E o \in wire : o.op = q.op /\ o.begin = q.begin BY <1>3, <1>4
  <1> QED BY <1>2, <1>3, <1>5, StopFences, QuietFences

-----------------------------------------------------------------------------
(* Answers and the store. *)

(* The answer to a request.                                                *)
LEMMA ReplyFences ==
    ASSUME ProgramInv, ProgramInv', FenceInv, StaysOver, FencesStay, UNCHANGED batches,
           NEW q \in wire, NEW outcome, NEW rest,
           ~q.late => Answered(q.from, q.to, outcome, rest),
           q.late => wire' = rest /\ UNCHANGED job,
           outcome = "ok" /\ q.op = "reserve" => Fenced(q.to, q.path, q.begin)',
           \A o \in rest : o.late => \E r \in wire : r.op = o.op /\ r.begin = o.begin
    PROVE  MovedFenced /\ MovedRelease
  <1>1. Typed /\ LogOK /\ JobsOK /\ WireOK BY DEF ProgramInv
  <1>2. CASE q.late BY <1>2, SameJobs
  <1>3. CASE ~q.late
    <2>1. /\ q.from \in Nodes
          /\ \E j \in Job, b \in batches :
               j = job[q.from] /\ JobFits(j, b) /\ OfRound(q, j, b) /\ q.to \in j.waiting
      BY <1>1, <1>3, LiveRequest
    <2>2. PICK j \in Job, b \in batches :
            j = job[q.from] /\ JobFits(j, b) /\ OfRound(q, j, b) /\ q.to \in j.waiting
      BY <2>1
    <2>3. PICK i \in Invocations : i = b.invocation BY <1>1, BatchTyped
    <2>4. PICK phase \in Phases : phase = j.phase BY DEF Job
    <2>5. ASSUME outcome = "ok", j.phase = "reserve"
          PROVE  Fenced(q.to, Participants[b.invocation][j.round], b.begin)'
      <3>1. /\ b.begin = j.begin /\ q.begin = j.begin /\ RoundsOf(i, phase) # << >>
            /\ q.op = RoundsOf(i, phase)[j.round].op /\ q.path = RoundsOf(i, phase)[j.round].path
        BY <2>2, <2>3, <2>4 DEF OfRound
      <3>2. PICK k \in DOMAIN RoundsOf(i, phase) : k = j.round
        BY <2>2, <2>3, <2>4, <3>1 DEF JobFits, ReadyFor
      <3>3. q.op = "reserve" /\ q.path = Participants[i][k]
        BY <2>4, <2>5, <3>1, <3>2, ReservingRounds
      <3>4. Fenced(q.to, q.path, q.begin)' BY <2>5, <3>3
      <3>5. q.path = Participants[b.invocation][j.round] /\ q.begin = b.begin
        BY <2>3, <3>1, <3>2, <3>3
      <3> QED BY <3>4, <3>5 DEF Fenced
    <2>6. PICK n \in Nodes, r \in Nodes : n = q.from /\ r = q.to BY <1>1, <1>3, LiveRequest
    <2>7. /\ j = job[n] /\ r \in j.waiting /\ JobFits(j, b) /\ Answered(n, r, outcome, rest)
          /\ (outcome = "ok" /\ j.phase = "reserve" /\ Live(b.begin)' =>
               Fenced(r, Participants[b.invocation][j.round], b.begin)')
      BY <1>3, <2>2, <2>5, <2>6
    <2> QED BY <2>7, AnsweredFenced
  <1> QED BY <1>2, <1>3

LEMMA SameFences ==
    ASSUME UNCHANGED reserved
    PROVE  FencesStay
  BY DEF FencesStay, Fenced

LEMMA TimeOutFences ==
    ASSUME ProgramInv, ProgramInv', FenceInv, NEW q \in wire, TimeOut(q)
    PROVE  FenceInv'
  <1>1. Typed BY DEF ProgramInv
  <1>2. UNCHANGED <<decisions, batches, versions, head, reserved, swept>> BY DEF TimeOut, store
  <1>3. PICK rest : rest = (wire \ {q}) \cup {[q EXCEPT !.late = TRUE]} OBVIOUS
  <1>4. PICK outcome : outcome = "unavailable" OBVIOUS
  <1>5. ~q.late /\ Answered(q.from, q.to, outcome, rest) BY <1>3, <1>4 DEF TimeOut
  <1>6. [q EXCEPT !.late = TRUE].op = q.op /\ [q EXCEPT !.late = TRUE].begin = q.begin
    BY <1>1 DEF Typed, Message
  <1>7. \A o \in rest : o.late => \E r \in wire : r.op = o.op /\ r.begin = o.begin BY <1>3, <1>6
  <1>8. outcome # "ok" BY <1>4
  <1>9. StaysOver /\ FencesStay BY <1>2, SameDecisions, SameFences
  <1>10. MovedFenced /\ MovedRelease BY <1>2, <1>5, <1>7, <1>8, <1>9, ReplyFences
  <1> QED BY <1>2, <1>10, QuietFences

LEMMA AdmitFences ==
    ASSUME ProgramInv, ProgramInv', FenceInv, NEW q \in wire, Admit(q)
    PROVE  FenceInv'
  <1>1. Typed BY DEF ProgramInv
  <1>2. UNCHANGED <<decisions, batches, versions, head, reserved, swept>> /\ UNCHANGED job BY DEF Admit, store
  <1>3. wire' = (wire \ {q}) \cup {[q EXCEPT !.admitted = TRUE]} BY DEF Admit
  <1>4. [q EXCEPT !.admitted = TRUE].op = q.op /\ [q EXCEPT !.admitted = TRUE].begin = q.begin
    BY <1>1 DEF Typed, Message
  <1>5. MovedFenced /\ MovedRelease BY <1>2, <1>3, <1>4, SameJobs
  <1> QED BY <1>2, <1>5, QuietFences

LEMMA RefuseFences ==
    ASSUME ProgramInv, ProgramInv', FenceInv, NEW q \in wire, Refuse(q)
    PROVE  FenceInv'
  <1>1. UNCHANGED <<decisions, batches, versions, head, reserved, swept>> BY DEF Refuse, store
  <1>2. PICK outcome : outcome = Admission(q) OBVIOUS
  <1>3. outcome \in {"terminal", "unavailable"} /\ Reply(q, outcome) BY <1>2 DEF Refuse
  <1>4. outcome # "ok" BY <1>3
  <1>5. PICK rest : rest = wire \ {q} OBVIOUS
  <1>6. (~q.late => Answered(q.from, q.to, outcome, rest)) /\ (q.late => wire' = rest /\ UNCHANGED job)
    BY <1>3, <1>5 DEF Reply
  <1>7. StaysOver /\ FencesStay BY <1>1, SameDecisions, SameFences
  <1>8. MovedFenced /\ MovedRelease BY <1>1, <1>4, <1>5, <1>6, <1>7, ReplyFences
  <1> QED BY <1>1, <1>8, QuietFences

(* A store operation keeps what live batches have reserved, reserves over  *)
(* the observed head, and publishes only what the batch prepared.          *)
LEMMA StoreFences ==
    ASSUME ProgramInv, FenceInv, NEW q \in Message, RequestOK(q), Store(q),
           q.op = "release" => q.begin \notin ActiveBegins(Current),
           UNCHANGED <<decisions, batches, versions, swept>>
    PROVE  /\ FencesStay /\ FencesTyped' /\ FencedHeads'
           /\ StoreAccepts(q) /\ q.op = "reserve" => Fenced(q.to, q.path, q.begin)'
  <1>1. Typed /\ LogOK /\ VersionsOK /\ HeadsOK /\ FencesTyped BY DEF ProgramInv, FenceInv
  <1>2. PICK n \in Nodes, p \in Paths : n = q.to /\ p = q.path BY DEF Message
  <1>3. q.begin \in Nat /\ q.nomination \in Nat /\ q.commit \in Nat /\ q.op \in Operations BY DEF Message
  <1>4. PICK b \in batches : b.begin = q.begin /\ (q.op \in Publications => p \in Writes(b.invocation))
    BY <1>2 DEF RequestOK
  <1>5. Observed(q) = b.observed[p]
    <2>1. Batch(q.begin) = b BY <1>1, <1>4, BatchIs
    <2> QED BY <1>2, <2>1 DEF Observed
  <1>6. reserved \in [Nodes -> [Paths -> Reservation \cup {None}]] BY <1>1 DEF FencesTyped
  <1>7. head \in [Nodes -> [Paths -> Nat]] BY <1>1 DEF Typed
  <1>8. PICK r : r = reserved[n][p] OBVIOUS
  <1>9. r = None \/ r \in Reservation BY <1>6, <1>8
  <1>10. Current' = Current /\ StaysOver BY SameDecisions
  <1>11. \A begin : Live(begin)' => begin \in ActiveBegins(Current)
    BY <1>10 DEF Live, ActiveBegins, Unfinalized
  <1>12. batches' \subseteq BatchRecord BY <1>1 DEF Typed
  <1>13. ASSUME ~StoreAccepts(q)
         PROVE  FencesStay /\ FencesTyped' /\ FencedHeads'
    <2>1. UNCHANGED <<reserved, head>> BY <1>13 DEF Store
    <2>2. FencesStay /\ FencesFit BY <2>1 DEF FencesStay, FencesFit, Fenced
    <2>3. FencesTyped' BY <1>1, <2>1 DEF FencesTyped, HasBatch
    <2> QED BY <1>10, <1>12, <2>1, <2>2, <2>3, HeadsStay
  (* A reservation written for the batch, or over one of the batch.        *)
  <1>14. ASSUME NEW s \in Reservation, s.begin = q.begin,
                reserved' = [reserved EXCEPT ![n][p] = s],
                r = None \/ r.begin = q.begin
         PROVE  FencesStay /\ FencesTyped' /\ Fenced(n, p, q.begin)'
    <2>1. s # None BY <1>3, <1>14 DEF Reservation, None
    <2>2. /\ reserved'[n][p] = s
          /\ \A m \in Nodes, o \in Paths : <<m, o>> # <<n, p>> => reserved'[m][o] = reserved[m][o]
          /\ reserved' \in [Nodes -> [Paths -> Reservation \cup {None}]]
      BY <1>6, <1>14
    <2>3. Fenced(n, p, q.begin)' BY <1>14, <2>1, <2>2 DEF Fenced
    <2>4. FencesTyped'
      <3>1. ASSUME NEW m \in Nodes, NEW o \in Paths, reserved'[m][o] # None
            PROVE  HasBatch(reserved[m][o].begin)'
        <4>1. CASE m = n /\ o = p BY <1>4, <1>14, <2>2, <4>1 DEF HasBatch
        <4>2. CASE <<m, o>> # <<n, p>> BY <1>1, <2>2, <3>1, <4>2 DEF HasBatch, FencesTyped
        <4> QED BY <4>1, <4>2
      <3> QED BY <2>2, <3>1 DEF FencesTyped
    <2>5. FencesStay
      <3> SUFFICES ASSUME NEW a \in batches, NEW m \in Nodes, NEW o \in Paths, Fenced(m, o, a.begin)
                   PROVE  Fenced(m, o, a.begin)'
        BY DEF FencesStay
      <3>1. CASE m = n /\ o = p BY <1>8, <1>14, <2>3, <3>1 DEF Fenced
      <3>2. CASE <<m, o>> # <<n, p>> BY <2>2, <3>2 DEF Fenced
      <3> QED BY <3>1, <3>2
    <2> QED BY <2>3, <2>4, <2>5
  (* A new or refreshed reservation does not touch heads.                  *)
  <1>15. ASSUME UNCHANGED head, FencesFit PROVE FencedHeads'
    BY <1>10, <1>12, <1>15, HeadsStay
  <1>16. ASSUME StoreAccepts(q)
         PROVE  /\ reserved' = [reserved EXCEPT ![n][p] = StoreReservation(q)]
                /\ head' = [head EXCEPT ![n][p] =
                              IF q.op \in Publications /\ head[n][p] = b.observed[p]
                              THEN Prepared(q.begin, p) ELSE head[n][p]]
    BY <1>2, <1>5, <1>16 DEF Store, Publications
  <1>17. ASSUME StoreAccepts(q), q.op \notin Publications PROVE UNCHANGED head
    BY <1>7, <1>16, <1>17
  <1>18. CASE StoreAccepts(q) /\ q.op \in {"reserve", "commit"}
    <2>1. PICK s \in Reservation : /\ s.begin = q.begin /\ s = StoreReservation(q)
                                   /\ r = None \/ r.begin = q.begin
                                   /\ r = None => head[n][p] = b.observed[p]
      <3>1. CASE q.op = "reserve"
        <4>1. Reservable(r, q) BY <1>2, <1>8, <1>18, <3>1 DEF StoreAccepts
        <4>2. StoreReservation(q) = IF r = None
               THEN [begin |-> q.begin, nomination |-> q.nomination, commit |-> 0]
               ELSE [r EXCEPT !.nomination = q.nomination]
          BY <1>2, <1>8, <3>1 DEF StoreReservation
        <4>3. CASE r = None
          <5>1. head[n][p] = b.observed[p] BY <1>2, <1>5, <4>1, <4>3 DEF Reservable
          <5> QED BY <1>3, <4>2, <4>3, <5>1 DEF Reservation
        <4>4. CASE r # None
          <5>1. r.begin = q.begin BY <4>1, <4>4 DEF Reservable
          <5> QED BY <1>3, <1>9, <4>2, <4>4, <5>1 DEF Reservation
        <4> QED BY <4>3, <4>4
      <3>2. CASE q.op = "commit"
        <4>1. Committable(r, q) BY <1>2, <1>8, <1>18, <3>2 DEF StoreAccepts
        <4>2. r # None /\ r.begin = q.begin BY <4>1 DEF Committable, ExactFence
        <4>3. StoreReservation(q) = [r EXCEPT !.commit = q.commit]
          BY <1>2, <1>8, <3>2 DEF StoreReservation
        <4> QED BY <1>3, <1>9, <4>2, <4>3 DEF Reservation
      <3> QED BY <1>18, <3>1, <3>2
    <2>2. reserved' = [reserved EXCEPT ![n][p] = s] BY <1>16, <1>18, <2>1
    <2>3. FencesStay /\ FencesTyped' /\ Fenced(n, p, q.begin)' BY <1>14, <2>1, <2>2
    <2>4. FencesFit
      <3> SUFFICES ASSUME NEW m \in Nodes, NEW o \in Paths, reserved'[m][o] # None
                   PROVE  \/ Fenced(m, o, reserved'[m][o].begin)
                          \/ \E a \in batches : a.begin = reserved'[m][o].begin /\ head[m][o] = a.observed[o]
        BY DEF FencesFit
      <3>1. CASE <<m, o>> # <<n, p>>
        <4>1. reserved'[m][o] = reserved[m][o] BY <1>6, <2>2, <3>1
        <4> QED BY <4>1 DEF Fenced
      <3>2. CASE m = n /\ o = p
        <4>1. reserved'[m][o] = s BY <1>6, <2>2, <3>2
        <4> QED BY <1>4, <1>8, <2>1, <3>2, <4>1 DEF Fenced
      <3> QED BY <3>1, <3>2
    <2>5. FencedHeads' BY <1>15, <1>17, <1>18, <2>4 DEF Publications
    <2>6. Fenced(q.to, q.path, q.begin)' BY <1>2, <2>3 DEF Fenced
    <2> QED BY <2>3, <2>5, <2>6
  <1>19. CASE StoreAccepts(q) /\ q.op = "release"
    <2>1. StoreReservation(q) = None BY <1>19 DEF StoreReservation
    <2>2. reserved' = [reserved EXCEPT ![n][p] = None] BY <1>16, <1>19, <2>1
    <2>3. /\ reserved'[n][p] = None
          /\ \A m \in Nodes, o \in Paths : <<m, o>> # <<n, p>> => reserved'[m][o] = reserved[m][o]
          /\ reserved' \in [Nodes -> [Paths -> Reservation \cup {None}]]
      BY <1>6, <2>2
    <2>4. FencesTyped' BY <1>1, <2>3 DEF FencesTyped, HasBatch
    <2>5. FencesFit BY <2>3 DEF FencesFit, Fenced
    <2>6. Releasable(r, q) BY <1>2, <1>8, <1>19 DEF StoreAccepts
    <2>7. r = None \/ r.begin = q.begin BY <2>6 DEF Releasable, Committable, ExactFence
    <2>8. FencesStay
      <3> SUFFICES ASSUME NEW a \in batches, NEW m \in Nodes, NEW o \in Paths,
                          Live(a.begin)', Fenced(m, o, a.begin)
                   PROVE  Fenced(m, o, a.begin)'
        BY DEF FencesStay
      <3>1. CASE m = n /\ o = p
        <4>1. a.begin = q.begin BY <1>8, <2>7, <3>1 DEF Fenced
        <4> QED BY <1>11, <1>19, <4>1
      <3>2. CASE <<m, o>> # <<n, p>> BY <2>3, <3>2 DEF Fenced
      <3> QED BY <3>1, <3>2
    <2>9. FencedHeads' BY <1>15, <1>17, <1>19, <2>5 DEF Publications
    <2> QED BY <1>19, <2>4, <2>8, <2>9
  <1>20. CASE StoreAccepts(q) /\ q.op \in Publications
    <2>1. StoreReservation(q) = r BY <1>2, <1>8, <1>20 DEF StoreReservation, Publications
    <2>2. UNCHANGED reserved BY <1>6, <1>8, <1>16, <1>20, <2>1
    <2>3. FencesStay /\ FencesFit BY <2>2 DEF FencesStay, FencesFit, Fenced
    <2>4. FencesTyped' BY <1>1, <2>2 DEF FencesTyped, HasBatch
    <2>5. CASE head[n][p] # b.observed[p]
      <3>1. UNCHANGED head BY <1>7, <1>16, <1>20, <2>5
      <3> QED BY <1>15, <1>20, <2>3, <2>4, <3>1 DEF Publications
    <2>6. CASE head[n][p] = b.observed[p]
      <3>1. PICK v \in DOMAIN versions : /\ v = Prepared(q.begin, p) /\ IsPrepared(v, b.begin, p)
                                         /\ versions[v].pred = head[n][p]
        BY <1>1, <1>4, <1>20, <2>6, PreparedIs
      <3>2. v \in Nat /\ v # 0 BY <1>1, VersionTyped
      <3>3. head[n][p] < v
        <4>1. VersionOK(v) BY <1>1 DEF VersionsOK
        <4> QED BY <3>1, <4>1 DEF VersionOK
      <3>4. head' = [head EXCEPT ![n][p] = v] BY <1>16, <1>20, <2>6, <3>1
      <3>5. head'[n][p] = v BY <1>7, <3>4
      <3>6. Publishable(r, q) BY <1>2, <1>8, <1>20 DEF StoreAccepts, Publications
      <3>7. r.begin = q.begin /\ r # None BY <3>6 DEF Publishable, ExactFence
      <3>8. ASSUME NEW a \in batches, Fenced(n, p, a.begin) PROVE ShowsOwn(n, p, a)'
        <4>1. a.begin = b.begin BY <1>4, <1>8, <3>7, <3>8 DEF Fenced
        <4> QED BY <3>1, <3>2, <3>5, <4>1 DEF ShowsOwn, IsPrepared
      <3>9. FencedHeads' BY <2>2, <3>2, <3>3, <3>4, <3>8, HeadAdvances
      <3> QED BY <1>20, <2>3, <2>4, <3>9 DEF Publications
    <2> QED BY <2>5, <2>6
  <1> QED BY <1>3, <1>13, <1>18, <1>19, <1>20 DEF Operations, Publications

(* An operation of the store and the answer to it.                         *)
LEMMA StoreStep ==
    ASSUME ProgramInv, ProgramInv', FenceInv, UNCHANGED <<decisions, batches, swept>>,
           FencesStay, FencesTyped', FencedHeads', MovedFenced, MovedRelease
    PROVE  FenceInv'
  BY SameDecisions, FenceStep

LEMMA ExecuteFences ==
    ASSUME ProgramInv, ProgramInv', FenceInv, NEW q \in wire, Execute(q)
    PROVE  FenceInv'
  <1>1. Typed /\ WireOK /\ ReleasesOver BY DEF ProgramInv, FenceInv
  <1>2. UNCHANGED <<decisions, batches, versions, swept>> /\ Store(q) BY DEF Execute
  <1>3. q \in Message /\ RequestOK(q) BY <1>1, LateCopy
  <1>4. q.op = "release" => q.begin \notin ActiveBegins(Current) BY <1>1 DEF ReleasesOver
  <1>5. /\ FencesStay /\ FencesTyped' /\ FencedHeads'
        /\ StoreAccepts(q) /\ q.op = "reserve" => Fenced(q.to, q.path, q.begin)'
    BY <1>2, <1>3, <1>4, StoreFences
  <1>6. PICK outcome : outcome = Outcome(q) OBVIOUS
  <1>7. outcome = "ok" => StoreAccepts(q) BY <1>6 DEF Outcome
  <1>8. Reply(q, outcome) BY <1>6 DEF Execute
  <1>9. PICK rest : rest = wire \ {q} OBVIOUS
  <1>10. (~q.late => Answered(q.from, q.to, outcome, rest)) /\ (q.late => wire' = rest /\ UNCHANGED job)
    BY <1>8, <1>9 DEF Reply
  <1>11. StaysOver BY <1>2, SameDecisions
  <1>12. MovedFenced /\ MovedRelease BY <1>2, <1>5, <1>7, <1>9, <1>10, <1>11, ReplyFences
  <1> QED BY <1>2, <1>5, <1>12, StoreStep

LEMMA ExecuteLocalFences ==
    ASSUME ProgramInv, ProgramInv', FenceInv, NEW n \in Nodes, ExecuteLocal(n)
    PROVE  FenceInv'
  <1>1. Typed /\ LogOK /\ JobsOK /\ ReleasesOver BY DEF ProgramInv, FenceInv
  <1>2. UNCHANGED <<decisions, batches, versions, swept>> BY DEF ExecuteLocal
  <1>3. job[n] # Idle BY DEF ExecuteLocal
  <1>4. PICK j \in Job : j = job[n] BY <1>1, <1>3 DEF Typed
  <1>5. PICK b \in batches : JobFits(j, b) BY <1>1, <1>3, <1>4 DEF JobsOK
  <1>6. n \in j.waiting BY <1>4 DEF ExecuteLocal
  <1>7. PICK i \in Invocations : i = b.invocation BY <1>1, BatchTyped
  <1>8. PICK phase \in Phases : phase = j.phase BY DEF Job
  <1>9. RoundsOf(i, phase) # << >> BY <1>5, <1>6, <1>7, <1>8 DEF JobFits
  <1>10. b.begin = j.begin /\ CommitKnown(j) /\ j.round \in DOMAIN RoundsOf(i, phase)
    BY <1>5, <1>7, <1>8, <1>9 DEF JobFits, ReadyFor
  <1>11. PICK k \in DOMAIN RoundsOf(i, phase) : k = j.round BY <1>10
  <1>12. PICK R : R = RoundsOf(i, phase)[k] OBVIOUS
  <1>13. /\ R.op \in Operations /\ R.path \in Paths
         /\ R.op \in Publications => R.path \in Writes(i)
    BY <1>12, RoundExists
  <1>14. /\ R.op = "release" <=> phase \in Releasing
         /\ phase = "reserve" => R.path = Participants[i][k] /\ R.op = "reserve"
    BY <1>12, ReservingRounds
  <1>15. Rounds(j)[j.round] = R
    <2>1. Batch(j.begin) = b BY <1>1, <1>10, BatchIs
    <2> QED BY <1>7, <1>8, <1>11, <1>12, <2>1, RoundsAre
  <1>16. PICK q : q = Request(n, j, n) OBVIOUS
  <1>17. j.begin \in Nat /\ j.nomination \in Nat /\ j.commit \in Nat BY DEF Job
  <1>18. /\ q \in Message /\ q.to = n /\ q.op = R.op /\ q.path = R.path
         /\ q.begin = j.begin /\ q.commit = j.commit
    BY <1>13, <1>15, <1>16, <1>17 DEF Request, Message
  <1>19. RequestOK(q) BY <1>7, <1>10, <1>13, <1>18 DEF RequestOK, CommitKnown
  <1>20. q.op = "release" => q.begin \notin ActiveBegins(Current)
    BY <1>1, <1>3, <1>4, <1>8, <1>14, <1>18 DEF ReleasesOver
  <1>21. PICK outcome : outcome = Outcome(q) OBVIOUS
  <1>22. Store(q) /\ Answered(n, n, outcome, wire) BY <1>4, <1>16, <1>21 DEF ExecuteLocal
  <1>23. /\ FencesStay /\ FencesTyped' /\ FencedHeads'
         /\ StoreAccepts(q) /\ q.op = "reserve" => Fenced(q.to, q.path, q.begin)'
    BY <1>2, <1>18, <1>19, <1>20, <1>22, StoreFences
  <1>24. outcome = "ok" => StoreAccepts(q) BY <1>21 DEF Outcome
  <1>25. ASSUME outcome = "ok", j.phase = "reserve"
         PROVE  Fenced(n, Participants[b.invocation][j.round], b.begin)'
    <2>1. Fenced(q.to, q.path, q.begin)' BY <1>8, <1>14, <1>18, <1>23, <1>24, <1>25
    <2>2. q.to = n /\ q.path = Participants[b.invocation][j.round] /\ q.begin = b.begin
      BY <1>7, <1>8, <1>10, <1>11, <1>14, <1>18, <1>25
    <2> QED BY <2>1, <2>2 DEF Fenced
  <1>26. StaysOver BY <1>2, SameDecisions
  <1>27. MovedFenced /\ MovedRelease
    BY <1>2, <1>4, <1>5, <1>6, <1>22, <1>23, <1>25, <1>26, AnsweredFenced
  <1> QED BY <1>2, <1>23, <1>27, StoreStep

-----------------------------------------------------------------------------
(* Followers and sweeps. *)

LEMMA ApplyEntryFences ==
    ASSUME ProgramInv, ProgramInv', FenceInv,
           UNCHANGED <<decisions, batches, versions, head, reserved, swept, job, wire>>
    PROVE  FenceInv'
  <1>1. MovedFenced /\ MovedRelease BY SameJobs
  <1> QED BY <1>1, QuietFences

LEMMA SweepReleaseFences ==
    ASSUME ProgramInv, ProgramInv', FenceInv, NEW n \in Nodes, SweepRelease(n)
    PROVE  FenceInv'
  <1>1. Typed /\ FencesTyped BY DEF ProgramInv, FenceInv
  <1>2. UNCHANGED <<decisions, batches, versions, head, job, wire>> BY DEF SweepRelease
  <1>3. CASE UNCHANGED <<reserved, swept>> BY <1>2, <1>3, ApplyEntryFences
  <1>4. \/ UNCHANGED <<reserved, swept>>
        \/ \E p \in DOMAIN sweep[n].stale :
             /\ reserved[n][p] \in {sweep[n].stale[p], None}
             /\ reserved' = [reserved EXCEPT ![n][p] = None]
             /\ swept' = swept \cup ({sweep[n].stale[p].begin} \cap ActiveBegins(Current))
    BY DEF SweepRelease
  <1>5. CASE ~UNCHANGED <<reserved, swept>>
    <2>1. PICK p \in DOMAIN sweep[n].stale :
             /\ reserved[n][p] \in {sweep[n].stale[p], None}
             /\ reserved' = [reserved EXCEPT ![n][p] = None]
             /\ swept' = swept \cup ({sweep[n].stale[p].begin} \cap ActiveBegins(Current))
      BY <1>4, <1>5
    <2>2. PICK listed : listed = sweep[n].stale[p] OBVIOUS
    <2>3. /\ reserved[n][p] \in {listed, None}
          /\ reserved' = [reserved EXCEPT ![n][p] = None]
          /\ swept' = swept \cup ({listed.begin} \cap ActiveBegins(Current))
      BY <2>1, <2>2
    <2>4. reserved \in [Nodes -> [Paths -> Reservation \cup {None}]] BY <1>1 DEF FencesTyped
    <2>5. /\ p \in Paths => reserved'[n][p] = None
          /\ \A m \in Nodes, o \in Paths : <<m, o>> # <<n, p>> => reserved'[m][o] = reserved[m][o]
          /\ reserved' \in [Nodes -> [Paths -> Reservation \cup {None}]]
      BY <2>3, <2>4
    <2>6. swept \subseteq swept' BY <2>3
    <2>7. StaysOver /\ DecidedOnce' /\ Current' = Current BY <1>2, <2>6, SameDecisions
    <2>8. FencesTyped'
      <3>1. ASSUME NEW m \in Nodes, NEW o \in Paths, reserved'[m][o] # None
            PROVE  HasBatch(reserved[m][o].begin)'
        <4>1. reserved'[m][o] = reserved[m][o] BY <2>5, <3>1
        <4> QED BY <1>1, <1>2, <3>1, <4>1 DEF FencesTyped, HasBatch
      <3> QED BY <2>5, <3>1 DEF FencesTyped
    <2>9. FencesFit BY <2>5 DEF FencesFit, Fenced
    <2>10. FencesStay
      <3> SUFFICES ASSUME NEW b \in batches, NEW m \in Nodes, NEW o \in Paths,
                          Live(b.begin)', Fenced(m, o, b.begin)
                   PROVE  Fenced(m, o, b.begin)'
        BY DEF FencesStay
      <3>1. CASE m = n /\ o = p
        <4>1. b.begin = listed.begin BY <2>3, <3>1 DEF Fenced
        <4>2. b.begin \in ActiveBegins(Current)' /\ b.begin \notin swept' BY DEF Live
        <4>3. b.begin \in ActiveBegins(Current) BY <2>7, <4>2 DEF ActiveBegins, Unfinalized
        <4> QED BY <2>3, <4>1, <4>2, <4>3
      <3>2. CASE <<m, o>> # <<n, p>> BY <2>5, <3>2 DEF Fenced
      <3> QED BY <3>1, <3>2
    <2>11. batches' \subseteq BatchRecord BY <1>1, <1>2 DEF Typed
    <2>12. FencedHeads' BY <1>2, <2>7, <2>9, <2>11, HeadsStay
    <2>13. MovedFenced /\ MovedRelease BY <1>2, SameJobs
    <2> QED BY <1>2, <2>6, <2>7, <2>8, <2>10, <2>12, <2>13, SameDecisions, FenceStep
  <1> QED BY <1>3, <1>5

-----------------------------------------------------------------------------
(* Ordinary writes and repair. *)

(* A head moves forward and nothing else that matters here does.           *)
LEMMA HeadStep ==
    ASSUME ProgramInv, ProgramInv', FenceInv,
           UNCHANGED <<decisions, batches, reserved, swept, job, wire>>,
           \A v \in DOMAIN versions : versions'[v] = versions[v],
           NEW n \in Nodes, NEW p \in Paths, NEW v \in Nat, head[n][p] < v,
           head' = [head EXCEPT ![n][p] = v],
           \A b \in batches : Live(b.begin) /\ p \in Touches(b) /\ Fenced(n, p, b.begin)
                                /\ ShowsOwn(n, p, b) =>
             ShowsOwn(n, p, b)' \/ Lost(p, b)
    PROVE  FenceInv'
  <1>1. FencedHeads' BY HeadAdvances
  <1>2. FencesStay BY SameFences
  <1>3. FencesTyped' BY DEF FencesTyped, FenceInv, HasBatch
  <1>4. MovedFenced /\ MovedRelease BY SameJobs
  <1> QED BY <1>1, <1>2, <1>3, <1>4, StoreStep

LEMMA OrdinaryWriteFences ==
    ASSUME ProgramInv, ProgramInv', FenceInv, NEW p \in Paths, OrdinaryWrite(p)
    PROVE  FenceInv'
  <1>1. Typed /\ HeadsOK BY DEF ProgramInv
  <1>2. PICK n \in Nodes : n = CoordinatorOf[p] BY HomeNode
  <1>3. UNCHANGED <<decisions, batches, reserved, swept, job, wire>> BY DEF OrdinaryWrite
  <1>4. PICK new : versions' = Append(versions, new) BY DEF OrdinaryWrite
  <1>5. \A v \in DOMAIN versions : versions'[v] = versions[v] BY <1>1, <1>4 DEF Typed
  <1>6. head' = [head EXCEPT ![n][p] = Len(versions) + 1] /\ Unreserved(n, p) BY <1>2 DEF OrdinaryWrite
  <1>7. Len(versions) \in Nat BY <1>1 DEF Typed
  <1>8. PICK v \in Nat : v = Len(versions) + 1 BY <1>7
  <1>9. head[n][p] < v BY <1>1, <1>7, <1>8, HeadIs
  <1>10. \A b \in batches : ~Fenced(n, p, b.begin) BY <1>6 DEF Unreserved, Fenced
  <1>11. head' = [head EXCEPT ![n][p] = v] BY <1>6, <1>8
  <1> QED BY <1>3, <1>5, <1>9, <1>10, <1>11, HeadStep

LEMMA OrdinaryApplyFences ==
    ASSUME ProgramInv, ProgramInv', FenceInv, NEW n \in Nodes, NEW v \in DOMAIN versions, OrdinaryApply(n, v)
    PROVE  FenceInv'
  <1>1. Typed /\ VersionsOK BY DEF ProgramInv
  <1>2. PICK p \in Paths : p = versions[v].path BY <1>1, VersionTyped
  <1>3. UNCHANGED <<decisions, batches, versions, reserved, swept, job, wire>> BY DEF OrdinaryApply
  <1>4. /\ Unreserved(n, p) /\ head[n][p] \in {versions[v].pred, v}
        /\ head' = [head EXCEPT ![n][p] = v]
    BY <1>2 DEF OrdinaryApply
  <1>5. v \in Nat BY <1>1, VersionTyped
  <1>6. CASE head[n][p] = v
    <2>1. head \in [Nodes -> [Paths -> Nat]] BY <1>1 DEF Typed
    <2>2. UNCHANGED head BY <1>4, <1>6, <2>1
    <2> QED BY <1>3, <2>2, ApplyEntryFences
  <1>7. CASE head[n][p] = versions[v].pred
    <2>1. VersionOK(v) BY <1>1 DEF VersionsOK
    <2>2. head[n][p] < v BY <1>7, <2>1 DEF VersionOK
    <2>3. \A b \in batches : ~Fenced(n, p, b.begin) BY <1>4 DEF Unreserved, Fenced
    <2>4. \A u \in DOMAIN versions : versions'[u] = versions[u] BY <1>3
    <2> QED BY <1>3, <1>4, <1>5, <2>2, <2>3, <2>4, HeadStep
  <1> QED BY <1>4, <1>6, <1>7

(* Repair brings a node that keeps the path to the batch's own version, or *)
(* past it only when the batch is lost.                                    *)
LEMMA RepairFences ==
    ASSUME ProgramInv, ProgramInv', FenceInv, NEW n \in Nodes, NEW p \in Paths, NEW v \in DOMAIN versions,
           Repair(n, p, v)
    PROVE  FenceInv'
  <1>1. Typed /\ LogOK /\ VersionsOK /\ HeadsOK /\ FencedHeads BY DEF ProgramInv, FenceInv
  <1>2. UNCHANGED <<decisions, batches, versions, reserved, swept, job, wire>> BY DEF Repair
  <1>3. /\ versions[v].path = p /\ versions[v].pred = head[n][p]
        /\ head' = [head EXCEPT ![n][p] = v]
    BY DEF Repair
  <1>4. PICK m \in Nodes : v \in Line(head[m][p]) BY DEF Repair
  <1>5. v \in Nat /\ v # 0 BY <1>1, VersionTyped
  <1>6. head[n][p] < v
    <2>1. VersionOK(v) BY <1>1 DEF VersionsOK
    <2> QED BY <1>3, <2>1 DEF VersionOK
  <1>7. PICK h \in Nat : h = head[m][p] BY <1>1, HeadIs
  <1>8. h \in DOMAIN versions /\ v <= h
    <2>1. h # 0 BY <1>4, <1>5, <1>7 DEF Line
    <2>2. h \in DOMAIN versions BY <1>1, <1>7, <2>1, HeadIs
    <2> QED BY <1>1, <1>4, <1>7, <2>2, LineOf
  <1>9. PICK g \in Nat : g = head[n][p] BY <1>1, HeadIs
  <1>10. g < v /\ g < h BY <1>5, <1>6, <1>8, <1>9
  <1>11. ASSUME NEW b \in batches, Live(b.begin), p \in Touches(b), Fenced(n, p, b.begin),
                ShowsOwn(n, p, b), ~Lost(p, b)
         PROVE  ShowsOwn(n, p, b)'
    <2>1. PICK o \in Nat : o = b.observed[p] BY <1>1, BatchTyped
    <2>2. b.begin # 0 BY <1>1 DEF LogOK
    <2>3. ASSUME NEW w \in DOMAIN versions, IsPrepared(w, b.begin, p)
          PROVE  versions[w].pred = o /\ o < w /\ w \in Nat
      <3>1. VersionOK(w) BY <1>1 DEF VersionsOK
      <3>2. PICK a \in batches : a.begin = versions[w].begin /\ versions[w].pred = a.observed[versions[w].path]
        BY <2>2, <2>3, <3>1 DEF VersionOK, IsPrepared
      <3>3. a = b BY <1>1, <2>3, <3>2 DEF LogOK, IsPrepared
      <3>4. versions[w].pred = o BY <2>1, <2>3, <3>2, <3>3 DEF IsPrepared
      <3> QED BY <1>1, <3>1, <3>4, VersionTyped DEF VersionOK
    <2>4. o <= g
      <3>1. CASE g = o BY <3>1
      <3>2. CASE g # 0 /\ IsPrepared(g, b.begin, p)
        <4>1. g \in DOMAIN versions BY <1>1, <1>9, <3>2, HeadIs
        <4> QED BY <2>3, <3>2, <4>1
      <3> QED BY <1>9, <1>11, <2>1, <3>1, <3>2 DEF ShowsOwn
    <2>5. o < h BY <1>10, <2>4
    <2>6. Fenced(m, p, b.begin) BY <1>7, <1>11, <2>1, <2>5 DEF Lost
    <2>7. ShowsOwn(m, p, b) BY <1>1, <1>11, <2>6 DEF FencedHeads
    <2>8. IsPrepared(h, b.begin, p) BY <1>7, <2>1, <2>5, <2>7 DEF ShowsOwn
    <2>9. versions[h].pred = o BY <1>8, <2>3, <2>8
    <2>10. g = o
      <3>1. SUFFICES ASSUME g # 0, IsPrepared(g, b.begin, p) PROVE FALSE
        BY <1>9, <1>11, <2>1 DEF ShowsOwn
      <3>2. g \in DOMAIN versions BY <1>1, <1>9, <3>1, HeadIs
      <3>3. versions[h].begin # 0 /\ IsPrepared(g, versions[h].begin, versions[h].path)
        BY <2>2, <2>8, <3>1 DEF IsPrepared
      <3>4. h = g BY <1>1, <1>8, <3>2, <3>3 DEF VersionsOK
      <3> QED BY <1>10, <3>4
    <2>11. v = h
      <3>1. Line(h) = Line(o) \cup {h} BY <1>1, <1>8, <2>9, LineOf
      <3>2. v \notin Line(o)
        <4>1. o \in 0..Len(versions)
          <5>1. Len(versions) \in Nat BY <1>1 DEF Typed
          <5>2. g <= Len(versions) BY <1>1, <1>9, HeadIs
          <5> QED BY <2>10, <5>1, <5>2
        <4>2. \A w \in Line(o) : w <= o BY <1>1, <4>1, LineBelow
        <4>3. ~(v <= o) BY <1>5, <1>10, <2>10
        <4> QED BY <4>2, <4>3
      <3> QED BY <1>4, <1>7, <3>1, <3>2
    <2>12. head'[n][p] = v
      <3>1. head \in [Nodes -> [Paths -> Nat]] BY <1>1 DEF Typed
      <3> QED BY <1>3, <3>1
    <2> QED BY <1>2, <1>5, <2>8, <2>11, <2>12 DEF ShowsOwn, IsPrepared
  <1>12. \A u \in DOMAIN versions : versions'[u] = versions[u] BY <1>2
  <1> QED BY <1>2, <1>3, <1>5, <1>6, <1>11, <1>12, HeadStep

-----------------------------------------------------------------------------
(* Decisions. *)

(* An entry of the log that begins no batch.                               *)
LEMMA EntryFences ==
    ASSUME ProgramInv, ProgramInv', FenceInv, UNCHANGED <<batches, versions, head, reserved, swept>>,
           \A begin : HasBatch(begin) /\ begin \in ActiveBegins(Current)' => begin \in ActiveBegins(Current),
           DecidedOnce', MovedFenced, MovedRelease,
           \A b \in batches : /\ Live(b.begin)' /\ b.begin # (Current').preparing
                              /\ b.begin = Current.preparing
                              => AllFenced(b)
    PROVE  FenceInv'
  <1>1. StaysOver BY DEF StaysOver
  <1>2. FencesStay /\ FencesFit BY DEF FencesStay, FencesFit, Fenced
  <1>3. FencesTyped' BY DEF FenceInv, FencesTyped, HasBatch
  <1>4. batches' \subseteq BatchRecord BY DEF ProgramInv, Typed
  <1>5. FencedHeads' BY <1>1, <1>2, <1>4, HeadsStay
  <1>6. \A b \in batches : AllFenced(b) => AllFenced(b)' BY DEF AllFenced, Touches, Fenced
  <1>7. \A b \in batches' : /\ Live(b.begin)' /\ b.begin # (Current').preparing
                            /\ b \notin batches \/ b.begin = Current.preparing
                            => AllFenced(b)'
    BY <1>6
  <1> QED BY <1>1, <1>2, <1>3, <1>5, <1>7, FenceStep

LEMMA NominateFences ==
    ASSUME ProgramInv, ProgramInv', FenceInv, NEW n \in Nodes, NominateExecutor(n)
    PROVE  FenceInv'
  <1>1. Typed BY DEF ProgramInv
  <1>2. UNCHANGED <<batches, versions, head, reserved, swept, job, wire>> BY DEF NominateExecutor, store
  <1>3. PICK s : s = [Current EXCEPT !.executor = n, !.nomination = NextIndex] OBVIOUS
  <1>4. Current \in DecisionState /\ Len(decisions) \in Nat BY <1>1, CurrentTyped
  <1>5. /\ s \in DecisionState /\ s.preparing = Current.preparing /\ s.decided = Current.decided
        /\ s.finalized = Current.finalized
    BY <1>3, <1>4 DEF DecisionState, NextIndex
  <1>6. Current' = s BY <1>1, <1>3, <1>5, Appended DEF NominateExecutor
  <1>7. ActiveBegins(Current)' = ActiveBegins(Current) BY <1>5, <1>6 DEF ActiveBegins, Unfinalized
  <1>8. DecidedOnce' BY <1>5, <1>6 DEF FenceInv, DecidedOnce
  <1>9. MovedFenced /\ MovedRelease BY <1>2, SameJobs
  <1>10. (Current').preparing = Current.preparing BY <1>5, <1>6
  <1> QED BY <1>2, <1>7, <1>8, <1>9, <1>10, EntryFences

(* A job that submits a decision.                                          *)
LEMMA Submitting ==
    ASSUME ProgramInv, NEW n \in Nodes, job[n].phase \in {"decide", "abort", "abandon", "through"}
    PROVE  /\ job[n] # Idle /\ job[n] \in Job
           /\ \E b \in batches : b.begin = job[n].begin /\ CommitKnown(job[n])
  <1>1. Typed /\ JobsOK BY DEF ProgramInv
  <1>2. job[n] # Idle BY DEF Idle
  <1>3. job[n] \in Job BY <1>1, <1>2 DEF Typed
  <1>4. PICK b \in batches : JobFits(job[n], b) BY <1>1, <1>2 DEF JobsOK
  <1> QED BY <1>2, <1>3, <1>4 DEF JobFits, ReadyFor

LEMMA CommitFences ==
    ASSUME ProgramInv, ProgramInv', FenceInv, NEW n \in Nodes, CommitPreparedBatch(n)
    PROVE  FenceInv'
  <1>1. Typed /\ LogOK /\ DecidedOnce /\ JobsFenced BY DEF ProgramInv, FenceInv
  <1>2. UNCHANGED <<batches, versions, head, reserved, swept>> BY DEF CommitPreparedBatch, store
  <1>3. job[n].phase = "decide" /\ Current.preparing = job[n].begin BY DEF CommitPreparedBatch
  <1>4. PICK j \in Job : j = job[n] /\ j # Idle BY <1>3, Submitting
  <1>5. PICK b \in batches : b.begin = j.begin BY <1>3, <1>4, Submitting
  <1>6. PICK d : d = [begin |-> job[n].begin, commit |-> NextIndex, executor |-> n, nomination |-> job[n].nomination]
    OBVIOUS
  <1>7. PICK s : s = [Current EXCEPT !.preparing = 0, !.decided = @ \cup {d}] OBVIOUS
  <1>8. Current \in DecisionState /\ Len(decisions) \in Nat BY <1>1, CurrentTyped
  <1>9. d \in Decision /\ d.begin = j.begin
    <2>1. j.begin \in Nat /\ j.nomination \in Nat BY DEF Job
    <2> QED BY <1>4, <1>6, <1>8, <2>1 DEF Decision, NextIndex
  <1>10. /\ s \in DecisionState /\ s.preparing = 0 /\ s.decided = Current.decided \cup {d}
         /\ s.finalized = Current.finalized
    BY <1>7, <1>8, <1>9 DEF DecisionState
  <1>11. AppendEntry(n, s) BY <1>6, <1>7 DEF CommitPreparedBatch, Submit
  <1>12. Current' = s BY <1>1, <1>10, <1>11, Appended
  <1>13. b.begin # 0 BY <1>1 DEF LogOK
  <1>14. b.begin = Current.preparing /\ d.begin = b.begin BY <1>3, <1>4, <1>5, <1>9
  <1>15. \A begin : begin \in ActiveBegins(Current)' => begin \in ActiveBegins(Current)
    <2>1. Unfinalized(s) \subseteq Unfinalized(Current) \cup {d} BY <1>10 DEF Unfinalized
    <2>2. ActiveBegins(s) \subseteq {e.begin : e \in Unfinalized(Current)} \cup {d.begin}
      BY <1>10, <2>1 DEF ActiveBegins
    <2>3. d.begin \in ActiveBegins(Current) BY <1>13, <1>14 DEF ActiveBegins
    <2>4. ActiveBegins(Current)' = ActiveBegins(s) BY <1>12 DEF ActiveBegins, Unfinalized
    <2> QED BY <2>2, <2>3, <2>4 DEF ActiveBegins
  <1>16. DecidedOnce'
    <2>1. \A e \in Current.decided : e.begin # d.begin BY <1>1, <1>14 DEF LogOK
    <2> QED BY <1>1, <1>10, <1>12, <2>1 DEF DecidedOnce
  <1>17. ASSUME NEW a \in batches, Live(a.begin)', a.begin = Current.preparing
         PROVE  AllFenced(a)
    <2>1. a = b BY <1>1, <1>14, <1>17 DEF LogOK
    <2>2. Live(b.begin)
      <3>1. b.begin \in ActiveBegins(Current) BY <1>13, <1>14 DEF ActiveBegins
      <3>2. b.begin \notin swept BY <1>2, <1>17, <2>1 DEF Live
      <3> QED BY <3>1, <3>2 DEF Live
    <2>3. JobFenced(j, b) BY <1>1, <1>4, <1>5 DEF JobsFenced
    <2> QED BY <1>3, <1>4, <2>1, <2>2, <2>3 DEF JobFenced
  <1>18. MovedFenced /\ MovedRelease
    <2>1. PICK x : x = [job[n] EXCEPT !.commit = NextIndex] OBVIOUS
    <2>2. x \in Job BY <1>4, <1>8, <2>1 DEF Job, NextIndex
    <2>3. PICK phase \in Phases : phase = "commit" BY DEF Phases
    <2>4. Enter(n, x, phase, wire) BY <2>1, <2>3 DEF CommitPreparedBatch
    <2>5. phase # "decide" /\ phase \notin Releasing BY <2>3 DEF Releasing
    <2> QED BY <2>2, <2>4, <2>5, EnterFences
  <1> QED BY <1>2, <1>15, <1>16, <1>17, <1>18, EntryFences

LEMMA AbortFences ==
    ASSUME ProgramInv, ProgramInv', FenceInv, NEW n \in Nodes, AbortPreparedBatch(n)
    PROVE  FenceInv'
  <1>1. Typed /\ LogOK /\ DecidedOnce BY DEF ProgramInv, FenceInv
  <1>2. UNCHANGED <<batches, versions, head, reserved, swept>> BY DEF AbortPreparedBatch, store
  <1>3. job[n].phase \in {"abort", "abandon"} /\ Current.preparing = job[n].begin BY DEF AbortPreparedBatch
  <1>4. PICK j \in Job : j = job[n] BY <1>3, Submitting
  <1>5. PICK s : s = [Current EXCEPT !.preparing = 0] OBVIOUS
  <1>6. Current \in DecisionState BY <1>1, CurrentTyped
  <1>7. /\ s \in DecisionState /\ s.preparing = 0 /\ s.decided = Current.decided
        /\ s.finalized = Current.finalized
    BY <1>5, <1>6 DEF DecisionState
  <1>8. AppendEntry(n, s) BY <1>5 DEF AbortPreparedBatch, Submit
  <1>9. Current' = s BY <1>1, <1>7, <1>8, Appended
  <1>10. ActiveBegins(Current)' = {d.begin : d \in Unfinalized(Current)}
    <2>1. ActiveBegins(s) = {d.begin : d \in Unfinalized(Current)} BY <1>7 DEF ActiveBegins, Unfinalized
    <2>2. ActiveBegins(Current)' = ActiveBegins(s) BY <1>9 DEF ActiveBegins, Unfinalized
    <2> QED BY <2>1, <2>2
  <1>11. Current.preparing \notin ActiveBegins(Current)'
    BY <1>1, <1>10 DEF LogOK, Unfinalized
  <1>12. \A begin : begin \in ActiveBegins(Current)' => begin \in ActiveBegins(Current)
    BY <1>10 DEF ActiveBegins
  <1>13. DecidedOnce' BY <1>1, <1>7, <1>9 DEF DecidedOnce
  <1>14. ASSUME NEW b \in batches, Live(b.begin)', b.begin = Current.preparing PROVE AllFenced(b)
    BY <1>11, <1>14 DEF Live
  <1>15. MovedFenced /\ MovedRelease
    <2>1. ASSUME Enter(n, j, "releaseAborted", wire) PROVE MovedFenced /\ MovedRelease
      <3>1. PICK phase \in Phases : phase = "releaseAborted" BY DEF Phases
      <3>2. Enter(n, j, phase, wire) /\ phase # "decide" BY <2>1, <3>1
      <3>3. j.begin \notin ActiveBegins(Current)' BY <1>3, <1>4, <1>11
      <3> QED BY <3>2, <3>3, EnterFences
    <2>2. ASSUME Stop(n, wire) PROVE MovedFenced /\ MovedRelease BY <2>2, StopFences
    <2> QED BY <1>4, <2>1, <2>2 DEF AbortPreparedBatch
  <1> QED BY <1>2, <1>12, <1>13, <1>14, <1>15, EntryFences

LEMMA AdvanceFences ==
    ASSUME ProgramInv, ProgramInv', FenceInv, NEW n \in Nodes, advance_finalized_through(n)
    PROVE  FenceInv'
  <1>1. Typed /\ LogOK /\ Tenure /\ DecidedOnce BY DEF ProgramInv, FenceInv
  <1>2. UNCHANGED <<batches, versions, head, reserved, swept>> BY DEF advance_finalized_through, store
  <1>3. job[n].phase = "through" BY DEF advance_finalized_through
  <1>4. PICK j \in Job : j = job[n] /\ j # Idle BY <1>3, Submitting
  <1>5. CommitKnown(j) BY <1>3, <1>4, Submitting
  <1>6. j.commit # 0 /\ HasDecision(j.begin, j.commit) BY <1>3, <1>4, <1>5 DEF CommitKnown
  <1>7. PICK d \in Current.decided : d.begin = j.begin /\ d.commit = j.commit BY <1>6 DEF HasDecision
  <1>8. PICK s : s = [Current EXCEPT !.finalized = job[n].commit] OBVIOUS
  <1>9. Current \in DecisionState /\ Current.finalized \in Nat /\ Current.decided \subseteq Decision
    BY <1>1, CurrentTyped
  <1>10. j.commit \in Nat BY DEF Job
  <1>11. /\ s \in DecisionState /\ s.preparing = Current.preparing /\ s.decided = Current.decided
         /\ s.finalized = j.commit
    BY <1>4, <1>8, <1>9, <1>10 DEF DecisionState
  <1>12. AppendEntry(n, s) /\ Current.executor = n /\ Current.nomination = j.nomination
    BY <1>4, <1>8 DEF advance_finalized_through, Submit
  <1>13. Current' = s BY <1>1, <1>11, <1>12, Appended
  <1>14. Current.finalized <= j.commit BY <1>1, <1>4, <1>6, <1>12 DEF Tenure, InTenure
  <1>15. ActiveBegins(Current)' = ActiveBegins(s) BY <1>13 DEF ActiveBegins, Unfinalized
  <1>16. Unfinalized(s) \subseteq Unfinalized(Current)
    <2> SUFFICES ASSUME NEW e \in Current.decided, e.commit > j.commit PROVE e.commit > Current.finalized
      BY <1>11 DEF Unfinalized
    <2>1. e.commit \in Nat BY <1>9 DEF Decision
    <2> QED BY <1>9, <1>10, <1>14, <2>1
  <1>17. \A begin : begin \in ActiveBegins(Current)' => begin \in ActiveBegins(Current)
    BY <1>11, <1>15, <1>16 DEF ActiveBegins
  <1>18. j.begin \notin ActiveBegins(Current)'
    <2>1. j.begin # Current.preparing BY <1>1, <1>7 DEF LogOK
    <2>2. ASSUME NEW e \in Unfinalized(s), e.begin = j.begin PROVE FALSE
      <3>1. e \in Current.decided /\ e.commit > j.commit BY <1>11, <2>2 DEF Unfinalized
      <3>2. e = d BY <1>1, <1>7, <2>2, <3>1 DEF DecidedOnce
      <3> QED BY <1>7, <1>10, <3>1, <3>2
    <2> QED BY <1>11, <1>15, <2>1, <2>2 DEF ActiveBegins
  <1>19. DecidedOnce' BY <1>1, <1>11, <1>13 DEF DecidedOnce
  <1>20. (Current').preparing = Current.preparing BY <1>11, <1>13
  <1>21. MovedFenced /\ MovedRelease
    <2>1. PICK phase \in Phases : phase = "release" BY DEF Phases
    <2>2. Enter(n, j, phase, wire) /\ phase # "decide" BY <1>4, <2>1 DEF advance_finalized_through
    <2> QED BY <1>18, <2>2, EnterFences
  <1> QED BY <1>2, <1>17, <1>19, <1>20, <1>21, EntryFences

LEMMA InvokeFences ==
    ASSUME ProgramInv, ProgramInv', FenceInv, NEW n \in Nodes, NEW i \in Invocations, invoke_distributed(n, i)
    PROVE  FenceInv'
  <1>1. Typed /\ LogOK /\ VersionsOK /\ DecidedOnce BY DEF ProgramInv, FenceInv
  <1>2. UNCHANGED <<head, reserved, wire, swept>> BY DEF invoke_distributed
  <1>3. PICK s, nb : Begins(n, i, s, nb) BY InvokeBegins
  <1>4. Current.preparing = 0 BY InvokeBegins
  <1>5. Current \in DecisionState /\ Len(decisions) \in Nat BY <1>1, CurrentTyped
  <1>6. /\ s = [Current EXCEPT !.preparing = Len(decisions)] /\ AppendEntry(n, s)
        /\ nb.begin = Len(decisions) /\ batches' = batches \cup {nb}
        /\ \A v \in 1..Len(versions) : versions'[v] = versions[v]
    BY <1>3 DEF Begins
  <1>7. /\ s \in DecisionState /\ s.preparing = Len(decisions) /\ s.decided = Current.decided
        /\ s.finalized = Current.finalized
    BY <1>5, <1>6 DEF DecisionState
  <1>8. Current' = s BY <1>1, <1>6, <1>7, Appended
  <1>9. \A begin : HasBatch(begin) => begin # Len(decisions) BY <1>1, BeginBelow
  <1>10. \A begin : HasBatch(begin) /\ begin \in ActiveBegins(Current)' => begin \in ActiveBegins(Current)
    <2>1. ActiveBegins(s) \subseteq {d.begin : d \in Unfinalized(Current)} \cup {Len(decisions)}
      BY <1>7 DEF ActiveBegins, Unfinalized
    <2>2. ActiveBegins(Current)' = ActiveBegins(s) BY <1>8 DEF ActiveBegins, Unfinalized
    <2> QED BY <1>9, <2>1, <2>2 DEF ActiveBegins
  <1>11. StaysOver BY <1>2, <1>6, <1>9, <1>10 DEF StaysOver
  <1>12. FencesStay /\ FencesFit BY <1>2 DEF FencesStay, FencesFit, Fenced
  <1>13. FencesTyped' BY <1>2, <1>6 DEF FenceInv, FencesTyped, HasBatch
  <1>14. batches' \subseteq BatchRecord BY DEF ProgramInv, Typed
  <1>15. \A v \in DOMAIN versions : versions'[v] = versions[v]
    <2>1. DOMAIN versions = 1..Len(versions) BY <1>1 DEF Typed
    <2> QED BY <1>6, <2>1
  <1>16. FencedHeads' BY <1>2, <1>11, <1>12, <1>14, <1>15, HeadsStay
  <1>17. DecidedOnce' BY <1>1, <1>7, <1>8 DEF DecidedOnce
  <1>18. MovedFenced /\ MovedRelease
    <2>1. PICK x : x = NewJob("invoke", "stage", NextIndex, View(n).nomination, 0) OBVIOUS
    <2>2. job' = [job EXCEPT ![n] = x] BY <2>1 DEF invoke_distributed
    <2>3. job \in [Nodes -> Job \cup {Idle}] BY <1>1 DEF Typed
    <2>4. x.phase = "stage" BY <2>1 DEF NewJob
    <2>5. (\A m \in Nodes \ {n} : job'[m] = job[m]) /\ job'[n].phase = "stage" BY <2>2, <2>3, <2>4
    <2>6. FreshJob(job'[n]) BY <2>5 DEF FreshJob
    <2>7. MovedFenced BY <2>5, <2>6, OneMoves
    <2>8. MovedRelease BY <1>2, <2>5 DEF MovedRelease, Releasing
    <2> QED BY <2>7, <2>8
  <1>19. \A b \in batches' : b \notin batches \/ b.begin = Current.preparing => b.begin = (Current').preparing
    <2>1. \A b \in batches : b.begin # Current.preparing BY <1>1, <1>4 DEF LogOK
    <2> QED BY <1>6, <1>7, <1>8, <2>1
  <1> QED BY <1>11, <1>12, <1>13, <1>16, <1>17, <1>18, <1>19, FenceStep

-----------------------------------------------------------------------------
LEMMA FenceInit == Init => FenceInv
  <1> SUFFICES ASSUME Init PROVE FenceInv OBVIOUS
  <1>1. PICK s : /\ s = [executor |-> None, nomination |-> 0, preparing |-> 0, decided |-> {}, finalized |-> 0]
                 /\ decisions = <<s>>
    BY DEF Init
  <1>2. Current = s BY <1>1 DEF Current
  <1>3. s.decided = {} /\ s.preparing = 0 BY <1>1
  <1>4. /\ batches = {} /\ wire = {} /\ \A n \in Nodes : job[n] = Idle
        /\ reserved = [n \in Nodes |-> [p \in Paths |-> None]]
    BY DEF Init
  <1>5. FencesTyped BY <1>4 DEF FencesTyped
  <1>6. DecidedOnce BY <1>2, <1>3 DEF DecidedOnce
  <1>7. ReleasesOver BY <1>4 DEF ReleasesOver
  <1>8. FencedHeads /\ DecidedFenced /\ JobsFenced BY <1>4 DEF FencedHeads, DecidedFenced, JobsFenced
  <1> QED BY <1>5, <1>6, <1>7, <1>8 DEF FenceInv

LEMMA FenceNext == ProgramInv /\ ProgramInv' /\ FenceInv /\ [Next]_vars => FenceInv'
  <1> SUFFICES ASSUME ProgramInv, ProgramInv', FenceInv, [Next]_vars PROVE FenceInv' OBVIOUS
  <1>1. ASSUME NEW n \in Nodes, NominateExecutor(n) PROVE FenceInv' BY <1>1, NominateFences
  <1>2. ASSUME NEW n \in Nodes, ApplyEntry(n) PROVE FenceInv'
    BY <1>2, ApplyEntryFences DEF ApplyEntry, store
  <1>3. ASSUME NEW n \in Nodes, NEW i \in Invocations, invoke_distributed(n, i) PROVE FenceInv'
    BY <1>3, InvokeFences
  <1>4. ASSUME NEW n \in Nodes, recover_distributed_tail_locked(n) PROVE FenceInv'
    BY <1>4, RecoverFences
  <1>5. ASSUME NEW n \in Nodes, stage_prepared(n) PROVE FenceInv' BY <1>5, StageFences
  <1>6. ASSUME NEW n \in Nodes, CommitPreparedBatch(n) PROVE FenceInv' BY <1>6, CommitFences
  <1>7. ASSUME NEW n \in Nodes, AbortPreparedBatch(n) PROVE FenceInv' BY <1>7, AbortFences
  <1>8. ASSUME NEW n \in Nodes, advance_finalized_through(n) PROVE FenceInv' BY <1>8, AdvanceFences
  <1>9. ASSUME NEW n \in Nodes, SubmitRejected(n) PROVE FenceInv' BY <1>9, RejectedFences
  <1>10. ASSUME NEW n \in Nodes, Abandon(n) PROVE FenceInv' BY <1>10, AbandonFences
  <1>11. ASSUME NEW n \in Nodes, ExecuteLocal(n) PROVE FenceInv' BY <1>11, ExecuteLocalFences
  <1>12. ASSUME NEW n \in Nodes, SweepRead(n) \/ SweepList(n) PROVE FenceInv'
    BY <1>12, ApplyEntryFences DEF SweepRead, SweepList, store
  <1>13. ASSUME NEW n \in Nodes, SweepRelease(n) PROVE FenceInv' BY <1>13, SweepReleaseFences
  <1>14. ASSUME NEW n \in Nodes, NEW v \in DOMAIN versions, OrdinaryApply(n, v) PROVE FenceInv'
    BY <1>14, OrdinaryApplyFences
  <1>15. ASSUME NEW n \in Nodes, NEW p \in Paths, NEW v \in DOMAIN versions, Repair(n, p, v)
         PROVE  FenceInv'
    BY <1>15, RepairFences
  <1>16. ASSUME NEW p \in Paths, OrdinaryWrite(p) PROVE FenceInv' BY <1>16, OrdinaryWriteFences
  <1>17. ASSUME NEW q \in wire, TimeOut(q) \/ Admit(q) \/ Refuse(q) \/ Execute(q) PROVE FenceInv'
    BY <1>17, TimeOutFences, AdmitFences, RefuseFences, ExecuteFences
  <1>18. CASE UNCHANGED vars BY <1>18, ApplyEntryFences DEF vars
  <1> QED
    BY <1>1, <1>2, <1>3, <1>4, <1>5, <1>6, <1>7, <1>8, <1>9, <1>10, <1>11, <1>12, <1>13,
       <1>14, <1>15, <1>16, <1>17, <1>18
    DEF Next

LEMMA FencesSuffice == ProgramInv /\ FenceInv => ParticipantsHeld
  <1> SUFFICES ASSUME ProgramInv, FenceInv,
                      NEW d \in Unfinalized(Current), d.begin \notin swept,
                      NEW p \in Range(Participants[Batch(d.begin).invocation])
               PROVE  Cardinality({n \in Nodes :
                        \/ head[n][p] = Batch(d.begin).observed[p]
                        \/ /\ p \in Writes(Batch(d.begin).invocation)
                           /\ head[n][p] = Prepared(d.begin, p)}) >= Required
    BY DEF ParticipantsHeld
  <1>1. Typed /\ LogOK /\ VersionsOK /\ HeadsOK /\ FencedHeads /\ DecidedFenced
    BY DEF ProgramInv, FenceInv
  <1>2. d \in Current.decided BY DEF Unfinalized
  <1>3. PICK b \in batches : b.begin = d.begin BY <1>1, <1>2 DEF LogOK, HasBatch
  <1>4. Batch(d.begin) = b BY <1>1, <1>3, BatchIs
  <1>5. p \in Touches(b) /\ p \in Paths
    <2>1. p \in Touches(b) BY <1>4 DEF Touches
    <2> QED BY <1>1, <2>1, TouchesPaths
  <1>6. b.begin # Current.preparing /\ b.begin # 0 BY <1>1, <1>2, <1>3 DEF LogOK
  <1>7. Live(b.begin) BY <1>3 DEF Live, ActiveBegins
  <1>8. AllFenced(b) BY <1>1, <1>6, <1>7 DEF DecidedFenced
  <1>9. \A n \in Nodes : Fenced(n, p, b.begin) BY <1>5, <1>8 DEF AllFenced
  <1>10. ~Lost(p, b) BY <1>9 DEF Lost
  <1>11. ASSUME NEW n \in Nodes
         PROVE  \/ head[n][p] = b.observed[p]
                \/ p \in Writes(b.invocation) /\ head[n][p] = Prepared(b.begin, p)
    <2>1. ShowsOwn(n, p, b) BY <1>1, <1>5, <1>7, <1>9, <1>10 DEF FencedHeads
    <2>2. CASE head[n][p] # 0 /\ IsPrepared(head[n][p], b.begin, p)
      <3>1. PICK v \in DOMAIN versions : v = head[n][p] BY <1>1, <1>5, <2>2, HeadIs
      <3>2. VersionOK(v) BY <1>1 DEF VersionsOK
      <3>3. PICK a \in batches : a.begin = versions[v].begin /\ versions[v].path \in Writes(a.invocation)
        BY <1>6, <2>2, <3>1, <3>2 DEF VersionOK, IsPrepared
      <3>4. a = b BY <1>1, <2>2, <3>1, <3>3 DEF LogOK, IsPrepared
      <3>5. p \in Writes(b.invocation) BY <2>2, <3>1, <3>3, <3>4 DEF IsPrepared
      <3>6. v = Prepared(b.begin, p) BY <1>1, <2>2, <3>1, <3>5, PreparedIs
      <3> QED BY <3>1, <3>5, <3>6
    <2> QED BY <2>1, <2>2 DEF ShowsOwn
  <1>12. {n \in Nodes : \/ head[n][p] = Batch(d.begin).observed[p]
                        \/ /\ p \in Writes(Batch(d.begin).invocation)
                           /\ head[n][p] = Prepared(d.begin, p)} = Nodes
    BY <1>3, <1>4, <1>11
  <1>13. Cardinality(Nodes) >= Required
    <2>1. Cardinality(Nodes) = 2 BY ProgramConstants
    <2> QED BY <2>1 DEF Required
  <1> QED BY <1>12, <1>13

(* For every number of paths, programs and log entries: from the decision  *)
(* of a program to its finalization every replica of each participant,     *)
(* written or only read, shows what the program observed or wrote, unless  *)
(* a sweep took one of its reservations, however many executors resume the *)
(* batch, whatever late requests and repairs do, and although a            *)
(* reservation outlives the nomination it was made under                   *)
(* (reserve_participants, require_unreserved_object_locked,                *)
(* recover_distributed_tail_locked).                                       *)
THEOREM ReservationsHold == Spec => []ParticipantsHeld
  <1>1. ProgramInv /\ [Next]_vars => ProgramInv' BY NextLemma
  <1>2. ProgramInv /\ ProgramInv' /\ FenceInv /\ [Next]_vars => FenceInv' BY FenceNext
  <1>3. ProgramInv /\ FenceInv => ParticipantsHeld BY FencesSuffice
  <1> QED BY <1>1, <1>2, <1>3, InitLemma, FenceInit, PTL DEF Spec

-----------------------------------------------------------------------------
(* The log of decisions is one of AtomicDecisions.  The state of that      *)
(* machine, as a function of decisions and batches:                        *)

LogIndex == Len(decisions) - 1
Nominated ==
    IF Current.executor = None THEN None
    ELSE [executor |-> Current.executor, nomination_log_index |-> Current.nomination]
Preparing ==
    IF Current.preparing = 0 THEN None
    ELSE [begin_cursor |-> Current.preparing, executor |-> Current.executor,
          nomination_log_index |-> Current.nomination,
          invocation_id |-> Batch(Current.preparing).invocation, expires |-> 2]
LastCommit == Max({d.commit : d \in Current.decided} \cup {0})
Horizon == IF batches = {} THEN 0 ELSE 1

(* An executor has a nomination, decisions have a latest, and no           *)
(* invocation is decided twice or prepared after it was decided.           *)
DecideInv ==
    /\ Current.executor # None => Current.nomination # 0
    /\ Current.decided # {} =>
         \E d \in Current.decided : \A e \in Current.decided : e.commit <= d.commit
    /\ \A d \in Current.decided, b \in batches :
         b.begin = Current.preparing => Batch(d.begin).invocation # b.invocation
    /\ \A d, e \in Current.decided :
         Batch(d.begin).invocation = Batch(e.begin).invocation => d = e

LEMMA BatchStays ==
    ASSUME LogOK, LogOK', batches \subseteq batches', NEW begin, HasBatch(begin)
    PROVE  Batch(begin)' = Batch(begin)
  <1>1. PICK b \in batches : b.begin = begin BY DEF HasBatch
  <1>2. Batch(begin) = b BY <1>1, BatchIs
  <1>3. b \in batches' /\ \A a \in batches' : a.begin = begin => a = b BY <1>1 DEF LogOK
  <1>4. (CHOOSE a \in batches' : a.begin = begin) = b BY <1>1, <1>3
  <1> QED BY <1>2, <1>4 DEF Batch

LEMMA DecidedStays ==
    ASSUME LogOK, LogOK', batches \subseteq batches', (Current').decided = Current.decided
    PROVE  /\ Decided(Current)' = Decided(Current)
           /\ LastCommit' = LastCommit
           /\ \A d \in Current.decided : Batch(d.begin)' = Batch(d.begin)
  <1>1. \A d \in Current.decided : HasBatch(d.begin) BY DEF LogOK
  <1>2. \A d \in Current.decided : Batch(d.begin)' = Batch(d.begin) BY <1>1, BatchStays
  <1>3. Decided(Current)' = Decided(Current) BY <1>2 DEF Decided
  <1>4. LastCommit' = LastCommit BY DEF LastCommit
  <1> QED BY <1>2, <1>3, <1>4

LEMMA LastIs ==
    ASSUME ProgramInv, DecideInv
    PROVE  /\ LastCommit \in Nat /\ LastCommit < Len(decisions)
           /\ \A d \in Current.decided : d.commit <= LastCommit
  <1>1. Typed /\ LogOK BY DEF ProgramInv
  <1>2. Len(decisions) \in Nat /\ Len(decisions) # 0 BY <1>1, CurrentTyped
  <1>3. \A d \in Current.decided : d.commit \in Nat /\ d.commit < Len(decisions) BY <1>1, CurrentKnown
  <1>4. PICK S : S = {d.commit : d \in Current.decided} \cup {0} OBVIOUS
  <1>5. \A x \in S : x \in Nat /\ x < Len(decisions) BY <1>2, <1>3, <1>4
  <1>6. \E x \in S : \A y \in S : x >= y
    <2>1. CASE Current.decided = {} BY <1>4, <2>1
    <2>2. CASE Current.decided # {}
      <3>1. PICK d \in Current.decided : \A e \in Current.decided : e.commit <= d.commit BY <2>2 DEF DecideInv
      <3>2. d.commit \in S /\ \A y \in S : d.commit >= y BY <1>3, <1>4, <3>1
      <3> QED BY <3>2
    <2> QED BY <2>1, <2>2
  <1>7. Max(S) \in S /\ \A y \in S : Max(S) >= y BY <1>6 DEF Max
  <1>8. LastCommit = Max(S) BY <1>4 DEF LastCommit
  <1>9. \A d \in Current.decided : d.commit \in S BY <1>4
  <1> QED BY <1>5, <1>7, <1>8, <1>9

(* Every entry takes the next index.                                       *)
LEMMA EntryNext ==
    ASSUME Typed, NEW n \in Nodes, NEW s \in DecisionState, AppendEntry(n, s)
    PROVE  /\ Decisions!NextEntry /\ Current' = s
           /\ LogIndex' = Len(decisions) /\ LogIndex \in Nat /\ Len(decisions) \in Nat
  <1>1. Len(decisions) \in Nat /\ Len(decisions) # 0 BY CurrentTyped
  <1>2. Current' = s /\ Len(decisions') = Len(decisions) + 1 BY Appended
  <1>3. Len(decisions) <= MaxLog /\ MaxLog \in Nat BY LogConstants DEF AppendEntry, NextIndex
  <1>4. Len(decisions) - 1 < MaxLog BY <1>1, <1>3
  <1>5. Decisions!NextEntry BY <1>1, <1>2, <1>4 DEF Decisions!NextEntry
  <1> QED BY <1>1, <1>2, <1>5 DEF LogIndex

LEMMA SameCardinality == \A S : Decisions!Cardinality(S) = Cardinality(S)
  BY DEF Decisions!Cardinality, Cardinality

LEMMA SameNobody == Decisions!None = None
  BY DEF Decisions!None, None

LEMMA NominateRefines ==
    ASSUME ProgramInv, ProgramInv', DecideInv, NEW n \in Nodes, NominateExecutor(n)
    PROVE  DecideInv' /\ Decisions!Next
  <1>1. Typed /\ LogOK /\ LogOK' BY DEF ProgramInv
  <1>2. UNCHANGED batches BY DEF NominateExecutor
  <1>3. PICK s : s = [Current EXCEPT !.executor = n, !.nomination = NextIndex] OBVIOUS
  <1>4. Current \in DecisionState /\ Len(decisions) \in Nat /\ Len(decisions) # 0 BY <1>1, CurrentTyped
  <1>5. /\ s \in DecisionState /\ s.preparing = Current.preparing /\ s.decided = Current.decided
        /\ s.finalized = Current.finalized /\ s.executor = n /\ s.nomination = Len(decisions)
    BY <1>3, <1>4 DEF DecisionState, NextIndex
  <1>6. /\ Decisions!NextEntry /\ Current' = s /\ LogIndex' = Len(decisions)
    BY <1>1, <1>3, <1>5, EntryNext DEF NominateExecutor
  <1>7. /\ Decided(Current)' = Decided(Current) /\ LastCommit' = LastCommit
        /\ \A d \in Current.decided : Batch(d.begin)' = Batch(d.begin)
    BY <1>1, <1>2, <1>5, <1>6, DecidedStays
  <1>8. n # None BY LogConstants
  <1>9. Nominated' = [executor |-> n, nomination_log_index |-> LogIndex'] BY <1>5, <1>6, <1>8 DEF Nominated
  <1>10. Preparing' = IF Preparing = None THEN None
                      ELSE [Preparing EXCEPT !.executor = n, !.nomination_log_index = LogIndex']
    <2>1. CASE Current.preparing = 0 BY <1>5, <1>6, <2>1 DEF Preparing
    <2>2. CASE Current.preparing # 0
      <3>1. PICK i : i = Batch(Current.preparing).invocation OBVIOUS
      <3>2. Batch(Current.preparing)' = Batch(Current.preparing) BY <1>2, <1>5, <1>6 DEF Batch
      <3>3. Preparing = [begin_cursor |-> Current.preparing, executor |-> Current.executor,
                         nomination_log_index |-> Current.nomination, invocation_id |-> i, expires |-> 2]
        BY <2>2, <3>1 DEF Preparing
      <3>4. Preparing' = [begin_cursor |-> Current.preparing, executor |-> n,
                          nomination_log_index |-> Len(decisions), invocation_id |-> i, expires |-> 2]
        BY <1>5, <1>6, <2>2, <3>1, <3>2 DEF Preparing
      <3>5. Preparing # None BY <3>3 DEF None
      <3> QED BY <1>6, <3>3, <3>4, <3>5
    <2> QED BY <2>1, <2>2
  <1>11. Horizon' = Horizon BY <1>2 DEF Horizon
  <1>12. Decisions!NominateExecutor(n)
    BY <1>5, <1>6, <1>7, <1>9, <1>10, <1>11, SameNobody
    DEF Decisions!NominateExecutor, Decisions!Refenced, Nominated, Preparing, LastCommit, Horizon, LogIndex
  <1>13. DecideInv' BY <1>2, <1>4, <1>5, <1>6, <1>7 DEF DecideInv
  <1> QED BY <1>12, <1>13 DEF Decisions!Next

(* What an executor's command finds.                                       *)
LEMMA SubmitFacts ==
    ASSUME ProgramInv, DecideInv, NEW n \in Nodes,
           job[n].phase \in {"decide", "abort", "abandon", "through"}, NEW s, Submit(n, s)
    PROVE  /\ AppendEntry(n, s) /\ Current.executor = n /\ Current.nomination = job[n].nomination
           /\ Current.nomination \in 1..LogIndex
           /\ Nominated = [executor |-> n, nomination_log_index |-> Current.nomination]
  <1>1. Typed /\ LogOK BY DEF ProgramInv
  <1>2. AppendEntry(n, s) /\ Current.executor = n /\ Current.nomination = job[n].nomination BY DEF Submit
  <1>3. n # None BY LogConstants
  <1>4. Current.nomination # 0 BY <1>2, <1>3 DEF DecideInv
  <1>5. Current.nomination \in Nat /\ Current.nomination < Len(decisions) /\ Len(decisions) \in Nat
    BY <1>1, CurrentKnown
  <1>6. Current.nomination \in 1..LogIndex BY <1>4, <1>5 DEF LogIndex
  <1> QED BY <1>2, <1>3, <1>6 DEF Nominated

(* The batch under preparation.                                            *)
LEMMA PreparingIs ==
    ASSUME ProgramInv, NEW b \in batches, b.begin = Current.preparing
    PROVE  /\ Preparing = [begin_cursor |-> b.begin, executor |-> Current.executor,
                           nomination_log_index |-> Current.nomination,
                           invocation_id |-> b.invocation, expires |-> 2]
           /\ Preparing # None /\ b.begin \in 1..LogIndex /\ b.invocation \in Invocations
  <1>1. Typed /\ LogOK BY DEF ProgramInv
  <1>2. b.begin # 0 /\ b.begin < Len(decisions) BY <1>1 DEF LogOK
  <1>3. b.begin \in Nat /\ b.invocation \in Invocations /\ Len(decisions) \in Nat
    BY <1>1, BatchTyped, CurrentTyped
  <1>4. b.begin \in 1..LogIndex BY <1>2, <1>3 DEF LogIndex
  <1>5. Batch(b.begin) = b BY <1>1, BatchIs
  <1>6. Preparing = [begin_cursor |-> b.begin, executor |-> Current.executor,
                     nomination_log_index |-> Current.nomination,
                     invocation_id |-> b.invocation, expires |-> 2]
    BY <1>2, <1>5 DEF Preparing
  <1>7. Preparing # None BY <1>6 DEF None
  <1> QED BY <1>3, <1>4, <1>6, <1>7

LEMMA AbortRefines ==
    ASSUME ProgramInv, ProgramInv', DecideInv, NEW n \in Nodes, AbortPreparedBatch(n)
    PROVE  DecideInv' /\ Decisions!Next
  <1>1. Typed /\ LogOK /\ LogOK' BY DEF ProgramInv
  <1>2. UNCHANGED batches BY DEF AbortPreparedBatch
  <1>3. job[n].phase \in {"abort", "abandon"} /\ Current.preparing = job[n].begin BY DEF AbortPreparedBatch
  <1>4. PICK b \in batches : b.begin = Current.preparing BY <1>3, Submitting
  <1>5. PICK s : s = [Current EXCEPT !.preparing = 0] OBVIOUS
  <1>6. Current \in DecisionState BY <1>1, CurrentTyped
  <1>7. /\ s \in DecisionState /\ s.preparing = 0 /\ s.decided = Current.decided
        /\ s.finalized = Current.finalized /\ s.executor = Current.executor /\ s.nomination = Current.nomination
    BY <1>5, <1>6 DEF DecisionState
  <1>8. Submit(n, s) BY <1>5 DEF AbortPreparedBatch
  <1>9. /\ AppendEntry(n, s) /\ Current.executor = n /\ Current.nomination \in 1..LogIndex
        /\ Nominated = [executor |-> n, nomination_log_index |-> Current.nomination]
    BY <1>3, <1>8, SubmitFacts
  <1>10. Decisions!NextEntry /\ Current' = s BY <1>1, <1>7, <1>9, EntryNext
  <1>11. /\ Decided(Current)' = Decided(Current) /\ LastCommit' = LastCommit
         /\ \A d \in Current.decided : Batch(d.begin)' = Batch(d.begin)
    BY <1>1, <1>2, <1>7, <1>10, DecidedStays
  <1>12. Nominated' = Nominated BY <1>7, <1>10 DEF Nominated
  <1>13. Preparing' = None BY <1>7, <1>10 DEF Preparing
  <1>14. Horizon' = Horizon BY <1>2 DEF Horizon
  <1>15. PICK P : P = Preparing OBVIOUS
  <1>16. /\ P # None /\ P.begin_cursor = b.begin /\ P.executor = n
         /\ P.nomination_log_index = Current.nomination /\ P.invocation_id = b.invocation
         /\ b.begin \in 1..LogIndex /\ b.invocation \in Invocations
    BY <1>4, <1>9, <1>15, PreparingIs
  <1>17. Decisions!AbortPreparedBatch(n, Current.nomination, b.begin, b.invocation)
    BY <1>7, <1>9, <1>10, <1>11, <1>12, <1>13, <1>14, <1>15, <1>16, SameNobody
    DEF Decisions!AbortPreparedBatch, Decisions!RequireExecutor, Nominated, Preparing, LastCommit, Horizon
  <1>18. DecideInv'
    <2>1. \A a \in batches' : a.begin # 0 BY <1>1 DEF LogOK
    <2> QED BY <1>2, <1>7, <1>10, <1>11, <2>1 DEF DecideInv
  <1> QED BY <1>9, <1>16, <1>17, <1>18 DEF Decisions!Next, Decisions!SeenIndexes, LogIndex

LEMMA AdvanceRefines ==
    ASSUME ProgramInv, ProgramInv', DecideInv, NEW n \in Nodes, advance_finalized_through(n)
    PROVE  DecideInv' /\ Decisions!Next
  <1>1. Typed /\ LogOK /\ LogOK' /\ Tenure BY DEF ProgramInv
  <1>2. UNCHANGED batches BY DEF advance_finalized_through
  <1>3. job[n].phase = "through" BY DEF advance_finalized_through
  <1>4. PICK j \in Job : j = job[n] /\ j # Idle BY <1>3, Submitting
  <1>5. CommitKnown(j) BY <1>3, <1>4, Submitting
  <1>6. j.commit # 0 /\ HasDecision(j.begin, j.commit) BY <1>3, <1>4, <1>5 DEF CommitKnown
  <1>7. PICK d \in Current.decided : d.commit = j.commit BY <1>6 DEF HasDecision
  <1>8. PICK s : s = [Current EXCEPT !.finalized = job[n].commit] OBVIOUS
  <1>9. Current \in DecisionState /\ Len(decisions) \in Nat BY <1>1, CurrentTyped
  <1>10. j.commit \in Nat BY DEF Job
  <1>11. /\ s \in DecisionState /\ s.preparing = Current.preparing /\ s.decided = Current.decided
         /\ s.finalized = j.commit /\ s.executor = Current.executor /\ s.nomination = Current.nomination
    BY <1>4, <1>8, <1>9, <1>10 DEF DecisionState
  <1>12. Submit(n, s) BY <1>8 DEF advance_finalized_through
  <1>13. /\ AppendEntry(n, s) /\ Current.executor = n /\ Current.nomination = j.nomination
         /\ Current.nomination \in 1..LogIndex
         /\ Nominated = [executor |-> n, nomination_log_index |-> Current.nomination]
    BY <1>3, <1>4, <1>12, SubmitFacts
  <1>14. Decisions!NextEntry /\ Current' = s BY <1>1, <1>11, <1>13, EntryNext
  <1>15. Current.finalized <= j.commit BY <1>1, <1>4, <1>6, <1>13 DEF Tenure, InTenure
  <1>16. j.commit <= LastCommit BY <1>7, LastIs
  <1>17. j.commit \in 1..LogIndex
    <2>1. j.commit < Len(decisions) BY <1>1, <1>7 DEF LogOK
    <2> QED BY <1>6, <1>9, <1>10, <2>1 DEF LogIndex
  <1>18. /\ Decided(Current)' = Decided(Current) /\ LastCommit' = LastCommit
         /\ \A e \in Current.decided : Batch(e.begin)' = Batch(e.begin)
    BY <1>1, <1>2, <1>11, <1>14, DecidedStays
  <1>19. Nominated' = Nominated BY <1>11, <1>14 DEF Nominated
  <1>20. Preparing' = Preparing BY <1>2, <1>11, <1>14 DEF Preparing, Batch
  <1>21. Horizon' = Horizon BY <1>2 DEF Horizon
  <1>22. Decisions!FinalizedThrough(n, Current.nomination, j.commit)
    BY <1>11, <1>13, <1>14, <1>15, <1>16, <1>18, <1>19, <1>20, <1>21
    DEF Decisions!FinalizedThrough, Decisions!RequireExecutor, Nominated, Preparing, LastCommit, Horizon
  <1>23. DecideInv' BY <1>2, <1>11, <1>14, <1>18 DEF DecideInv
  <1> QED BY <1>13, <1>17, <1>22, <1>23 DEF Decisions!Next, Decisions!SeenIndexes, LogIndex

(* No two decisions share an invocation, so there are fewer of them than   *)
(* invocations while one is being prepared.                                *)
LEMMA RoomForOne ==
    ASSUME ProgramInv, DecideInv, NEW b \in batches, b.begin = Current.preparing
    PROVE  Cardinality(Decided(Current)) + 1 <= Cardinality(Invocations)
  <1>1. Typed /\ LogOK BY DEF ProgramInv
  <1>2. PICK C : C = Decided(Current) OBVIOUS
  <1>3. PICK T : T = Invocations \ {b.invocation} OBVIOUS
  <1>4. ASSUME NEW c \in C
        PROVE  \E d \in Current.decided :
                 /\ c = [commit_cursor |-> d.commit, begin_cursor |-> d.begin, executor |-> d.executor,
                         nomination_log_index |-> d.nomination,
                         invocation_id |-> Batch(d.begin).invocation, expires |-> 2]
                 /\ c.invocation_id = Batch(d.begin).invocation
    BY <1>2, <1>4 DEF Decided
  <1>5. ASSUME NEW d \in Current.decided PROVE Batch(d.begin).invocation \in T
    <2>1. PICK a \in batches : a.begin = d.begin BY <1>1 DEF LogOK, HasBatch
    <2>2. Batch(d.begin) = a BY <1>1, <2>1, BatchIs
    <2>3. a.invocation \in Invocations BY <1>1, BatchTyped
    <2>4. a.invocation # b.invocation BY <2>2 DEF DecideInv
    <2> QED BY <1>3, <2>2, <2>3, <2>4
  <1>6. PICK f : f = [c \in C |-> c.invocation_id] OBVIOUS
  <1>7. f \in [C -> T] BY <1>4, <1>5, <1>6
  <1>8. ASSUME NEW c \in C, NEW e \in C, f[c] = f[e] PROVE c = e
    BY <1>4, <1>6, <1>8 DEF DecideInv
  <1>9. f \in Injection(C, T) BY <1>7, <1>8 DEF Injection, IsInjective
  <1>10. b.invocation \in Invocations BY <1>1, BatchTyped
  <1>11. IsFiniteSet(T) /\ Cardinality(T) = Cardinality(Invocations) - 1
    BY <1>3, <1>10, LogConstants, FS_RemoveElement
  <1>12. IsFiniteSet(C) /\ Cardinality(C) <= Cardinality(T) BY <1>9, <1>11, FS_Injection
  <1>13. Cardinality(C) \in Nat /\ Cardinality(T) \in Nat /\ Cardinality(Invocations) \in Nat
    BY <1>11, <1>12, LogConstants, FS_CardinalityType
  <1> QED BY <1>2, <1>11, <1>12, <1>13

LEMMA CommitRefines ==
    ASSUME ProgramInv, ProgramInv', DecideInv, NEW n \in Nodes, CommitPreparedBatch(n)
    PROVE  DecideInv' /\ Decisions!Next
  <1>1. Typed /\ LogOK /\ LogOK' BY DEF ProgramInv
  <1>2. UNCHANGED batches BY DEF CommitPreparedBatch
  <1>3. job[n].phase = "decide" /\ Current.preparing = job[n].begin BY DEF CommitPreparedBatch
  <1>4. PICK j \in Job : j = job[n] BY <1>3, Submitting
  <1>5. PICK b \in batches : b.begin = Current.preparing BY <1>3, Submitting
  <1>6. PICK d : d = [begin |-> job[n].begin, commit |-> NextIndex, executor |-> n, nomination |-> job[n].nomination]
    OBVIOUS
  <1>7. PICK s : s = [Current EXCEPT !.preparing = 0, !.decided = @ \cup {d}] OBVIOUS
  <1>8. Current \in DecisionState /\ Len(decisions) \in Nat BY <1>1, CurrentTyped
  <1>9. d \in Decision
    <2>1. j.begin \in Nat /\ j.nomination \in Nat BY DEF Job
    <2> QED BY <1>4, <1>6, <1>8, <2>1 DEF Decision, NextIndex
  <1>10. /\ s \in DecisionState /\ s.preparing = 0 /\ s.decided = Current.decided \cup {d}
         /\ s.finalized = Current.finalized /\ s.executor = Current.executor /\ s.nomination = Current.nomination
    BY <1>7, <1>8, <1>9 DEF DecisionState
  <1>11. Submit(n, s) BY <1>6, <1>7 DEF CommitPreparedBatch
  <1>12. /\ AppendEntry(n, s) /\ Current.executor = n /\ Current.nomination = job[n].nomination
         /\ Current.nomination \in 1..LogIndex
         /\ Nominated = [executor |-> n, nomination_log_index |-> Current.nomination]
    BY <1>3, <1>11, SubmitFacts
  <1>13. Decisions!NextEntry /\ Current' = s /\ LogIndex' = Len(decisions)
    BY <1>1, <1>10, <1>12, EntryNext
  <1>14. d.begin = b.begin /\ d.commit = Len(decisions) /\ d.executor = n /\ d.nomination = Current.nomination
    BY <1>3, <1>5, <1>6, <1>12 DEF NextIndex
  <1>15. Batch(b.begin) = b BY <1>1, BatchIs
  <1>16. PICK inv : inv = [commit_cursor |-> LogIndex', begin_cursor |-> b.begin, executor |-> n,
                           nomination_log_index |-> Current.nomination,
                           invocation_id |-> b.invocation, expires |-> 2]
    OBVIOUS
  <1>17. \A e : Batch(e)' = Batch(e) BY <1>2 DEF Batch
  <1>18. Decided(Current)' = Decided(Current) \cup {inv}
    <2>1. Decided(Current)' = {[commit_cursor |-> e.commit, begin_cursor |-> e.begin, executor |-> e.executor,
             nomination_log_index |-> e.nomination, invocation_id |-> Batch(e.begin).invocation,
             expires |-> 2] : e \in Current.decided \cup {d}}
      BY <1>10, <1>13, <1>17 DEF Decided
    <2>2. inv = [commit_cursor |-> d.commit, begin_cursor |-> d.begin, executor |-> d.executor,
                 nomination_log_index |-> d.nomination, invocation_id |-> Batch(d.begin).invocation,
                 expires |-> 2]
      BY <1>13, <1>14, <1>15, <1>16
    <2> QED BY <2>1, <2>2 DEF Decided
  <1>19. \A e \in Current.decided : e.commit \in Nat /\ e.commit < Len(decisions) BY <1>1, CurrentKnown
  <1>20. LastCommit' = LogIndex'
    <2>1. PICK S : S = {e.commit : e \in Current.decided \cup {d}} \cup {0} OBVIOUS
    <2>2. LastCommit' = Max(S) BY <1>10, <1>13, <2>1 DEF LastCommit
    <2>3. Len(decisions) \in S /\ \A y \in S : y \in Nat /\ Len(decisions) >= y
      BY <1>8, <1>14, <1>19, <2>1
    <2>4. \A x \in S : (\A y \in S : x >= y) => x = Len(decisions) BY <1>8, <2>3
    <2>5. Max(S) = Len(decisions) BY <2>3, <2>4 DEF Max
    <2> QED BY <1>13, <2>2, <2>5
  <1>21. LogIndex' > LastCommit /\ LogIndex' > Current.finalized
    <2>1. LastCommit \in Nat /\ LastCommit < Len(decisions) BY LastIs
    <2>2. Current.finalized \in Nat /\ Current.finalized < Len(decisions) BY <1>1, CurrentKnown
    <2> QED BY <1>8, <1>13, <2>1, <2>2
  <1>22. Decisions!WindowsHaveRoom
    <2>1. Cardinality(Decided(Current)) + 1 <= Cardinality(Invocations) BY <1>5, RoomForOne
    <2>2. Current.preparing # 0 BY <1>1, <1>5 DEF LogOK
    <2>3. Unfinalized(Current) = {} BY <1>1, <2>2 DEF LogOK
    <2>4. Decisions!Unfinalized = {}
      <3>1. \A c \in Decided(Current) : \E e \in Current.decided : c.commit_cursor = e.commit BY DEF Decided
      <3>2. \A e \in Current.decided : ~(e.commit > Current.finalized) BY <2>3 DEF Unfinalized
      <3> QED BY <3>1, <3>2 DEF Decisions!Unfinalized
    <2>5. Cardinality(Decisions!Unfinalized) = 0 BY <2>4, FS_EmptySet
    <2> QED BY <2>1, <2>5, SameCardinality DEF Decisions!WindowsHaveRoom
  <1>23. Nominated' = Nominated BY <1>10, <1>13 DEF Nominated
  <1>24. Preparing' = None BY <1>10, <1>13 DEF Preparing
  <1>25. Horizon' = Horizon BY <1>2 DEF Horizon
  <1>26. PICK P : P = Preparing OBVIOUS
  <1>27. /\ P # None /\ P.begin_cursor = b.begin /\ P.executor = n
         /\ P.nomination_log_index = Current.nomination /\ P.invocation_id = b.invocation /\ P.expires = 2
         /\ b.begin \in 1..LogIndex /\ b.invocation \in Invocations
    BY <1>5, <1>12, <1>26, PreparingIs
  <1>28. Decisions!CommitPreparedBatch(n, Current.nomination, b.begin, b.invocation)
    BY <1>10, <1>12, <1>13, <1>16, <1>18, <1>20, <1>21, <1>22, <1>23, <1>24, <1>25, <1>26, <1>27, SameNobody
    DEF Decisions!CommitPreparedBatch, Decisions!RequireExecutor, Nominated, Preparing, LastCommit, Horizon, LogIndex
  <1>29. DecideInv'
    <2>1. \A a \in batches' : a.begin # 0 BY <1>1 DEF LogOK
    <2>2. \A e \in Current.decided : Batch(e.begin).invocation # b.invocation BY <1>5 DEF DecideInv
    <2>3. \A e, g \in Current.decided \cup {d} : Batch(e.begin).invocation = Batch(g.begin).invocation => e = g
      BY <1>14, <1>15, <2>2 DEF DecideInv
    <2>4. \A e \in Current.decided \cup {d} : e.commit <= d.commit BY <1>8, <1>14, <1>19
    <2>5. d \in Current.decided \cup {d} OBVIOUS
    <2>6. (Current').executor # None => (Current').nomination # 0 BY <1>10, <1>13 DEF DecideInv
    <2> QED BY <1>2, <1>10, <1>13, <1>17, <2>1, <2>3, <2>4, <2>5, <2>6 DEF DecideInv
  <1> QED BY <1>12, <1>27, <1>28, <1>29 DEF Decisions!Next, Decisions!SeenIndexes, LogIndex

LEMMA InvokeRefines ==
    ASSUME ProgramInv, ProgramInv', DecideInv, NEW n \in Nodes, NEW i \in Invocations, invoke_distributed(n, i)
    PROVE  DecideInv' /\ Decisions!Next
  <1>1. Typed /\ LogOK /\ LogOK' BY DEF ProgramInv
  <1>2. PICK s, nb : Begins(n, i, s, nb) BY InvokeBegins
  <1>3. Current.preparing = 0 /\ Current.executor = n BY InvokeBegins
  <1>4. Current \in DecisionState /\ Len(decisions) \in Nat /\ Len(decisions) # 0 BY <1>1, CurrentTyped
  <1>5. /\ s = [Current EXCEPT !.preparing = Len(decisions)] /\ AppendEntry(n, s)
        /\ nb.begin = Len(decisions) /\ nb.invocation = i /\ batches' = batches \cup {nb}
    BY <1>2 DEF Begins
  <1>6. /\ s \in DecisionState /\ s.preparing = Len(decisions) /\ s.decided = Current.decided
        /\ s.finalized = Current.finalized /\ s.executor = Current.executor /\ s.nomination = Current.nomination
    BY <1>4, <1>5 DEF DecisionState
  <1>7. Decisions!NextEntry /\ Current' = s /\ LogIndex' = Len(decisions) BY <1>1, <1>5, <1>6, EntryNext
  <1>8. \A d \in Current.decided : Batch(d.begin).invocation # i BY DEF invoke_distributed
  <1>9. /\ Decided(Current)' = Decided(Current) /\ LastCommit' = LastCommit
        /\ \A d \in Current.decided : Batch(d.begin)' = Batch(d.begin)
    BY <1>1, <1>5, <1>6, <1>7, DecidedStays
  <1>10. Current.nomination \in 1..LogIndex
         /\ Nominated = [executor |-> n, nomination_log_index |-> Current.nomination]
    <2>1. n # None BY LogConstants
    <2>2. Current.nomination # 0 BY <1>3, <2>1 DEF DecideInv
    <2>3. Current.nomination \in Nat /\ Current.nomination < Len(decisions) BY <1>1, CurrentKnown
    <2> QED BY <1>3, <1>4, <2>1, <2>2, <2>3 DEF LogIndex, Nominated
  <1>11. Nominated' = Nominated BY <1>6, <1>7 DEF Nominated
  <1>12. Preparing = None BY <1>3 DEF Preparing
  <1>13. Preparing' = [begin_cursor |-> LogIndex', executor |-> n,
                       nomination_log_index |-> Current.nomination, invocation_id |-> i, expires |-> 2]
    <2>1. nb \in batches' /\ \A a \in batches' : a.begin = nb.begin => a = nb BY <1>1, <1>5 DEF LogOK
    <2>2. (CHOOSE a \in batches' : a.begin = nb.begin) = nb BY <2>1
    <2>3. Batch(Current.preparing)' = nb BY <1>5, <1>6, <1>7, <2>2 DEF Batch
    <2> QED BY <1>3, <1>4, <1>5, <1>6, <1>7, <2>3 DEF Preparing
  <1>14. Decisions!ExpiredFinalized(1) = {}
    <2>1. \A c \in Decided(Current) : c.expires = 2 BY DEF Decided
    <2> QED BY <2>1 DEF Decisions!ExpiredFinalized
  <1>15. \A c \in Decided(Current) : c.invocation_id # i BY <1>8 DEF Decided
  <1>16. Horizon' = IF 1 > Horizon THEN 1 ELSE Horizon
    <2>1. batches' # {} BY <1>5
    <2>2. Horizon' = 1 /\ Horizon \in {0, 1} BY <2>1 DEF Horizon
    <2> QED BY <2>2
  <1>17. Decisions!ReplayExpiry(1) = 2 BY DEF Decisions!ReplayExpiry
  <1>18. Decisions!BeginBatch(n, Current.nomination, i, 1)
    BY <1>6, <1>7, <1>9, <1>10, <1>11, <1>12, <1>13, <1>14, <1>15, <1>16, <1>17, SameNobody
    DEF Decisions!BeginBatch, Decisions!RequireExecutor, Nominated, Preparing, LastCommit, Horizon, LogIndex
  <1>19. 1 \in Decisions!Times BY DEF Decisions!Times
  <1>20. DecideInv'
    <2>1. \A b \in batches' : b.begin = Len(decisions) => b.invocation = i
      BY <1>1, <1>5 DEF LogOK
    <2> QED BY <1>6, <1>7, <1>8, <1>9, <2>1 DEF DecideInv
  <1> QED BY <1>10, <1>18, <1>19, <1>20 DEF Decisions!Next, Decisions!SeenIndexes, LogIndex

(* The mapped state depends on decisions and batches alone.                *)
LEMMA DecideStays == DecideInv /\ UNCHANGED <<decisions, batches>> => DecideInv'
  <1> SUFFICES ASSUME DecideInv, UNCHANGED <<decisions, batches>> PROVE DecideInv' OBVIOUS
  <1>1. Current' = Current BY DEF Current
  <1>2. \A e : Batch(e)' = Batch(e) BY DEF Batch
  <1> QED BY <1>1, <1>2 DEF DecideInv

LEMMA LogNext ==
    ASSUME ProgramInv, ProgramInv', DecideInv, [Next]_vars
    PROVE  DecideInv' /\ (UNCHANGED <<decisions, batches>> \/ Decisions!Next)
  <1>1. CASE UNCHANGED <<decisions, batches>> BY <1>1, DecideStays
  <1>2. CASE \E n \in Nodes : NominateExecutor(n) BY <1>2, NominateRefines
  <1>3. CASE \E n \in Nodes, i \in Invocations : invoke_distributed(n, i) BY <1>3, InvokeRefines
  <1>4. CASE \E n \in Nodes : CommitPreparedBatch(n) BY <1>4, CommitRefines
  <1>5. CASE \E n \in Nodes : AbortPreparedBatch(n) BY <1>5, AbortRefines
  <1>6. CASE \E n \in Nodes : advance_finalized_through(n) BY <1>6, AdvanceRefines
  <1>7. CASE \E n \in Nodes : ApplyEntry(n) \/ recover_distributed_tail_locked(n) \/ stage_prepared(n)
    BY <1>1, <1>7 DEF ApplyEntry, recover_distributed_tail_locked, stage_prepared
  <1>8. CASE \E n \in Nodes : SubmitRejected(n) \/ Abandon(n) \/ ExecuteLocal(n)
    BY <1>1, <1>8 DEF SubmitRejected, Abandon, ExecuteLocal
  <1>9. CASE \E n \in Nodes : SweepRead(n) \/ SweepList(n) \/ SweepRelease(n)
    BY <1>1, <1>9 DEF SweepRead, SweepList, SweepRelease
  <1>10. CASE \/ \E n \in Nodes, v \in DOMAIN versions : OrdinaryApply(n, v)
              \/ \E n \in Nodes, p \in Paths, v \in DOMAIN versions : Repair(n, p, v)
              \/ \E p \in Paths : OrdinaryWrite(p)
    BY <1>1, <1>10 DEF OrdinaryApply, Repair, OrdinaryWrite
  <1>11. CASE \E q \in wire : TimeOut(q) \/ Admit(q) \/ Refuse(q) \/ Execute(q)
    BY <1>1, <1>11 DEF TimeOut, Admit, Refuse, Execute
  <1>12. CASE UNCHANGED vars BY <1>1, <1>12 DEF vars
  <1> QED
    BY <1>2, <1>3, <1>4, <1>5, <1>6, <1>7, <1>8, <1>9, <1>10, <1>11, <1>12 DEF Next

LEMMA LogInit == Init => DecideInv /\ Decisions!Init
  <1> SUFFICES ASSUME Init PROVE DecideInv /\ Decisions!Init OBVIOUS
  <1>1. /\ Len(decisions) = 1 /\ Current.executor = None /\ Current.nomination = 0
        /\ Current.preparing = 0 /\ Current.decided = {} /\ Current.finalized = 0
    BY DEF Init, Current
  <1>2. DecideInv BY <1>1 DEF DecideInv
  <1>3. Decided(Current) = {} BY <1>1 DEF Decided
  <1>4. LastCommit = 0
    <2>1. {d.commit : d \in Current.decided} \cup {0} = {0} BY <1>1
    <2>2. Max({0}) = 0
      <3>1. 0 \in {0} /\ \A y \in {0} : 0 >= y OBVIOUS
      <3>2. \A x \in {0} : x = 0 OBVIOUS
      <3> QED BY <3>1, <3>2 DEF Max
    <2> QED BY <2>1, <2>2 DEF LastCommit
  <1>5. batches = {} BY DEF Init
  <1>6. Decisions!Init
    BY <1>1, <1>3, <1>4, <1>5, SameNobody DEF Decisions!Init, LastCommit
  <1> QED BY <1>2, <1>6

(* For every number of paths, programs and log entries: whatever           *)
(* executors, sweeps and delayed requests do, the log is one the decision  *)
(* state machine accepts, entry by entry, with room for one unfinalized    *)
(* decision, so no executor begins a batch before the previous one is      *)
(* finalized and no invocation is decided twice                            *)
(* (invoke_distributed, CommitPreparedBatch,                               *)
(* recover_distributed_tail_locked, advance_finalized_through).            *)
THEOREM LogIsDecisionMachine == Spec => DecisionsRefined
  <1>1. ProgramInv /\ [Next]_vars => ProgramInv' BY NextLemma
  <1>2. ProgramInv /\ ProgramInv' /\ DecideInv /\ [Next]_vars
        => DecideInv' /\ [UNCHANGED <<decisions, batches>> \/ Decisions!Next]_vars
    BY LogNext
  <1> QED BY <1>1, <1>2, InitLemma, LogInit, PTL DEF Spec, DecisionsRefined

-----------------------------------------------------------------------------
(* Types.  Every log index that a job, a request or a reservation names is *)
(* one of the log, and the nomination it was made under is a real one.     *)

NamesNomination(x) == x.nomination # 0 /\ x.nomination < Len(decisions)

LogNamed ==
    /\ Len(decisions) <= MaxLog + 1
    /\ \A k \in 1..Len(decisions) : decisions[k].executor # None => decisions[k].nomination # 0

FencesNamed ==
    \A n \in Nodes, p \in Paths : reserved[n][p] # None =>
        NamesNomination(reserved[n][p]) /\ reserved[n][p].commit < Len(decisions)

NameInv ==
    /\ LogNamed /\ FencesNamed
    /\ \A n \in Nodes : job[n] # Idle => job[n].nomination # 0
    /\ \A q \in wire : NamesNomination(q)

(* What a step owes to names: a job goes on under its nomination, or has a *)
(* real one; a late request was one before.                                *)
JobsNamed ==
    \A n \in Nodes : job'[n] # Idle =>
        \/ job[n] # Idle /\ job'[n].nomination = job[n].nomination
        \/ job'[n].nomination # 0

LateNamed == \A q \in wire' : q.late => \E r \in wire : r.nomination = q.nomination

FencesFollow ==
    \A n \in Nodes, p \in Paths : reserved'[n][p] # None =>
        \/ reserved'[n][p] = reserved[n][p]
        \/ NamesNomination(reserved'[n][p]) /\ reserved'[n][p].commit < Len(decisions)

LEMMA NamesStep ==
    ASSUME ProgramInv, ProgramInv', FenceInv', NameInv, Len(decisions) <= Len(decisions'), LogNamed',
           JobsNamed, LateNamed, FencesFollow
    PROVE  NameInv'
  <1>1. Typed /\ Typed' /\ Tenure' /\ WireOK' /\ FencesTyped' BY DEF ProgramInv, FenceInv
  <1>2. Len(decisions) \in Nat /\ Len(decisions') \in Nat BY <1>1 DEF Typed
  <1>3. \A n \in Nodes : job'[n] # Idle => job'[n].nomination # 0 BY DEF NameInv, JobsNamed
  <1>4. ASSUME NEW q \in wire' PROVE NamesNomination(q)'
    <2>1. q \in Message BY <1>1 DEF Typed
    <2>2. q.nomination \in Nat /\ q.from \in Nodes BY <2>1 DEF Message
    <2>3. CASE q.late
      <3>1. PICK r \in wire : r.nomination = q.nomination BY <2>3 DEF LateNamed
      <3>2. r.nomination # 0 /\ r.nomination < Len(decisions) BY DEF NameInv, NamesNomination
      <3> QED BY <1>2, <2>2, <3>1, <3>2 DEF NamesNomination
    <2>4. CASE ~q.late
      <3>1. job'[q.from] # Idle /\ q.nomination = job'[q.from].nomination
        BY <1>1, <2>4 DEF WireOK, OfRound
      <3>2. job'[q.from].nomination < Len(decisions') BY <1>1, <2>2, <3>1 DEF Tenure, InTenure
      <3> QED BY <1>3, <2>2, <3>1, <3>2 DEF NamesNomination
    <2> QED BY <2>3, <2>4
  <1>5. ASSUME NEW n \in Nodes, NEW p \in Paths, reserved'[n][p] # None
        PROVE  NamesNomination(reserved[n][p])' /\ reserved'[n][p].commit < Len(decisions')
    <2>1. reserved'[n][p] \in Reservation BY <1>1, <1>5 DEF FencesTyped
    <2>2. reserved'[n][p].nomination \in Nat /\ reserved'[n][p].commit \in Nat BY <2>1 DEF Reservation
    <2>3. /\ reserved'[n][p].nomination # 0 /\ reserved'[n][p].nomination < Len(decisions)
          /\ reserved'[n][p].commit < Len(decisions)
      BY <1>5 DEF FencesFollow, NameInv, FencesNamed, NamesNomination
    <2> QED BY <1>2, <2>2, <2>3 DEF NamesNomination
  <1>6. FencesNamed' BY <1>5 DEF FencesNamed
  <1> QED BY <1>3, <1>4, <1>6 DEF NameInv

(* A step that leaves the log alone.                                       *)
LEMMA NamesQuiet ==
    ASSUME ProgramInv, ProgramInv', FenceInv', NameInv, decisions' = decisions,
           JobsNamed, LateNamed, FencesFollow
    PROVE  NameInv'
  <1>1. LogNamed' BY DEF NameInv, LogNamed
  <1>2. Len(decisions) \in Nat BY DEF ProgramInv, Typed
  <1>3. Len(decisions) <= Len(decisions') BY <1>2
  <1> QED BY <1>1, <1>3, NamesStep

(* A step that appends to it.                                              *)
LEMMA NamesEntry ==
    ASSUME ProgramInv, ProgramInv', FenceInv', NameInv, NEW n \in Nodes, NEW s \in DecisionState,
           AppendEntry(n, s), s.executor # None => s.nomination # 0, UNCHANGED reserved,
           JobsNamed, LateNamed
    PROVE  NameInv'
  <1>1. Typed BY DEF ProgramInv
  <1>2. Len(decisions) \in Nat BY <1>1 DEF Typed
  <1>3. /\ Len(decisions') = Len(decisions) + 1
        /\ \A k \in 1..Len(decisions) : decisions'[k] = decisions[k]
        /\ decisions'[Len(decisions) + 1] = s
    BY <1>1, Appended
  <1>4. Len(decisions) <= MaxLog /\ MaxLog \in Nat BY LogConstants DEF AppendEntry, NextIndex
  <1>5. Len(decisions') <= MaxLog + 1 /\ Len(decisions) <= Len(decisions') BY <1>2, <1>3, <1>4
  <1>6. ASSUME NEW k \in 1..Len(decisions'), decisions'[k].executor # None
        PROVE  decisions'[k].nomination # 0
    <2>1. k \in 1..Len(decisions) \/ k = Len(decisions) + 1 BY <1>2, <1>3
    <2> QED BY <1>3, <1>6, <2>1 DEF NameInv, LogNamed
  <1>7. LogNamed' BY <1>5, <1>6 DEF LogNamed
  <1>8. FencesFollow BY DEF FencesFollow
  <1> QED BY <1>5, <1>7, <1>8, NamesStep

(* What is new on the wire is not late.                                    *)
LEMMA ContinueLate ==
    ASSUME NEW n, NEW j, NEW rest, Continue(n, j, rest)
    PROVE  \A q \in wire' : q.late => q \in rest
  <1>1. PICK to : wire' = rest \cup {Request(n, j, r) : r \in to \ {n}} BY DEF Continue
  <1>2. \A r : ~Request(n, j, r).late BY DEF Request
  <1> QED BY <1>1, <1>2

LEMMA AnsweredLate ==
    ASSUME NEW n, NEW r, NEW outcome, NEW rest, Answered(n, r, outcome, rest)
    PROVE  \A q \in wire' : q.late => q \in rest
  <1>1. PICK x : apply_reservation_operation(n, x, rest) BY DEF Answered
  <1>2. CASE wire' = rest BY <1>2
  <1>3. CASE \E y : Continue(n, y, rest) BY <1>3, ContinueLate
  <1>4. \/ wire' = rest \/ Continue(n, [x EXCEPT !.round = @ + 1], rest)
        \/ Stop(n, rest) \/ Enter(n, [x EXCEPT !.kind = NextKind(x)], NextPhase(x), rest)
        \/ Enter(n, x, "abort", rest)
    BY <1>1, Zenon DEF apply_reservation_operation
  <1> QED BY <1>2, <1>3, <1>4, Zenon DEF Enter, Stop

LEMMA FollowsNamed ==
    ASSUME JobsFollow
    PROVE  JobsNamed
  BY DEF JobsFollow, JobsNamed

LEMMA SameWire ==
    ASSUME wire' \subseteq wire
    PROVE  LateNamed
  BY DEF LateNamed

LEMMA ViewNamed ==
    ASSUME Typed, LogNamed, NEW n \in Nodes, View(n).executor = n
    PROVE  View(n).nomination # 0
  <1>1. applied[n] \in Nat /\ applied[n] < Len(decisions) /\ Len(decisions) \in Nat BY DEF Typed
  <1>2. applied[n] + 1 \in 1..Len(decisions) BY <1>1
  <1>3. n # None BY LogConstants
  <1> QED BY <1>2, <1>3 DEF View, LogNamed

LEMMA CurrentNamed ==
    ASSUME Typed, LogNamed, Current.executor # None
    PROVE  Current.nomination # 0
  <1>1. Len(decisions) \in 1..Len(decisions) BY CurrentTyped
  <1> QED BY <1>1 DEF Current, LogNamed

-----------------------------------------------------------------------------
(* Jobs that take no part in the log. *)

LEMMA RecoverNames ==
    ASSUME ProgramInv, ProgramInv', FenceInv', NameInv, NEW n \in Nodes, recover_distributed_tail_locked(n)
    PROVE  NameInv'
  <1>1. Typed /\ LogOK /\ LogNamed BY DEF ProgramInv, NameInv
  <1>2. UNCHANGED <<decisions, reserved>> BY DEF recover_distributed_tail_locked, store
  <1>3. View(n).executor = n BY DEF recover_distributed_tail_locked, MayExecute
  <1>4. PICK s \in DecisionState : s = View(n) BY <1>1, ViewKnown
  <1>5. s.nomination # 0 BY <1>1, <1>3, <1>4, ViewNamed
  <1>6. s.preparing \in Nat /\ s.nomination \in Nat /\ s.decided \subseteq Decision BY DEF DecisionState
  <1>7. job \in [Nodes -> Job \cup {Idle}] BY <1>1 DEF Typed
  <1>8. JobsNamed /\ LateNamed
    <2>1. CASE s.preparing # 0
      <3>1. PICK phase \in {"stage", "abandon"} :
              job' = [job EXCEPT ![n] = NewJob("recover", phase, s.preparing, s.nomination, 0)]
        BY <1>4, <2>1 DEF recover_distributed_tail_locked
      <3>2. wire' = wire BY <1>4, <2>1 DEF recover_distributed_tail_locked
      <3>3. PICK x : x = NewJob("recover", phase, s.preparing, s.nomination, 0) OBVIOUS
      <3>4. x.nomination = s.nomination BY <3>3 DEF NewJob
      <3>5. job'[n] = x /\ \A m \in Nodes \ {n} : job'[m] = job[m] BY <1>7, <3>1, <3>3
      <3>6. JobsNamed BY <1>5, <3>4, <3>5 DEF JobsNamed
      <3> QED BY <3>2, <3>6, SameWire
    <2>2. CASE s.preparing = 0
      <3>1. PICK d \in Unfinalized(s) :
              Continue(n, NewJob("tail", "reserve", d.begin, s.nomination, d.commit), wire)
        BY <1>4, <2>2 DEF recover_distributed_tail_locked
      <3>2. d \in Decision BY <1>6 DEF Unfinalized
      <3>3. d.begin \in Nat /\ d.commit \in Nat BY <3>2 DEF Decision
      <3>4. PICK x : x = NewJob("tail", "reserve", d.begin, s.nomination, d.commit) OBVIOUS
      <3>5. x \in Job /\ x.nomination = s.nomination BY <1>6, <3>3, <3>4 DEF NewJob, Job, Phases
      <3>6. PICK to : job' = [job EXCEPT ![n] = [x EXCEPT !.waiting = to, !.acks = 0, !.rejections = 0]]
        BY <3>1, <3>4 DEF Continue
      <3>7. PICK y : y = [x EXCEPT !.waiting = to, !.acks = 0, !.rejections = 0] OBVIOUS
      <3>8. y.nomination = s.nomination BY <3>5, <3>7 DEF Job
      <3>9. job'[n] = y /\ \A m \in Nodes \ {n} : job'[m] = job[m] BY <1>7, <3>6, <3>7
      <3>10. JobsNamed BY <1>5, <3>8, <3>9 DEF JobsNamed
      <3>11. \A q \in wire' : q.late => q \in wire BY <3>1, ContinueLate
      <3>12. LateNamed BY <3>11 DEF LateNamed
      <3> QED BY <3>10, <3>12
    <2> QED BY <2>1, <2>2
  <1>9. FencesFollow BY <1>2 DEF FencesFollow
  <1> QED BY <1>2, <1>8, <1>9, NamesQuiet

(* A job enters a phase.                                                   *)
LEMMA EnterNamed ==
    ASSUME Typed, NEW n \in Nodes, NEW j \in Job, NEW phase \in Phases, job[n] # Idle,
           j.nomination = job[n].nomination, j.nomination # 0, Enter(n, j, phase, wire)
    PROVE  JobsNamed /\ LateNamed
  <1>1. PICK x : x = [j EXCEPT !.phase = phase, !.round = 1] OBVIOUS
  <1>2. Continue(n, x, wire) BY <1>1 DEF Enter
  <1>3. x \in Job /\ x.nomination = j.nomination BY <1>1 DEF Job
  <1>4. PICK to : job' = [job EXCEPT ![n] = [x EXCEPT !.waiting = to, !.acks = 0, !.rejections = 0]]
    BY <1>2 DEF Continue
  <1>5. PICK y : y = [x EXCEPT !.waiting = to, !.acks = 0, !.rejections = 0] OBVIOUS
  <1>6. y.nomination = j.nomination BY <1>3, <1>5 DEF Job
  <1>7. job \in [Nodes -> Job \cup {Idle}] BY DEF Typed
  <1>8. job'[n] = y /\ \A m \in Nodes \ {n} : job'[m] = job[m] BY <1>4, <1>5, <1>7
  <1>9. JobsNamed BY <1>6, <1>8 DEF JobsNamed
  <1>10. \A q \in wire' : q.late => q \in wire BY <1>2, ContinueLate
  <1> QED BY <1>9, <1>10 DEF LateNamed

LEMMA StopNamed ==
    ASSUME Typed, NEW n \in Nodes, Stop(n, wire)
    PROVE  JobsNamed /\ LateNamed
  <1>1. JobsFollow BY StopFollows
  <1>2. wire' = wire BY DEF Stop
  <1> QED BY <1>1, <1>2, FollowsNamed, SameWire

LEMMA StageNames ==
    ASSUME ProgramInv, ProgramInv', FenceInv', NameInv, NEW n \in Nodes,
           stage_prepared(n) \/ SubmitRejected(n)
    PROVE  NameInv'
  <1>1. Typed BY DEF ProgramInv
  <1>2. UNCHANGED <<decisions, reserved>> BY DEF stage_prepared, SubmitRejected, store
  <1>3. FencesFollow BY <1>2 DEF FencesFollow
  <1>4. CASE Stop(n, wire) BY <1>1, <1>2, <1>3, <1>4, StopNamed, NamesQuiet
  <1>5. ASSUME NEW phase \in {"reserve", "abandon"}, job[n].phase = "stage", Enter(n, job[n], phase, wire)
        PROVE  NameInv'
    <2>1. job[n] # Idle BY <1>5 DEF Idle
    <2>2. PICK j \in Job : j = job[n] BY <1>1, <2>1 DEF Typed
    <2>3. j.nomination # 0 BY <2>1, <2>2 DEF NameInv
    <2>4. phase \in Phases BY DEF Phases
    <2>5. JobsNamed /\ LateNamed BY <1>1, <1>5, <2>1, <2>2, <2>3, <2>4, EnterNamed
    <2> QED BY <1>2, <1>3, <2>5, NamesQuiet
  <1>6. \/ Stop(n, wire)
        \/ job[n].phase = "stage" /\ \E phase \in {"reserve", "abandon"} : Enter(n, job[n], phase, wire)
    BY DEF stage_prepared, SubmitRejected
  <1> QED BY <1>4, <1>5, <1>6

LEMMA AbandonNames ==
    ASSUME ProgramInv, ProgramInv', FenceInv', NameInv, NEW n \in Nodes, Abandon(n)
    PROVE  NameInv'
  <1>1. Typed /\ WireOK BY DEF ProgramInv
  <1>2. UNCHANGED <<decisions, reserved>> BY DEF Abandon, store
  <1>3. FencesFollow BY <1>2 DEF FencesFollow
  <1> DEFINE live == {q \in wire : q.from = n /\ ~q.late}
             rest == (wire \ live) \cup {[q EXCEPT !.late = TRUE] : q \in live}
  <1>4. Stop(n, rest) BY DEF Abandon
  <1>5. \A m \in rest : \E r \in wire : r.nomination = m.nomination
    <2>1. ASSUME NEW q \in live PROVE [q EXCEPT !.late = TRUE].nomination = q.nomination
      <3>1. q \in Message BY <1>1 DEF Typed
      <3> QED BY <3>1 DEF Message
    <2> QED BY <2>1
  <1>6. LateNamed BY <1>4, <1>5 DEF LateNamed, Stop
  <1> HIDE DEF rest
  <1>7. JobsNamed BY <1>1, <1>4, StopFollows, FollowsNamed
  <1> QED BY <1>2, <1>3, <1>6, <1>7, NamesQuiet

LEMMA TimeOutNames ==
    ASSUME ProgramInv, ProgramInv', FenceInv', NameInv, NEW q \in wire, TimeOut(q)
    PROVE  NameInv'
  <1>1. Typed /\ LogOK /\ JobsOK /\ WireOK BY DEF ProgramInv
  <1>2. UNCHANGED <<decisions, reserved>> BY DEF TimeOut, store
  <1>3. FencesFollow BY <1>2 DEF FencesFollow
  <1>4. ~q.late BY DEF TimeOut
  <1>5. PICK n \in Nodes : n = q.from BY <1>1, <1>4, LiveRequest
  <1>6. job[n] \in Job BY <1>1, <1>4, <1>5, LiveRequest
  <1>7. PICK rest : rest = (wire \ {q}) \cup {[q EXCEPT !.late = TRUE]} OBVIOUS
  <1>8. PICK outcome, r : outcome = "unavailable" /\ r = q.to OBVIOUS
  <1>9. Answered(n, r, outcome, rest) BY <1>5, <1>7, <1>8 DEF TimeOut
  <1>10. JobsNamed BY <1>1, <1>6, <1>9, AnsweredFollows, FollowsNamed
  <1>11. \A m \in wire' : m.late => m \in rest BY <1>9, AnsweredLate
  <1>12. [q EXCEPT !.late = TRUE].nomination = q.nomination
    <2>1. q \in Message BY <1>1 DEF Typed
    <2> QED BY <2>1 DEF Message
  <1>13. LateNamed BY <1>7, <1>11, <1>12 DEF LateNamed
  <1> QED BY <1>2, <1>3, <1>10, <1>13, NamesQuiet

LEMMA ReplyNamed ==
    ASSUME Typed, LogOK, JobsOK, WireOK, NEW q \in wire, NEW outcome, Reply(q, outcome)
    PROVE  JobsNamed /\ LateNamed
  <1>1. JobsNamed BY ReplyFollows, FollowsNamed
  <1>2. PICK rest, n, r : rest = wire \ {q} /\ n = q.from /\ r = q.to OBVIOUS
  <1>3. wire' = rest \/ Answered(n, r, outcome, rest) BY <1>2 DEF Reply
  <1>4. \A m \in wire' : m.late => m \in rest BY <1>3, AnsweredLate
  <1>5. LateNamed BY <1>2, <1>4 DEF LateNamed
  <1> QED BY <1>1, <1>5

LEMMA AdmitNames ==
    ASSUME ProgramInv, ProgramInv', FenceInv', NameInv, NEW q \in wire, Admit(q) \/ Refuse(q)
    PROVE  NameInv'
  <1>1. Typed /\ LogOK /\ JobsOK /\ WireOK BY DEF ProgramInv
  <1>2. UNCHANGED <<decisions, reserved>> BY DEF Admit, Refuse, store
  <1>3. FencesFollow BY <1>2 DEF FencesFollow
  <1>4. CASE Admit(q)
    <2>1. UNCHANGED job /\ wire' = (wire \ {q}) \cup {[q EXCEPT !.admitted = TRUE]} BY <1>4 DEF Admit
    <2>2. [q EXCEPT !.admitted = TRUE].nomination = q.nomination
      <3>1. q \in Message BY <1>1 DEF Typed
      <3> QED BY <3>1 DEF Message
    <2>3. LateNamed BY <2>1, <2>2 DEF LateNamed
    <2>4. JobsNamed BY <2>1 DEF JobsNamed
    <2> QED BY <1>2, <1>3, <2>3, <2>4, NamesQuiet
  <1>5. CASE Refuse(q)
    <2>1. PICK outcome : Reply(q, outcome) BY <1>5 DEF Refuse
    <2>2. JobsNamed /\ LateNamed BY <1>1, <2>1, ReplyNamed
    <2> QED BY <1>2, <1>3, <2>2, NamesQuiet
  <1> QED BY <1>4, <1>5

-----------------------------------------------------------------------------
(* The store, and the sweep. *)

LEMMA StoreNamed ==
    ASSUME Typed, LogOK, FencesTyped, FencesNamed, NEW q \in Message, RequestOK(q), NamesNomination(q), Store(q)
    PROVE  FencesFollow
  <1>1. PICK n \in Nodes, p \in Paths : n = q.to /\ p = q.path BY DEF Message
  <1>2. q.begin \in Nat /\ q.nomination \in Nat /\ q.commit \in Nat BY DEF Message
  <1>3. q.commit < Len(decisions)
    <2>1. Len(decisions) \in Nat /\ Len(decisions) # 0 BY CurrentTyped
    <2>2. q.commit # 0 => HasDecision(q.begin, q.commit) BY DEF RequestOK
    <2> QED BY <1>2, <2>1, <2>2 DEF HasDecision, LogOK
  <1>4. reserved \in [Nodes -> [Paths -> Reservation \cup {None}]] BY DEF FencesTyped
  <1>5. PICK r : r = reserved[n][p] OBVIOUS
  <1>6. r # None => r \in Reservation /\ NamesNomination(r) /\ r.commit < Len(decisions)
    BY <1>4, <1>5 DEF FencesNamed
  <1>7. PICK s : s = StoreReservation(q) OBVIOUS
  <1>8. CASE ~StoreAccepts(q)
    <2>1. UNCHANGED reserved BY <1>8 DEF Store
    <2> QED BY <2>1 DEF FencesFollow
  <1>9. CASE StoreAccepts(q)
    <2>1. reserved' = [reserved EXCEPT ![n][p] = s] BY <1>1, <1>7, <1>9 DEF Store
    <2>2. /\ reserved'[n][p] = s
          /\ \A m \in Nodes, o \in Paths : <<m, o>> # <<n, p>> => reserved'[m][o] = reserved[m][o]
      BY <1>4, <2>1
    <2>3. s = None \/ s = r \/ (NamesNomination(s) /\ s.commit < Len(decisions))
      <3>1. CASE q.op = "reserve" /\ r = None
        <4>1. s = [begin |-> q.begin, nomination |-> q.nomination, commit |-> 0]
          BY <1>1, <1>5, <1>7, <3>1 DEF StoreReservation
        <4>2. s.nomination = q.nomination /\ s.commit = 0 BY <4>1
        <4>3. 0 < Len(decisions) BY CurrentTyped
        <4> QED BY <4>2, <4>3 DEF NamesNomination
      <3>2. CASE q.op = "reserve" /\ r # None
        <4>1. s = [r EXCEPT !.nomination = q.nomination] BY <1>1, <1>5, <1>7, <3>2 DEF StoreReservation
        <4>2. r \in Reservation BY <1>6, <3>2
        <4>3. s.nomination = q.nomination /\ s.commit = r.commit BY <4>1, <4>2 DEF Reservation
        <4> QED BY <1>6, <3>2, <4>3 DEF NamesNomination
      <3>3. CASE q.op = "commit"
        <4>1. s = [r EXCEPT !.commit = q.commit] BY <1>1, <1>5, <1>7, <3>3 DEF StoreReservation
        <4>2. r # None
          BY <1>1, <1>5, <1>9, <3>3 DEF StoreAccepts, Committable, ExactFence
        <4>3. r \in Reservation BY <1>6, <4>2
        <4>4. s.nomination = r.nomination /\ s.commit = q.commit BY <4>1, <4>3 DEF Reservation
        <4> QED BY <1>3, <1>6, <4>2, <4>4 DEF NamesNomination
      <3>4. CASE q.op = "release" BY <1>7, <3>4 DEF StoreReservation
      <3>5. CASE q.op \notin {"reserve", "commit", "release"} BY <1>1, <1>5, <1>7, <3>5 DEF StoreReservation
      <3> QED BY <3>1, <3>2, <3>3, <3>4, <3>5
    <2>4. ASSUME NEW m \in Nodes, NEW o \in Paths, reserved'[m][o] # None
          PROVE  \/ reserved'[m][o] = reserved[m][o]
                 \/ NamesNomination(reserved'[m][o]) /\ reserved'[m][o].commit < Len(decisions)
      <3>1. CASE m = n /\ o = p BY <1>5, <2>2, <2>3, <2>4, <3>1
      <3>2. CASE <<m, o>> # <<n, p>> BY <2>2, <3>2
      <3> QED BY <3>1, <3>2
    <2> QED BY <2>4 DEF FencesFollow
  <1> QED BY <1>8, <1>9

LEMMA ExecuteNames ==
    ASSUME ProgramInv, ProgramInv', FenceInv, FenceInv', NameInv, NEW q \in wire, Execute(q)
    PROVE  NameInv'
  <1>1. Typed /\ LogOK /\ JobsOK /\ WireOK /\ FencesTyped /\ FencesNamed BY DEF ProgramInv, FenceInv, NameInv
  <1>2. UNCHANGED decisions /\ Store(q) BY DEF Execute
  <1>3. q \in Message /\ RequestOK(q) BY <1>1, LateCopy
  <1>4. NamesNomination(q) BY DEF NameInv
  <1>5. FencesFollow BY <1>1, <1>2, <1>3, <1>4, StoreNamed
  <1>6. PICK outcome : Reply(q, outcome) BY DEF Execute
  <1>7. JobsNamed /\ LateNamed BY <1>1, <1>6, ReplyNamed
  <1> QED BY <1>2, <1>5, <1>7, NamesQuiet

LEMMA ExecuteLocalNames ==
    ASSUME ProgramInv, ProgramInv', FenceInv, FenceInv', NameInv, NEW n \in Nodes, ExecuteLocal(n)
    PROVE  NameInv'
  <1>1. Typed /\ LogOK /\ JobsOK /\ Tenure /\ FencesTyped /\ FencesNamed BY DEF ProgramInv, FenceInv, NameInv
  <1>2. UNCHANGED decisions BY DEF ExecuteLocal
  <1>3. job[n] # Idle BY DEF ExecuteLocal
  <1>4. PICK j \in Job : j = job[n] BY <1>1, <1>3 DEF Typed
  <1>5. PICK b \in batches : JobFits(j, b) BY <1>1, <1>3, <1>4 DEF JobsOK
  <1>6. n \in j.waiting BY <1>4 DEF ExecuteLocal
  <1>7. PICK i \in Invocations : i = b.invocation BY <1>1, BatchTyped
  <1>8. PICK phase \in Phases : phase = j.phase BY DEF Job
  <1>9. RoundsOf(i, phase) # << >> BY <1>5, <1>6, <1>7, <1>8 DEF JobFits
  <1>10. b.begin = j.begin /\ CommitKnown(j) /\ j.round \in DOMAIN RoundsOf(i, phase)
    BY <1>5, <1>7, <1>8, <1>9 DEF JobFits, ReadyFor
  <1>11. PICK k \in DOMAIN RoundsOf(i, phase) : k = j.round BY <1>10
  <1>12. PICK R : R = RoundsOf(i, phase)[k] OBVIOUS
  <1>13. /\ R.op \in Operations /\ R.path \in Paths
         /\ R.op \in Publications => R.path \in Writes(i)
    BY <1>12, RoundExists
  <1>14. Rounds(j)[j.round] = R
    <2>1. Batch(j.begin) = b BY <1>1, <1>10, BatchIs
    <2> QED BY <1>7, <1>8, <1>11, <1>12, <2>1, RoundsAre
  <1>15. PICK q : q = Request(n, j, n) OBVIOUS
  <1>16. j.begin \in Nat /\ j.nomination \in Nat /\ j.commit \in Nat BY DEF Job
  <1>17. /\ q \in Message /\ q.op = R.op /\ q.path = R.path
         /\ q.begin = j.begin /\ q.commit = j.commit /\ q.nomination = j.nomination
    BY <1>13, <1>14, <1>15, <1>16 DEF Request, Message
  <1>18. RequestOK(q) BY <1>7, <1>10, <1>13, <1>17 DEF RequestOK, CommitKnown
  <1>19. NamesNomination(q)
    <2>1. j.nomination # 0 BY <1>3, <1>4 DEF NameInv
    <2>2. j.nomination < Len(decisions) BY <1>1, <1>3, <1>4 DEF Tenure, InTenure
    <2> QED BY <1>17, <2>1, <2>2 DEF NamesNomination
  <1>20. PICK outcome : outcome = Outcome(q) OBVIOUS
  <1>21. Store(q) /\ Answered(n, n, outcome, wire) BY <1>4, <1>15, <1>20 DEF ExecuteLocal
  <1>22. FencesFollow BY <1>1, <1>17, <1>18, <1>19, <1>21, StoreNamed
  <1>23. JobsNamed BY <1>1, <1>4, <1>21, AnsweredFollows, FollowsNamed
  <1>24. \A m \in wire' : m.late => m \in wire BY <1>21, AnsweredLate
  <1>25. LateNamed BY <1>24 DEF LateNamed
  <1> QED BY <1>2, <1>22, <1>23, <1>25, NamesQuiet

LEMMA SweepReleaseNames ==
    ASSUME ProgramInv, ProgramInv', FenceInv, FenceInv', NameInv, NEW n \in Nodes, SweepRelease(n)
    PROVE  NameInv'
  <1>1. UNCHANGED <<decisions, job, wire>> BY DEF SweepRelease
  <1>2. reserved \in [Nodes -> [Paths -> Reservation \cup {None}]] BY DEF FenceInv, FencesTyped
  <1>3. UNCHANGED reserved \/ \E p \in DOMAIN sweep[n].stale : reserved' = [reserved EXCEPT ![n][p] = None]
    BY DEF SweepRelease
  <1>4. FencesFollow
    <2>1. CASE UNCHANGED reserved BY <2>1 DEF FencesFollow
    <2>2. CASE \E p \in DOMAIN sweep[n].stale : reserved' = [reserved EXCEPT ![n][p] = None]
      <3>1. PICK p : reserved' = [reserved EXCEPT ![n][p] = None] BY <2>2
      <3>2. \A m \in Nodes, o \in Paths : reserved'[m][o] = reserved[m][o] \/ reserved'[m][o] = None
        BY <1>2, <3>1
      <3> QED BY <3>2 DEF FencesFollow
    <2> QED BY <1>3, <2>1, <2>2
  <1>5. JobsNamed BY <1>1 DEF JobsNamed
  <1>6. LateNamed BY <1>1, SameWire
  <1> QED BY <1>1, <1>4, <1>5, <1>6, NamesQuiet

LEMMA BystanderNames ==
    ASSUME ProgramInv, ProgramInv', FenceInv', NameInv, UNCHANGED <<decisions, reserved, job, wire>>
    PROVE  NameInv'
  <1>1. JobsNamed /\ FencesFollow BY DEF JobsNamed, FencesFollow
  <1>2. LateNamed BY SameWire
  <1> QED BY <1>1, <1>2, NamesQuiet

-----------------------------------------------------------------------------
(* Log entries. *)

LEMMA NominateNames ==
    ASSUME ProgramInv, ProgramInv', FenceInv', NameInv, NEW n \in Nodes, NominateExecutor(n)
    PROVE  NameInv'
  <1>1. Typed BY DEF ProgramInv
  <1>2. UNCHANGED <<reserved, job, wire>> BY DEF NominateExecutor, store
  <1>3. Current \in DecisionState /\ Len(decisions) \in Nat /\ Len(decisions) # 0 BY <1>1, CurrentTyped
  <1>4. PICK s : s = [Current EXCEPT !.executor = n, !.nomination = NextIndex] OBVIOUS
  <1>5. s \in DecisionState /\ s.nomination # 0 BY <1>3, <1>4 DEF DecisionState, NextIndex
  <1>6. AppendEntry(n, s) BY <1>4 DEF NominateExecutor
  <1>7. JobsNamed BY <1>2 DEF JobsNamed
  <1>8. LateNamed BY <1>2, SameWire
  <1> QED BY <1>2, <1>5, <1>6, <1>7, <1>8, NamesEntry

(* A command of the executor and the phase its job goes on with.           *)
LEMMA SubmitNames ==
    ASSUME ProgramInv, ProgramInv', FenceInv', NameInv, NEW n \in Nodes,
           job[n].phase \in {"decide", "abort", "abandon", "through"},
           NEW s \in DecisionState, Submit(n, s),
           s.executor = Current.executor, s.nomination = Current.nomination, UNCHANGED reserved,
           \/ Stop(n, wire)
           \/ \E j \in Job, phase \in Phases : j.nomination = job[n].nomination /\ Enter(n, j, phase, wire)
    PROVE  NameInv'
  <1>1. Typed /\ LogNamed BY DEF ProgramInv, NameInv
  <1>2. AppendEntry(n, s) BY DEF Submit
  <1>3. s.executor # None => s.nomination # 0 BY <1>1, CurrentNamed
  <1>4. job[n] # Idle BY DEF Idle
  <1>5. job[n].nomination # 0 BY <1>4 DEF NameInv
  <1>6. JobsNamed /\ LateNamed
    <2>1. CASE Stop(n, wire) BY <1>1, <2>1, StopNamed
    <2>2. CASE \E j \in Job, phase \in Phases : j.nomination = job[n].nomination /\ Enter(n, j, phase, wire)
      BY <1>1, <1>4, <1>5, <2>2, EnterNamed
    <2> QED BY <2>1, <2>2
  <1> QED BY <1>2, <1>3, <1>6, NamesEntry

LEMMA CommitNames ==
    ASSUME ProgramInv, ProgramInv', FenceInv', NameInv, NEW n \in Nodes, CommitPreparedBatch(n)
    PROVE  NameInv'
  <1>1. Typed BY DEF ProgramInv
  <1>2. job[n].phase = "decide" /\ UNCHANGED reserved BY DEF CommitPreparedBatch, store
  <1>3. PICK j \in Job : j = job[n] BY <1>2, Submitting
  <1>4. PICK d : d = [begin |-> job[n].begin, commit |-> NextIndex, executor |-> n, nomination |-> job[n].nomination]
    OBVIOUS
  <1>5. PICK s : s = [Current EXCEPT !.preparing = 0, !.decided = @ \cup {d}] OBVIOUS
  <1>6. Current \in DecisionState /\ Len(decisions) \in Nat BY <1>1, CurrentTyped
  <1>7. d \in Decision
    <2>1. j.begin \in Nat /\ j.nomination \in Nat BY DEF Job
    <2> QED BY <1>3, <1>4, <1>6, <2>1 DEF Decision, NextIndex
  <1>8. s \in DecisionState /\ s.executor = Current.executor /\ s.nomination = Current.nomination
    BY <1>5, <1>6, <1>7 DEF DecisionState
  <1>9. Submit(n, s) BY <1>4, <1>5 DEF CommitPreparedBatch
  <1>10. PICK x : x = [j EXCEPT !.commit = NextIndex] OBVIOUS
  <1>11. x \in Job /\ x.nomination = j.nomination BY <1>6, <1>10 DEF Job, NextIndex
  <1>12. Enter(n, x, "commit", wire) BY <1>3, <1>10 DEF CommitPreparedBatch
  <1>13. \E y \in Job, phase \in Phases : y.nomination = job[n].nomination /\ Enter(n, y, phase, wire)
    BY <1>3, <1>11, <1>12 DEF Phases
  <1> QED BY <1>2, <1>8, <1>9, <1>13, SubmitNames

LEMMA AbortNames ==
    ASSUME ProgramInv, ProgramInv', FenceInv', NameInv, NEW n \in Nodes, AbortPreparedBatch(n)
    PROVE  NameInv'
  <1>1. Typed BY DEF ProgramInv
  <1>2. job[n].phase \in {"abort", "abandon"} /\ UNCHANGED reserved BY DEF AbortPreparedBatch, store
  <1>3. PICK j \in Job : j = job[n] BY <1>2, Submitting
  <1>4. PICK s : s = [Current EXCEPT !.preparing = 0] OBVIOUS
  <1>5. Current \in DecisionState BY <1>1, CurrentTyped
  <1>6. s \in DecisionState /\ s.executor = Current.executor /\ s.nomination = Current.nomination
    BY <1>4, <1>5 DEF DecisionState
  <1>7. Submit(n, s) BY <1>4 DEF AbortPreparedBatch
  <1>8. Stop(n, wire) \/ Enter(n, j, "releaseAborted", wire) BY <1>3 DEF AbortPreparedBatch
  <1>9. "releaseAborted" \in Phases BY DEF Phases
  <1>10. \/ Stop(n, wire)
         \/ \E y \in Job, phase \in Phases : y.nomination = job[n].nomination /\ Enter(n, y, phase, wire)
    BY <1>3, <1>8, <1>9
  <1> QED BY <1>2, <1>6, <1>7, <1>10, SubmitNames

LEMMA AdvanceNames ==
    ASSUME ProgramInv, ProgramInv', FenceInv', NameInv, NEW n \in Nodes, advance_finalized_through(n)
    PROVE  NameInv'
  <1>1. Typed BY DEF ProgramInv
  <1>2. job[n].phase = "through" /\ UNCHANGED reserved BY DEF advance_finalized_through, store
  <1>3. PICK j \in Job : j = job[n] BY <1>2, Submitting
  <1>4. PICK s : s = [Current EXCEPT !.finalized = job[n].commit] OBVIOUS
  <1>5. Current \in DecisionState /\ j.commit \in Nat BY <1>1, CurrentTyped DEF Job
  <1>6. s \in DecisionState /\ s.executor = Current.executor /\ s.nomination = Current.nomination
    BY <1>3, <1>4, <1>5 DEF DecisionState
  <1>7. Submit(n, s) BY <1>4 DEF advance_finalized_through
  <1>8. Enter(n, j, "release", wire) BY <1>3 DEF advance_finalized_through
  <1>9. "release" \in Phases BY DEF Phases
  <1>10. \E y \in Job, phase \in Phases : y.nomination = job[n].nomination /\ Enter(n, y, phase, wire)
    BY <1>3, <1>8, <1>9
  <1> QED BY <1>2, <1>6, <1>7, <1>10, SubmitNames

LEMMA InvokeNames ==
    ASSUME ProgramInv, ProgramInv', FenceInv', NameInv, NEW n \in Nodes, NEW i \in Invocations,
           invoke_distributed(n, i)
    PROVE  NameInv'
  <1>1. Typed /\ LogNamed BY DEF ProgramInv, NameInv
  <1>2. UNCHANGED <<reserved, wire>> BY DEF invoke_distributed
  <1>3. PICK s : s = [Current EXCEPT !.preparing = NextIndex] OBVIOUS
  <1>4. Current \in DecisionState /\ Len(decisions) \in Nat BY <1>1, CurrentTyped
  <1>5. s \in DecisionState /\ s.executor = Current.executor /\ s.nomination = Current.nomination
    BY <1>3, <1>4 DEF DecisionState, NextIndex
  <1>6. AppendEntry(n, s) BY <1>3 DEF invoke_distributed
  <1>7. s.executor # None => s.nomination # 0 BY <1>1, <1>5, CurrentNamed
  <1>8. View(n).nomination # 0 BY <1>1, ViewNamed DEF invoke_distributed, MayExecute
  <1>9. PICK x : x = NewJob("invoke", "stage", NextIndex, View(n).nomination, 0) OBVIOUS
  <1>10. x.nomination # 0 BY <1>8, <1>9 DEF NewJob
  <1>11. job' = [job EXCEPT ![n] = x] BY <1>9 DEF invoke_distributed
  <1>12. job \in [Nodes -> Job \cup {Idle}] BY <1>1 DEF Typed
  <1>13. job'[n] = x /\ \A m \in Nodes \ {n} : job'[m] = job[m] BY <1>11, <1>12
  <1>14. JobsNamed BY <1>10, <1>13 DEF JobsNamed
  <1>15. LateNamed BY <1>2, SameWire
  <1> QED BY <1>2, <1>5, <1>6, <1>7, <1>14, <1>15, NamesEntry

-----------------------------------------------------------------------------
LEMMA NameInit == Init => NameInv
  <1> SUFFICES ASSUME Init PROVE NameInv OBVIOUS
  <1>1. Len(decisions) = 1 /\ decisions[1].executor = None BY DEF Init
  <1>2. LogNamed BY <1>1, LogConstants DEF LogNamed
  <1>3. FencesNamed BY DEF Init, FencesNamed
  <1>4. \A n \in Nodes : job[n] = Idle BY DEF Init
  <1>5. wire = {} BY DEF Init
  <1> QED BY <1>2, <1>3, <1>4, <1>5 DEF NameInv

LEMMA NameNext ==
    ProgramInv /\ ProgramInv' /\ FenceInv /\ FenceInv' /\ NameInv /\ [Next]_vars => NameInv'
  <1> SUFFICES ASSUME ProgramInv, ProgramInv', FenceInv, FenceInv', NameInv, [Next]_vars PROVE NameInv'
    OBVIOUS
  <1>1. CASE \E n \in Nodes : NominateExecutor(n) BY <1>1, NominateNames
  <1>2. CASE \E n \in Nodes, i \in Invocations : invoke_distributed(n, i) BY <1>2, InvokeNames
  <1>3. CASE \E n \in Nodes : CommitPreparedBatch(n) BY <1>3, CommitNames
  <1>4. CASE \E n \in Nodes : AbortPreparedBatch(n) BY <1>4, AbortNames
  <1>5. CASE \E n \in Nodes : advance_finalized_through(n) BY <1>5, AdvanceNames
  <1>6. CASE \E n \in Nodes : recover_distributed_tail_locked(n) BY <1>6, RecoverNames
  <1>7. CASE \E n \in Nodes : stage_prepared(n) \/ SubmitRejected(n) BY <1>7, StageNames
  <1>8. CASE \E n \in Nodes : Abandon(n) BY <1>8, AbandonNames
  <1>9. CASE \E n \in Nodes : ExecuteLocal(n) BY <1>9, ExecuteLocalNames
  <1>10. CASE \E n \in Nodes : SweepRelease(n) BY <1>10, SweepReleaseNames
  <1>11. CASE \E n \in Nodes : ApplyEntry(n) \/ SweepRead(n) \/ SweepList(n)
    BY <1>11, BystanderNames DEF ApplyEntry, SweepRead, SweepList, store
  <1>12. CASE \/ \E n \in Nodes, v \in DOMAIN versions : OrdinaryApply(n, v)
              \/ \E n \in Nodes, p \in Paths, v \in DOMAIN versions : Repair(n, p, v)
              \/ \E p \in Paths : OrdinaryWrite(p)
    BY <1>12, BystanderNames DEF OrdinaryApply, Repair, OrdinaryWrite
  <1>13. CASE \E q \in wire : TimeOut(q) BY <1>13, TimeOutNames
  <1>14. CASE \E q \in wire : Admit(q) \/ Refuse(q) BY <1>14, AdmitNames
  <1>15. CASE \E q \in wire : Execute(q) BY <1>15, ExecuteNames
  <1>16. CASE UNCHANGED vars BY <1>16, BystanderNames DEF vars
  <1> QED
    BY <1>1, <1>2, <1>3, <1>4, <1>5, <1>6, <1>7, <1>8, <1>9, <1>10, <1>11, <1>12, <1>13,
       <1>14, <1>15, <1>16
    DEF Next

LEMMA NamesSuffice == ProgramInv /\ FenceInv /\ NameInv => TypeOK
  <1> SUFFICES ASSUME ProgramInv, FenceInv, NameInv PROVE TypeOK OBVIOUS
  <1>1. Typed /\ LogOK /\ HeadsOK /\ AckedOK /\ FencesTyped /\ LogNamed /\ FencesNamed
    BY DEF ProgramInv, FenceInv, NameInv
  <1>2. Len(decisions) \in Nat /\ Len(decisions) <= MaxLog + 1 /\ MaxLog \in Nat
    BY <1>1, LogConstants DEF Typed, LogNamed
  <1>3. \A n \in Nodes : applied[n] \in 0..(Len(decisions) - 1) BY <1>1, <1>2 DEF Typed
  <1>4. ASSUME NEW b \in batches PROVE b.begin \in 1..MaxLog /\ b.invocation \in Invocations
    <2>1. b.begin \in Nat /\ b.invocation \in Invocations BY <1>1, BatchTyped
    <2>2. b.begin # 0 /\ b.begin < Len(decisions) BY <1>1 DEF LogOK
    <2> QED BY <1>2, <2>1, <2>2
  <1>5. ASSUME NEW n \in Nodes, NEW p \in Paths
        PROVE  /\ head[n][p] \in 0..Len(versions)
               /\ head[n][p] # 0 => versions[head[n][p]].path = p
    <2>1. Len(versions) \in Nat BY <1>1 DEF Typed
    <2> QED BY <1>1, <2>1, HeadIs
  <1>6. ASSUME NEW n \in Nodes, NEW p \in Paths, reserved[n][p] # None
        PROVE  /\ \E b \in batches : b.begin = reserved[n][p].begin
               /\ reserved[n][p].nomination \in 1..MaxLog
               /\ reserved[n][p].commit \in 0..MaxLog
    <2>1. reserved[n][p] \in Reservation /\ HasBatch(reserved[n][p].begin) BY <1>1, <1>6 DEF FencesTyped
    <2>2. reserved[n][p].nomination \in Nat /\ reserved[n][p].commit \in Nat BY <2>1 DEF Reservation
    <2>3. /\ reserved[n][p].nomination # 0 /\ reserved[n][p].nomination < Len(decisions)
          /\ reserved[n][p].commit < Len(decisions)
      BY <1>1, <1>6 DEF FencesNamed, NamesNomination
    <2> QED BY <1>2, <2>1, <2>2, <2>3 DEF HasBatch
  <1>7. acked \subseteq Ordinary BY <1>1 DEF Typed, AckedOK, Ordinary
  <1> QED BY <1>3, <1>4, <1>5, <1>6, <1>7 DEF TypeOK

(* For every number of paths and programs and every bound on the log: the  *)
(* durable state names only things that exist.  A reservation is one of a  *)
(* batch that was begun, under a nomination that was made, whichever late  *)
(* request of whichever deposed executor wrote it (reserve_program_path,   *)
(* commit_program_path_reservation), and a head is a version of its path.  *)
THEOREM TypesHold == Spec => []TypeOK
  <1>1. ProgramInv /\ [Next]_vars => ProgramInv' BY NextLemma
  <1>2. ProgramInv /\ ProgramInv' /\ FenceInv /\ [Next]_vars => FenceInv' BY FenceNext
  <1>3. ProgramInv /\ ProgramInv' /\ FenceInv /\ FenceInv' /\ NameInv /\ [Next]_vars => NameInv' BY NameNext
  <1>4. ProgramInv /\ FenceInv /\ NameInv => TypeOK BY NamesSuffice
  <1> QED BY <1>1, <1>2, <1>3, <1>4, InitLemma, FenceInit, NameInit, PTL DEF Spec
=============================================================================
