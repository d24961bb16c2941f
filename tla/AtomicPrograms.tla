--------------------------- MODULE AtomicPrograms ---------------------------
(***************************************************************************)
(* Execution, publication and recovery of atomic programs across nodes.    *)
(*                                                                         *)
(* A program observes the heads of its participant paths and prepares a    *)
(* version for every path it writes.  The nominated executor begins the    *)
(* batch through Raft, reserves every participant on a quorum of replicas, *)
(* commits the decision through Raft, turns the reservations into          *)
(* committed ones, publishes the prepared versions path by path, advances  *)
(* the finalization watermark and releases the reservations.  A reserved   *)
(* path refuses ordinary writes.  A new executor resumes whatever the      *)
(* decision state still holds, and every node sweeps local reservations    *)
(* the decision state no longer names.                                     *)
(*                                                                         *)
(* Decisions are a Raft log of which each node has applied a prefix: an    *)
(* executor's own submissions are applied locally before they return, a    *)
(* peer answers from its own prefix.  The check a peer makes and the store *)
(* operation that follows it are separate steps, and a request its sender  *)
(* gave up may still be executed later.                                    *)
(*                                                                         *)
(* The cluster has two nodes, so that both are replicas of every path and  *)
(* both must acknowledge.                                                  *)
(***************************************************************************)
EXTENDS Integers, FiniteSets, Sequences, SequencesExt

CONSTANTS
    Nodes,           \* the two ACTIVE nodes; each is a replica of every path
    Paths,           \* object paths
    CoordinatorOf,   \* the exact-path authority of each path
    Invocations,     \* caller-chosen invocation identities
    Participants,    \* per invocation: its paths, in participant order
    Written,         \* per invocation: the participants it writes, in that order
    Sweepers,        \* bound: nodes whose reservation sweep runs
    FirstExecutor,   \* bound: the node nominated first
    MaxParticipants, \* bound: participants of all batches begun together
    MaxLog,          \* bound: the last log index
    MaxDisruptions   \* bound: nominations, failed jobs, unanswered requests,
                     \* ordinary writes and sweeps that meet the batches

ASSUME ProgramConstants ==
    /\ IsFiniteSet(Nodes) /\ Cardinality(Nodes) = 2 /\ Sweepers \subseteq Nodes
    /\ CoordinatorOf \in [Paths -> Nodes]
    /\ {Participants, Written} \subseteq [Invocations -> Seq(Paths)]
    /\ \A i \in Invocations :
         /\ Written[i] # << >> /\ IsInjective(Written[i])
         /\ Range(Written[i]) \subseteq Range(Participants[i])
    /\ FirstExecutor \in Nodes

VARIABLES
    decisions,  \* decision states: decisions[k+1] is the state after log index k
    applied,    \* per node: the log index it has applied
    batches,    \* prepared bundles of the batches begun
    versions,   \* every version written or prepared, in allocation order
    head,       \* per node and path: the current version, 0 when it never existed
    reserved,   \* per node and path: the durable reservation
    job,        \* per node: the invocation or recovery that holds the commit gate
    wire,       \* requests to peers
    sweep,      \* per node: the reservation sweep in progress
    acked,      \* ordinary versions acknowledged to their callers
    swept,      \* auxiliary: batches that lost a reservation they still needed
    disruptions \* auxiliary: counts what MaxDisruptions bounds

vars == <<decisions, applied, batches, versions, head, reserved, job, wire,
          sweep, acked, swept, disruptions>>

store == <<versions, head, reserved>>

None == [none |-> TRUE]

(* What the mapping of the log to the decision state machine needs.        *)
ASSUME LogConstants == None \notin Nodes /\ MaxLog \in Nat /\ IsFiniteSet(Invocations)

Idle == [phase |-> "idle"]

Required == Cardinality(Nodes) \div 2 + 1

Disrupt == disruptions < MaxDisruptions /\ disruptions' = disruptions + 1
-----------------------------------------------------------------------------
(* Decision state, as AtomicDecisions applies it.                          *)

Current == decisions[Len(decisions)]
View(n) == decisions[applied[n] + 1]
NextIndex == Len(decisions)

Unfinalized(state) == {d \in state.decided : d.commit > state.finalized}

\* Batches whose participants a decision state still protects.
ActiveBegins(state) ==
    {d.begin : d \in Unfinalized(state)} \cup ({state.preparing} \ {0})

Batch(begin) == CHOOSE b \in batches : b.begin = begin

\* The version a batch prepared for a path it writes.
Prepared(begin, p) ==
    CHOOSE v \in DOMAIN versions : versions[v].begin = begin /\ versions[v].path = p

\* A version and everything it succeeds.
Line(v) == IF v = 0 THEN {0} ELSE versions[v].line

NewVersion(p, begin, pred, v) ==
    [path |-> p, begin |-> begin, pred |-> pred, line |-> Line(pred) \cup {v}]

(* An entry the state machine accepts; its submitter has applied it by the *)
(* time the submission returns.                                            *)
AppendEntry(n, state) ==
    /\ NextIndex <= MaxLog
    /\ decisions' = Append(decisions, state)
    /\ applied' = [applied EXCEPT ![n] = NextIndex]

\* Mutant: the nomination of a command is not compared.
SubmitUnfenced(n, state) == AppendEntry(n, state)

(* An executor command is accepted only under the current nomination.      *)
Submit(n, state) ==
    /\ Current.executor = n
    /\ Current.nomination = job[n].nomination
    /\ AppendEntry(n, state)

NominateExecutor(n) ==
    /\ IF Current.executor = None THEN n = FirstExecutor /\ UNCHANGED disruptions
       ELSE Disrupt
    /\ AppendEntry(n, [Current EXCEPT !.executor = n, !.nomination = NextIndex])
    /\ UNCHANGED <<batches, store, job, wire, sweep, acked, swept>>

\* Mutant: an entry is applied before it is committed.
HasEntryAhead(n) == applied[n] < Len(decisions)

HasEntry(n) == applied[n] + 1 < Len(decisions)

ApplyEntry(n) ==
    /\ HasEntry(n)
    /\ applied' = [applied EXCEPT ![n] = @ + 1]
    /\ UNCHANGED <<decisions, batches, store, job, wire, sweep, acked, swept, disruptions>>
-----------------------------------------------------------------------------
(* Jobs.  Each phase is a sequence of rounds; a round sends one operation  *)
(* for one path to a set of replicas at once and waits for all of them.    *)

EveryReplica(op, i) ==
    [k \in DOMAIN Participants[i] |-> [op |-> op, path |-> Participants[i][k], to |-> Nodes]]

Writes(i) == Range(Written[i])

\* Each written path is published by its authority, then by the others.
Finalizing(i) ==
    [k \in 1..(2 * Len(Written[i])) |->
        LET p == Written[i][(k + 1) \div 2]
        IN  IF k % 2 = 1
            THEN [op |-> "coordinate", path |-> p, to |-> {CoordinatorOf[p]}]
            ELSE [op |-> "apply", path |-> p, to |-> Nodes \ {CoordinatorOf[p]}]]

Rounds(j) ==
    LET i == Batch(j.begin).invocation
    IN  CASE j.phase = "reserve"  -> EveryReplica("reserve", i)
          [] j.phase = "commit"   -> EveryReplica("commit", i)
          [] j.phase = "finalize" -> Finalizing(i)
          [] j.phase \in {"release", "releaseAborted"} -> EveryReplica("release", i)
          [] OTHER -> << >>

\* Mutant: the authority is counted twice.
AuthorityTwice == Required - 2

\* The authority has already published.
OtherReplicas == Required - 1

\* Replicas that must acknowledge a round.
Needed(op) ==
    CASE op = "release"    -> Cardinality(Nodes)
      [] op = "coordinate" -> 1
      [] op = "apply"      -> OtherReplicas
      [] OTHER             -> Required

Request(n, j, to) ==
    [from |-> n, to |-> to, op |-> Rounds(j)[j.round].op,
     path |-> Rounds(j)[j.round].path, begin |-> j.begin,
     nomination |-> j.nomination, commit |-> j.commit,
     admitted |-> FALSE, late |-> FALSE]

\* Job n goes on as j and sends its round; rest is what stays on the wire.
Continue(n, j, rest) ==
    LET to == IF Rounds(j) = << >> THEN {} ELSE Rounds(j)[j.round].to
    IN  /\ job' = [job EXCEPT ![n] =
                     [j EXCEPT !.waiting = to, !.acks = 0, !.rejections = 0]]
        /\ wire' = rest \cup {Request(n, j, r) : r \in to \ {n}}

Enter(n, j, phase, rest) == Continue(n, [j EXCEPT !.phase = phase, !.round = 1], rest)

Stop(n, rest) == job' = [job EXCEPT ![n] = Idle] /\ wire' = rest

NewJob(kind, phase, begin, nomination, commit) ==
    [kind |-> kind, phase |-> phase, begin |-> begin, nomination |-> nomination,
     commit |-> commit, round |-> 1, waiting |-> {}, acks |-> 0, rejections |-> 0]

\* current_nomination, under the commit gate.
MayExecute(n) == job[n] = Idle /\ View(n).executor = n

\* The recovery an invocation starts with has left no unfinished batch.
TailRecovered(n) == ActiveBegins(View(n)) = {}

ParticipantsBegun == MapThenSumSet(LAMBDA b : Len(Participants[b.invocation]), batches)

(* A program is prepared against reconciled heads and its batch is begun.  *)
invoke_distributed(n, i) ==
    /\ MayExecute(n)
    /\ TailRecovered(n)
    /\ Current.executor = n /\ Current.nomination = View(n).nomination
    /\ Current.preparing = 0
    /\ \A d \in Current.decided : Batch(d.begin).invocation # i
    /\ \A p \in Range(Participants[i]), m \in Nodes : head[m][p] = head[n][p]
    /\ ParticipantsBegun + Len(Participants[i]) <= MaxParticipants
    /\ AppendEntry(n, [Current EXCEPT !.preparing = NextIndex])
    /\ batches' = batches \cup {[begin |-> NextIndex, invocation |-> i, observed |-> head[n]]}
    /\ LET new == Written[i]
       IN  versions' = versions \o
             [k \in DOMAIN new |-> NewVersion(new[k], NextIndex, head[n][new[k]], Len(versions) + k)]
    /\ job' = [job EXCEPT ![n] =
                 NewJob("invoke", "stage", NextIndex, View(n).nomination, 0)]
    /\ UNCHANGED <<head, reserved, wire, sweep, acked, swept, disruptions>>

(* The recovery worker, and the first thing an invocation does.  A bundle  *)
(* that can no longer be read abandons the preparation.                    *)
recover_distributed_tail_locked(n) ==
    /\ MayExecute(n)
    /\ LET view == View(n) IN
       \/ /\ view.preparing # 0
          /\ \E phase \in {"stage", "abandon"} :
               job' = [job EXCEPT ![n] =
                         NewJob("recover", phase, view.preparing, view.nomination, 0)]
          /\ UNCHANGED wire
       \/ /\ view.preparing = 0
          /\ \E d \in Unfinalized(view) :
               Continue(n, NewJob("tail", "reserve", d.begin, view.nomination, d.commit), wire)
    /\ UNCHANGED <<decisions, applied, batches, store, sweep, acked, swept, disruptions>>

(* Staging stores content only, and its test of the predecessor is made    *)
(* again by reservation and publication, so it may succeed or fail.        *)
stage_prepared(n) ==
    /\ job[n].phase = "stage"
    /\ \/ Enter(n, job[n], "reserve", wire)
       \/ job[n].kind = "invoke" /\ Enter(n, job[n], "abandon", wire)
       \/ job[n].kind = "recover" /\ Stop(n, wire)
    /\ UNCHANGED <<decisions, applied, batches, store, sweep, acked, swept, disruptions>>

\* The phase that follows a completed one.
NextPhase(j) ==
    CASE j.phase = "reserve" -> IF j.kind = "tail" THEN "commit" ELSE "decide"
      [] j.phase = "commit"  -> IF j.kind = "recover" THEN "reserve" ELSE "finalize"
      [] j.phase = "finalize" -> "through"
      [] OTHER -> "idle"

\* Recovery reserves a batch it has just decided once more, as its tail.
NextKind(j) == IF j.phase = "commit" /\ j.kind = "recover" THEN "tail" ELSE j.kind

\* Too many replicas have refused for good.
Terminal(j) ==
    Cardinality(Rounds(j)[j.round].to) - j.rejections < Needed(Rounds(j)[j.round].op)

Enough(j) == j.acks >= Needed(Rounds(j)[j.round].op)

(* What job n does with the answers j: waits for more, starts the next     *)
(* round or phase, or fails.  A failed reservation aborts the batch of an  *)
(* invocation always, of a recovery only when no retry can help.           *)
apply_reservation_operation(n, j, rest) ==
    CASE j.waiting # {} -> job' = [job EXCEPT ![n] = j] /\ wire' = rest
      [] j.waiting = {} /\ Enough(j) ->
           IF j.round < Len(Rounds(j)) THEN Continue(n, [j EXCEPT !.round = @ + 1], rest)
           ELSE IF NextPhase(j) = "idle" THEN Stop(n, rest)
           ELSE Enter(n, [j EXCEPT !.kind = NextKind(j)], NextPhase(j), rest)
      [] j.waiting = {} /\ ~Enough(j) ->
           IF \/ j.phase = "reserve" /\ j.kind = "invoke"
              \/ j.phase = "reserve" /\ j.kind = "recover" /\ Terminal(j)
           THEN Enter(n, j, "abort", rest) ELSE Stop(n, rest)

CommitPreparedBatch(n) ==
    /\ job[n].phase = "decide"
    /\ Current.preparing = job[n].begin
    /\ LET d == [begin |-> job[n].begin, commit |-> NextIndex,
                 executor |-> n, nomination |-> job[n].nomination]
       IN  Submit(n, [Current EXCEPT !.preparing = 0, !.decided = @ \cup {d}])
    /\ Enter(n, [job[n] EXCEPT !.commit = NextIndex], "commit", wire)
    /\ UNCHANGED <<batches, store, sweep, acked, swept, disruptions>>

(* abort_prepared_batch: after a failed reservation the participants are   *)
(* released, after a failed staging there are none.                        *)
AbortPreparedBatch(n) ==
    /\ job[n].phase \in {"abort", "abandon"}
    /\ Current.preparing = job[n].begin
    /\ Submit(n, [Current EXCEPT !.preparing = 0])
    /\ IF job[n].phase = "abort" THEN Enter(n, job[n], "releaseAborted", wire)
       ELSE Stop(n, wire)
    /\ UNCHANGED <<batches, store, sweep, acked, swept, disruptions>>

advance_finalized_through(n) ==
    /\ job[n].phase = "through"
    /\ Submit(n, [Current EXCEPT !.finalized = job[n].commit])
    /\ Enter(n, job[n], "release", wire)
    /\ UNCHANGED <<batches, store, sweep, acked, swept, disruptions>>

(* A command of a deposed executor is rejected and ends its job.           *)
SubmitRejected(n) ==
    /\ job[n].phase \in {"decide", "abort", "abandon", "through"}
    /\ Current.nomination # job[n].nomination
    /\ Stop(n, wire)
    /\ UNCHANGED <<decisions, applied, batches, store, sweep, acked, swept, disruptions>>

(* A job ends early: its caller went away, a submission got no answer, its *)
(* process stopped.  A request on its way may still be executed, or never. *)
Abandon(n) ==
    /\ job[n] # Idle /\ Disrupt
    /\ LET live == {q \in wire : q.from = n /\ ~q.late}
       IN  Stop(n, (wire \ live) \cup {[q EXCEPT !.late = TRUE] : q \in live})
    /\ UNCHANGED <<decisions, applied, batches, store, sweep, acked, swept>>

\* One answer of a round.
Answered(n, r, outcome, rest) ==
    apply_reservation_operation(n,
        [job[n] EXCEPT !.waiting = @ \ {r},
                       !.acks = IF outcome = "ok" THEN @ + 1 ELSE @,
                       !.rejections = IF outcome = "terminal" THEN @ + 1 ELSE @],
        rest)

(* A peer does not answer in time; it may still execute the request later, *)
(* or never.                                                               *)
TimeOut(q) ==
    /\ ~q.late /\ Disrupt
    /\ Answered(q.from, q.to, "unavailable", (wire \ {q}) \cup {[q EXCEPT !.late = TRUE]})
    /\ UNCHANGED <<decisions, applied, batches, store, sweep, acked, swept>>
-----------------------------------------------------------------------------
(* Peers.  The check is made against the peer's own applied prefix.        *)

(* An aborted batch must be gone from the decision state, a finalized one  *)
(* must be below the watermark, which the peer waits for.                  *)
ReleaseAuthority(q, view) ==
    IF q.commit = 0
    THEN IF q.begin \in ActiveBegins(view) THEN "terminal" ELSE "ok"
    ELSE IF view.finalized >= q.commit THEN "ok" ELSE "wait"

\* wait_for_reservation_commit, wait_for_committed_stage.
CommitAuthority(q, view) ==
    CASE ~ \E d \in view.decided : d.commit = q.commit -> "wait"
      [] q.op = "commit" /\ view.finalized >= q.commit -> "terminal"
      [] OTHER -> "ok"

Admission(q) ==
    LET view == View(q.to)
    IN  CASE view.executor # q.from \/ view.nomination # q.nomination -> "unavailable"
          [] OTHER ->
               CASE q.op = "reserve" ->
                      IF q.begin \in ActiveBegins(view) THEN "ok" ELSE "terminal"
                 [] q.op = "release" -> ReleaseAuthority(q, view)
                 [] OTHER -> CommitAuthority(q, view)

\* The answer reaches a sender that still waits.
Reply(q, outcome) ==
    IF q.late THEN wire' = wire \ {q} /\ UNCHANGED job
    ELSE Answered(q.from, q.to, outcome, wire \ {q})

(* A late request that passes the check now and is executed later.  While  *)
(* its sender waits, only a nomination can come between the check and the  *)
(* operation, and the answer is then the one of TimeOut.                   *)
Admit(q) ==
    /\ q.late /\ ~q.admitted
    /\ Admission(q) = "ok"
    /\ wire' = (wire \ {q}) \cup {[q EXCEPT !.admitted = TRUE]}
    /\ UNCHANGED <<decisions, applied, batches, store, job, sweep, acked, swept, disruptions>>

Refuse(q) ==
    /\ ~q.admitted
    /\ Admission(q) \in {"terminal", "unavailable"}
    /\ Reply(q, Admission(q))
    /\ UNCHANGED <<decisions, applied, batches, store, sweep, acked, swept, disruptions>>
-----------------------------------------------------------------------------
(* The store, under the path and commit locks of one replica.              *)

Observed(q) == Batch(q.begin).observed[q.path]

\* Same batch and same nomination.
ExactFence(r, q) == r # None /\ r.begin = q.begin /\ r.nomination = q.nomination

(* An existing reservation of the batch was validated when it was written  *)
(* and moves to a later nomination; a new one needs the observed head.     *)
Reservable(r, q) ==
    \/ r = None /\ head[q.to][q.path] = Observed(q)
    \/ r # None /\ r.begin = q.begin /\ q.nomination >= r.nomination

Committable(r, q) == ExactFence(r, q) /\ r.commit \in {0, q.commit}

Releasable(r, q) == r = None \/ Committable(r, q)

(* A version is published only under the committed reservation, over the   *)
(* observed head.  A replica that holds it, or one that is ahead, agrees.  *)
Publishable(r, q) ==
    LET h == head[q.to][q.path]
        v == Prepared(q.begin, q.path)
    IN  /\ ExactFence(r, q) /\ r.commit # 0 /\ r.commit = q.commit
        /\ \/ h \in {Observed(q), v}
           \/ q.op = "apply" /\ h > v

StoreAccepts(q) ==
    LET r == reserved[q.to][q.path]
    IN  CASE q.op = "reserve" -> Reservable(r, q)
          [] q.op = "commit"  -> Committable(r, q)
          [] q.op = "release" -> Releasable(r, q)
          [] OTHER            -> Publishable(r, q)

StoreReservation(q) ==
    LET r == reserved[q.to][q.path]
    IN  CASE q.op = "reserve" ->
               IF r = None
               THEN [begin |-> q.begin, nomination |-> q.nomination, commit |-> 0]
               ELSE [r EXCEPT !.nomination = q.nomination]
          [] q.op = "commit"  -> [r EXCEPT !.commit = q.commit]
          [] q.op = "release" -> None
          [] OTHER            -> r

\* The store's part of q, and what it answers.
Store(q) ==
    IF StoreAccepts(q)
    THEN /\ reserved' = [reserved EXCEPT ![q.to][q.path] = StoreReservation(q)]
         /\ head' = [head EXCEPT ![q.to][q.path] =
                       IF q.op \in {"coordinate", "apply"} /\ @ = Observed(q)
                       THEN Prepared(q.begin, q.path) ELSE @]
    ELSE UNCHANGED <<reserved, head>>

Outcome(q) == IF StoreAccepts(q) THEN "ok" ELSE "terminal"

(* The executor's own replica: no authority is asked for.                  *)
ExecuteLocal(n) ==
    /\ job[n] # Idle /\ n \in job[n].waiting
    /\ LET q == Request(n, job[n], n) IN Store(q) /\ Answered(n, n, Outcome(q), wire)
    /\ UNCHANGED <<decisions, applied, batches, versions, sweep, acked, swept, disruptions>>

(* A peer's store operation, after its check.                              *)
Execute(q) ==
    /\ q.admitted \/ Admission(q) = "ok"
    /\ Store(q)
    /\ Reply(q, Outcome(q))
    /\ UNCHANGED <<decisions, applied, batches, versions, sweep, acked, swept, disruptions>>
-----------------------------------------------------------------------------
(* sweep_stale_local_reservations: read the decision state, list the local *)
(* reservations, release the ones it did not name.                         *)

SweepRead(n) ==
    /\ n \in Sweepers /\ sweep[n] = None /\ Disrupt
    /\ sweep' = [sweep EXCEPT ![n] = [active |-> ActiveBegins(View(n)), stale |-> None]]
    /\ UNCHANGED <<decisions, applied, batches, store, job, wire, acked, swept>>

Stale(n) ==
    {p \in Paths : reserved[n][p] # None /\ reserved[n][p].begin \notin sweep[n].active}

SweepList(n) ==
    /\ sweep[n] # None /\ sweep[n].stale = None
    /\ sweep' = [sweep EXCEPT ![n].stale = [p \in Stale(n) |-> reserved[n][p]]]
    /\ UNCHANGED <<decisions, applied, batches, store, job, wire, acked, swept, disruptions>>

(* Released only while the reservation is still the one that was listed.   *)
SweepRelease(n) ==
    /\ sweep[n] # None /\ sweep[n].stale # None
    /\ IF DOMAIN sweep[n].stale = {}
       THEN sweep' = [sweep EXCEPT ![n] = None] /\ UNCHANGED <<reserved, swept>>
       ELSE \E p \in DOMAIN sweep[n].stale :
              LET listed == sweep[n].stale[p] IN
              IF reserved[n][p] \in {listed, None}
              THEN /\ reserved' = [reserved EXCEPT ![n][p] = None]
                   /\ sweep' = [sweep EXCEPT ![n].stale =
                                  [o \in DOMAIN @ \ {p} |-> @[o]]]
                   /\ swept' = swept \cup ({listed.begin} \cap ActiveBegins(Current))
              ELSE sweep' = [sweep EXCEPT ![n] = None] /\ UNCHANGED <<reserved, swept>>
    /\ UNCHANGED <<decisions, applied, batches, versions, head, job, wire, acked, disruptions>>
-----------------------------------------------------------------------------
(* Ordinary object writes and read repair (ObjectReplication), reduced to  *)
(* what meets a reservation.                                               *)

\* Mutant: ordinary writes ignore reservations.
ReservationIgnored(n, p) == TRUE

Unreserved(n, p) == reserved[n][p] = None

Ordinary == {v \in DOMAIN versions : versions[v].begin = 0}

OrdinaryWrite(p) ==
    LET n == CoordinatorOf[p] IN
    /\ Disrupt
    /\ Unreserved(n, p)
    /\ versions' = Append(versions, NewVersion(p, 0, head[n][p], Len(versions) + 1))
    /\ head' = [head EXCEPT ![n][p] = Len(versions) + 1]
    /\ UNCHANGED <<decisions, applied, batches, reserved, job, wire, sweep, acked, swept>>

OrdinaryApply(n, v) ==
    LET p == versions[v].path IN
    /\ v \in Ordinary \ acked /\ n # CoordinatorOf[p]
    /\ Unreserved(n, p)
    /\ head[n][p] \in {versions[v].pred, v}
    /\ head' = [head EXCEPT ![n][p] = v]
    /\ acked' = IF Cardinality({m \in Nodes \ {n} : v \in Line(head[m][p])}) + 1 >= Required
                THEN acked \cup {v} ELSE acked
    /\ UNCHANGED <<decisions, applied, batches, versions, reserved, job, wire, sweep, swept, disruptions>>

(* Repair copies the successor that the other replica holds, or held when  *)
(* it was read, reserved or not.  (With three replicas a quorum may also   *)
(* take a version back: ObjectReplication.)                                *)
Repair(n, p, v) ==
    /\ \E m \in Nodes : v \in Line(head[m][p])
    /\ v # 0 /\ versions[v].path = p /\ versions[v].pred = head[n][p]
    /\ head' = [head EXCEPT ![n][p] = v]
    /\ UNCHANGED <<decisions, applied, batches, versions, reserved, job, wire,
                   sweep, acked, swept, disruptions>>
-----------------------------------------------------------------------------
Init ==
    /\ decisions = <<[executor |-> None, nomination |-> 0, preparing |-> 0,
                      decided |-> {}, finalized |-> 0]>>
    /\ applied = [n \in Nodes |-> 0]
    /\ batches = {}
    /\ versions = << >>
    /\ head = [n \in Nodes |-> [p \in Paths |-> 0]]
    /\ reserved = [n \in Nodes |-> [p \in Paths |-> None]]
    /\ job = [n \in Nodes |-> Idle]
    /\ wire = {}
    /\ sweep = [n \in Nodes |-> None]
    /\ acked = {}
    /\ swept = {}
    /\ disruptions = 0

Next ==
    \/ \E n \in Nodes :
          \/ NominateExecutor(n)
          \/ ApplyEntry(n)
          \/ \E i \in Invocations : invoke_distributed(n, i)
          \/ recover_distributed_tail_locked(n)
          \/ stage_prepared(n)
          \/ CommitPreparedBatch(n)
          \/ AbortPreparedBatch(n)
          \/ advance_finalized_through(n)
          \/ SubmitRejected(n)
          \/ Abandon(n)
          \/ ExecuteLocal(n)
          \/ SweepRead(n)
          \/ SweepList(n)
          \/ SweepRelease(n)
          \/ \E v \in DOMAIN versions : OrdinaryApply(n, v)
          \/ \E p \in Paths, v \in DOMAIN versions : Repair(n, p, v)
    \/ \E p \in Paths : OrdinaryWrite(p)
    \/ \E q \in wire : TimeOut(q) \/ Admit(q) \/ Refuse(q) \/ Execute(q)

Spec == Init /\ [][Next]_vars
-----------------------------------------------------------------------------
(* Properties                                                              *)

(* Types of the durable state: cursors, reservations and heads name things *)
(* that exist.                                                             *)
TypeOK ==
    /\ \A n \in Nodes : applied[n] \in 0..(Len(decisions) - 1)
    /\ \A b \in batches : b.begin \in 1..MaxLog /\ b.invocation \in Invocations
    /\ \A n \in Nodes, p \in Paths :
         /\ head[n][p] \in 0..Len(versions)
         /\ head[n][p] # 0 => versions[head[n][p]].path = p
         /\ reserved[n][p] # None =>
              /\ \E b \in batches : b.begin = reserved[n][p].begin
              /\ reserved[n][p].nomination \in 1..MaxLog
              /\ reserved[n][p].commit \in 0..MaxLog
    /\ acked \subseteq Ordinary

Holders(v) == {n \in Nodes : v \in Line(head[n][versions[v].path])}

(* A program takes effect as a whole or not at all, and overtakes nothing. *)
(* No replica shows a version of a batch that Raft has not decided; once   *)
(* the watermark passes a batch a quorum holds every version it wrote, so  *)
(* the release that follows gives up nothing; and an acknowledged ordinary *)
(* write is never replaced by a program that did not see it (finalize,     *)
(* advance_finalized_through, reserve_program_path).                       *)
ProgramsAtomic ==
    /\ \A v \in DOMAIN versions : versions[v].begin # 0 /\ Holders(v) # {} =>
         \E d \in Current.decided : d.begin = versions[v].begin
    /\ \A d \in Current.decided \ Unfinalized(Current) :
         \A p \in Writes(Batch(d.begin).invocation) :
            Cardinality(Holders(Prepared(d.begin, p))) >= Required
    /\ \A v \in acked : Cardinality(Holders(v)) >= Required

(* From the decision of a batch to its finalization, a quorum of replicas  *)
(* of each participant, written or only read, still shows the observed     *)
(* head or the batch's own version: the batch executes against the state   *)
(* it saw, unless a sweep took one of its reservations away                *)
(* (reserve_participants, require_unreserved_object_locked).               *)
ParticipantsHeld ==
    \A d \in Unfinalized(Current) : d.begin \notin swept =>
        \A p \in Range(Participants[Batch(d.begin).invocation]) :
            Cardinality({n \in Nodes :
                \/ head[n][p] = Batch(d.begin).observed[p]
                \/ /\ p \in Writes(Batch(d.begin).invocation)
                   /\ head[n][p] = Prepared(d.begin, p)}) >= Required

(* What the reservations are for: a decided batch finds its participants   *)
(* as it observed them until it is finalized, whoever runs when.           *)
ReservationsExcludeOthers ==
    \A d \in Unfinalized(Current), n \in Nodes :
        \A p \in Range(Participants[Batch(d.begin).invocation]) :
        \/ head[n][p] = Batch(d.begin).observed[p]
        \/ /\ p \in Writes(Batch(d.begin).invocation)
           /\ head[n][p] = Prepared(d.begin, p)
-----------------------------------------------------------------------------
(* The log of decisions refines the decision state machine, whose state    *)
(* is a function of decisions and batches.                                 *)

Decided(state) ==
    {[commit_cursor |-> d.commit, begin_cursor |-> d.begin, executor |-> d.executor,
      nomination_log_index |-> d.nomination,
      invocation_id |-> Batch(d.begin).invocation, expires |-> 2] : d \in state.decided}

Decisions == INSTANCE AtomicDecisions WITH
    MaxCommitEntries <- 1, MaxInvocations <- Cardinality(Invocations), Retention <- 1, MaxTime <- 1,
    MaxLogIndex <- MaxLog,
    log_index <- Len(decisions) - 1,
    eligible <- Nodes,
    executor <- IF Current.executor = None THEN None
                ELSE [executor |-> Current.executor,
                      nomination_log_index |-> Current.nomination],
    preparing_batch <- IF Current.preparing = 0 THEN None
                       ELSE [begin_cursor |-> Current.preparing,
                             executor |-> Current.executor,
                             nomination_log_index |-> Current.nomination,
                             invocation_id |-> Batch(Current.preparing).invocation,
                             expires |-> 2],
    committed <- Decided(Current),
    last_commit_cursor <- Max({d.commit : d \in Current.decided} \cup {0}),
    finalized_through <- Current.finalized,
    history <- Decided(Current),
    horizon <- IF batches = {} THEN 0 ELSE 1

(* Whatever executors, sweeps and delayed requests do, the log is one of   *)
(* the decision state machine with room for a single unfinalized decision: *)
(* no executor begins a batch before the previous one is finalized         *)
(* (invoke_distributed, recover_distributed_tail_locked).                  *)
DecisionsRefined ==
    Decisions!Init /\ [][UNCHANGED <<decisions, batches>> \/ Decisions!Next]_vars
=============================================================================
