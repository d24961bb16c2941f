# Keldra: TLA+ specifications

Keldra is a distributed object store written in Rust. A cluster of nodes agrees
through one Raft log on its membership and on the decisions of atomic programs;
objects themselves do not go through Raft but are replicated per path by a
quorum protocol, and public requests are served under short leases. This
directory holds TLA+ models of the parts whose correctness depends on
interleavings, failures and time, the TLC configurations that check them, and
TLAPS proofs of the results that matter most.

    tlc -workers 2 -config AtomicDecisions.cfg MCAtomicDecisions
    tlapm AtomicDecisionsProofs.tla

Paths below are relative to `src/`; `PROJECT.json` maps every definition to the
lines it models.

## 1. The system's parts

| Part | Where | State | Operations | Modelled by |
|---|---|---|---|---|
| Atomic decision state machine | `crates/keldra-consensus/src/state_machine.rs` | executor nomination, the one preparing batch, committed invocations, finalization watermark | NominateExecutor, BeginBatch, CommitPreparedBatch, AbortPreparedBatch, FinalizedThrough, pruning | `AtomicDecisions` |
| Serving leases | `crates/keldra-consensus/src/serving_lease.rs`, `raft.rs` | quorum proof, cutover record and grant pause of an issuer; lease and highest term of a holder | confirm leadership, grant, accept, renew, pause, follow the placement | `ServingLease` |
| Cluster membership | `crates/keldra-consensus/src/cluster_control.rs`, `membership.rs`, `raft.rs` | node descriptors, used identities, one transition, placement index; OpenRaft's voters and members | add, remove, reweight, complete, refresh, rotate keys, learner and voter changes | `ClusterMembership` |
| Object replication | `crates/keldra/src/object_distribution*`, `crates/keldra-store/src/store/{mutations,object_snapshot}.rs` | per replica: head, version descriptors, receipts; per request: observations, acknowledgements | reconcile, repair, coordinate, apply at a replica, acknowledge, read | `ObjectReplication`, `ObjectRegister` |
| Atomic program execution and recovery | `crates/keldra/src/programs/*`, `cluster_peer/programs.rs`, `crates/keldra-store/src/store/program_reservations.rs` | reservations per path, staged bundles, stored results | prepare, reserve, commit, finalize, publish, release, recover, sweep | `AtomicPrograms` |
| Join handoff, mutation admission | `crates/keldra/src/join_peer.rs`, `join_peer/handoff.rs`, `mutation_admission.rs`, `data_peer/{cutover,handoff_scope}.rs` | gate, permits and monitor of each node; phase of the leader's attempt, its pause and commit gate | enter, continue, drain, quiesce, pause, copy, activate, release, monitor, restart closed | `JoinHandoff` |
| Blob references, payload placement, collection | `crates/keldra/src/reference_delivery.rs`, `payload_*.rs`, `crates/keldra-store/src/store/{blob_references,reference_deltas}.rs` | reference deltas, delivery cursors, payload copies | seal, journal a delta, prepare the payload, deliver, apply once, collect; retirement of former owners is planned | `ReferenceDelivery` |
| Source journal, watch, derived consumers | `crates/keldra-store/src/store/{watch_journal,journal_capacity,derived_consumers}.rs` | journal entries, cursors, trim floor | append, settle, checkpoint, trim, release, wait for capacity | `ReferenceDelivery` |
| Node identity rotation | `crates/keldra/src/node_identity*.rs` | key files, phase | stage, promote, clear | its Raft commands only |
| Raft storage and transport | `crates/keldra-consensus/src/raft_storage.rs`, `codec.rs`, `tonic_peer.rs` | OpenRaft log | synchronous appends, encodings | external |
| Single-node store, group commit; program engine; index; authorization; logical records; payload codec; gateways; accounting, PersonalDB, Git | see `PROJECT.json` | | | not modelled, reason given there |

How they interact. Executors, administrators and join coordinators propose
commands to the Raft log; every node applies the same sequence
(`AtomicDecisions`, `ClusterMembership`). Completing a membership transition
moves the placement index, which names the weighted set of active nodes that
object paths are placed on. A node serves a request only under a lease for the
placement index it has applied (`ServingLease`), so that two placements are
never served at once. Under one placement, a path's first ranked replica
coordinates its mutations (`ObjectReplication`). Atomic programs take
reservations on the same paths, and their decision is a Raft entry
(`AtomicPrograms`). A stored version names its payload by content; the
coordinator journals the change of the payload's reference count with the
version, and a delivery task carries it to the payload's owners, which collect
what nobody references (`ReferenceDelivery`). When a node is added, the leader
closes every node to mutations, lets leases and programs run out, copies what
the new placement needs and commits the transition (`JoinHandoff`).

Hard behaviours: executors, leaders and coordinators that were replaced without
knowing it; commands checked when proposed and judged when applied; leases that
must end before anybody else may start; writes that stop half-way and are
completed, retried or repaired by others; requests that are lost or arrive after
their sender gave up; restarts in the middle of a transition. `PROJECT.json`
lists them as hazards, each with its line and the property that covers it.

## 2. The modules

### AtomicDecisions

One replica's view of the log. Each action applies one entry; `NextEntry` takes
the next index. Fields of a command (executor, nomination, cursors, proposal
time) come from whole sets because a sender may be deposed or have any clock.
`BeginBatch` prunes before it is judged and keeps the pruning when refused, as
`begin_batch` does. Membership is the set `eligible`, changed at will. A new
nomination can be applied at any time, which covers the repair that the renewal
loop performs. Byte bounds, digests of a batch and the two write-once bootstrap
cells are left out; a retry with a different digest is refused exactly where a
retry with the same digest is answered, and neither changes state.

`history` and `horizon` are auxiliary: all decisions ever made, and the latest
proposal time that pruned. `AtMostOncePerWindow` is relative to `horizon`: RFC
0009 section 10.3 defines expiry by a command's proposal time, so an executor
whose clock runs ahead shortens the replay window for everybody.

### ServingLease

`round`, `proof`, `observed` and `pause` are a leader's `confirm_leadership`,
its cached proof, `ServingLeaseCutover` and `ServingLeaseGrantPause`;
`placement`, `highest_term`, `request` and `lease` are a holder's
`ServingLeaseState` and its renewal in flight. A request goes through sent,
formed (the issuer holds its grant fence) and granted, so that elections,
applies, pauses, ticks and restarts fall between all of them. Time is kept as
ages and remaining times that one `Tick` moves on all nodes: the code never
compares clocks of two nodes but its argument needs them to run at the same
rate, and so does the model. Raft is external and is represented by what the
code relies on: one leader per term, commits by the newest leader only, late
applies, and quorum rounds that can only succeed if they started while their
leader was the newest.

### ClusterMembership

The state is what one node has applied, and `log` is what was appended after
it. Keldra's commands are validated when applied, OpenRaft's membership changes
only by the coordinator that proposes them, on the state it had applied then;
`MaxPending` says how far the two may be apart. Coordinators have no state of
their own: each of their steps is re-derived from applied state, as the code
does, so that a second coordinator, or the same one after a restart, can repeat
any step at any time. `ApplyFixedVoters` reads, checks and appends in one step:
`apply_fixed_voters_for_transition` and the second check in `change_membership`
run without an await up to the call of OpenRaft, and an entry appended before
the proposal and applied after its read is one the applied state lags behind. A
proposal that waits in OpenRaft's queue while entries are applied and further
commands are made from them is not covered; no property was found to depend on
it. `ReplaceVoters`, `AddMember` and `RemoveMember` are
OpenRaft's effects and external. `validate_cluster_membership` is the code's
own check of a whole state, used by properties only, because the code runs it
on snapshots and restarts and not on commands.

### ObjectReplication and ObjectRegister

One path in one placement. A process is one attempt of a command or one read,
at any node; `wire` holds requests not yet handled, in no order. `GiveUp`
covers lost requests, lost answers and timeouts with the request still on its
way. A process that takes no further step stands for a crashed node; replica
records are written synchronously and survive. Versions are numbered in the
order of allocation, and a version carries its predecessor as the descriptors
do; its `line` (all versions before it) and `begun` are history for the
properties. A `Snapshot` read repairs what it finds behind, a `Current` read
answers the quorum's head and repairs nothing.

`redrive` is the background delivery of the coordinator
(`QuorumReferenceCommitAuthority::classify` and `redrive`), which runs for ever:
the first record of the journal whose reference proof is not at a quorum is sent
to the whole group again, and delivery stops there until it is. A proof is
written in one batch with the receipt, so `Proven` reads the receipt; a repair
writes neither. `Overtaken` is the state this leaves when a successor is applied
on a replica that got its predecessor by repair, see section 5.

`ObjectRegister` is the abstract specification: one linearizable register whose
value is the sequence of commands that took effect, each at most once. The
refinement maps the register to the coordinator's records; it holds for groups
of two replicas, where the coordinator is part of every quorum.

### AtomicPrograms

Programs over two paths, from the prepared bundle to the release of the last
reservation. `decisions` is the Raft log as a sequence of decision states of
which each node has applied a prefix (`View`): an executor waits for its own
submissions, a peer answers from its own prefix. `job` is the one invocation or
recovery that holds a node's commit gate; its phases are the code's
(`reserve_participants`, the decision, `commit_participants`, `finalize`,
`advance_finalized_through`, `release_participants`). `Admit` and `Execute` are
separate because `cluster_peer/programs.rs` checks authority and then calls the
store, and `TimeOut` leaves the request on the wire. The sweep has three steps
(`SweepRead`, `SweepList`, `SweepRelease`), as its code has. Ordinary writes are
reduced to what programs see of them: refused on a reserved path, applied
replica by replica, repaired. `swept` records the batches that lost a live
reservation, which `ParticipantsHeld` leaves aside and section 5 is about.

`DecisionsRefined` composes the module with `AtomicDecisions`: every submission
of every executor is a step of the proved decision state machine, with room for
a single unfinalized decision and a replay window as wide as there are
invocations. The cluster has two nodes: both are replicas of
every path, both must acknowledge, and a repair only ever copies a successor.
With three replicas a repair may take an unacknowledged version back and
`object_triple` applies to programs as well. Evaluation of a program, alias
registries, governance reservations and the one-node path are left out.

### ReferenceDelivery

The reference count of one blob, in an unversioned bucket, under one placement.
`journal[s]` is the source journal of a path coordinator: retained records, the
floor, and the three cuts (`settled`, `referenceSafe`, `derived`) that bound
retention. A record is a head event or a lifecycle record with its delta, named
by its source and its offset; what a set of records adds to a count (`Net`) is
the number of its positive deltas less that of its negative ones, since a delta
of one blob in one event is at most one. `cursor[d][s]` and `life[n]` are the durable cursor and
`BlobReferenceState` of a destination, changed in one commit by `ApplyBatch`.
`pass[s]` is one `deliver_once`: settle, read every cursor, take and prepare a
page, one call per destination, compact; anything may happen between these
steps, and a lost answer, a replay and a refused batch are each an outcome of a
call. `stored` and `head` are version descriptors with their retention
(`JournalPending`, `JournalReleased`): pruning an event either marks the current
version as released or deletes an overwritten one and appends the delayed
release, and an overwrite releases its predecessor itself only if that is
already marked. `gc[n]` is a collection between `gc_safe` (one remote tail at a
time) and the commit that reads the lifecycle record again.

Abstractions. A `LOCAL` publication that places copies in the background does so
at once or never, since the next delivery pass does the same; `LOCAL` and
`REPLICATED` are a choice. The index, accounting and watch consumers are one
checkpoint. Nodes that coordinate no path journal only records without a delta,
and their journals are left out (`Journaled`). Time is the age of a lifecycle
record; `GraceAssumption` states what RFC 0009 asks of the grace period, that
it outlasts an upload or a collection in progress. The initial state is a path
with one delivered version, whose event is still retained or was pruned long
ago: both ways a predecessor can be released start there.

### JoinHandoff

One ADD, from the joining node's Activate call to the last gate that opens.
`gate[n]` is the `drain` of a node's `MutationAdmission` (one transition, so
one drain identity), `Permits(n)` its count, taken from the writes in progress:
where a call entered, where it is coordinated, where a replica is being written.
`monitored` are the nodes with a running `monitor_add`. `attempt[n]` is one
`ensure_handoff_complete` of node n and then its `JoinActivationPermit`, with
the single-flight lock, commit gate and lease pause that end with it; its phases
follow the code line by line, and at every call the peer may refuse because it
knows another leader or has applied the activation. `knows`, `placed` and
`elected` are Raft as the code sees it: each node's own leader, its own applied
state. A write is an object mutation, which enters again at the coordinator and
needs a lease, or a program invocation, which continues there and needs the
commit gate. What `ObjectReplication`, `ServingLease` and `AtomicPrograms` check
in detail is here one step each: `CutoverWait` takes from `PauseDrainsLeases`
that no lease of the leader's own is left. `CaughtUp` is what Raft gives a node
that has just had its leadership confirmed or an entry of its own committed:
whatever was committed before is applied there, so a grant or a decision after
the activation is made under the new placement.

A write is journalled where it is coordinated (`JournalTails`) and settles when
a quorum stores it; a record its call left below that is sent again (`Redrive`),
through closed gates, by the delivery of the source journal or, for a program,
by the executor's recovery. `SampleTails` and `CheckSuffix` wait for settled
journals (`settled_journal_tails`), `AwaitReferenceCursors` for the references
of every journal to be applied on the old nodes, all without a limit of their
own and with gates, commit gate and lease pause held. `stuck` says that other
traffic left a record behind that can never settle (`Overtaken` of
`ObjectReplication`) or never be delivered (`Undeliverable` of
`ReferenceDelivery`); both are reachable, and the handoff then waits for ever.
It holds up the wait it belongs to and nothing else.

Abstractions. The copy is the set of writes a quorum of the old replicas
selects (`Selected`), installed in one step: a mutation between the samples on
both sides of it ends the attempt, so finer steps decide nothing. A second ADD
and calls of an ended attempt that are delivered late are left out. The final
voter change and completion are in `ClusterMembership`. `unbroken` is history:
whether the leader that activated kept its term since its attempt began.

## 3. The runs

| Run | Instance | Checks |
|---|---|---|
| `atomic_decisions` | 2 executors, 2 invocations, 8 entries, a tail of 1 and a window of 2, times 1..3 | a batch decided at most once in its window; no decision pruned that recovery needs; a preparing batch always held by the nominated executor; decisions serial and fenced; both windows bounded |
| `serving_lease` | 2 nodes, 2 elections, 1 placement change, timing 1/1/2 | never two placements served at once |
| `serving_lease_live` | 2 nodes, a handoff on one, 2 elections, timing 1/2/3, `TimelySpec` | after the pause no lease is left; whenever no handoff holds a pause for good, every node serves again and again |
| `cluster_membership` | 3 nodes and a refused descriptor, 2 voters, a key that a rotation and a candidate both use, 16 entries, 2 pending | every applied state loads again; placement index names one weighted active set; a key pin names one node; removed identities stay out |
| `object_replication` | 2 replicas, 3 processes of any kind, 2 commands | acknowledged versions survive; the path is a linearizable register |
| `atomic_programs` | 2 nodes, 2 paths, three programs of which batches with two participants are begun, 6 entries, 2 disruptions | programs are atomic and overtake no acknowledged write; decided participants are held; decisions refine `AtomicDecisions` |
| `reference_delivery` | a coordinator, a payload owner, a journal of 2 records, 2 requests, any number of restarts and lost answers | references conserved; nothing pruned that a destination needs; published bytes kept; a waiting writer is served |
| `object_redrive` | 2 replicas, 2 processes, 2 commands, `FairSpec` | every record of the journal settles, unless one up to it was overtaken |
| `join_handoff` | 2 active nodes and a joining one, one write of either kind entering at either, 2 terms, 1 fault, `FairSpec` | acknowledged writes are carried over; the activation happens and the gates open again, unless a record is stuck |
| `genesis_restart`, `object_triple`, `atomic_programs_sweep` | | disagreements, see section 5 |

Bounds. Eight entries allow nominate, begin, commit, finalize, a second
nomination and a second complete decision of the same invocation, with pruning
in between; a tail of one makes both limits bind. Two nodes are enough for
leases because every hazard is between one deposed and one current issuer, and
every node is issuer and holder at once; the timings are the tightest the
assumption `ProofAge + Lifetime <= CutoverWait` allows (500 ms, 2 s and 3 s in
the code leave half a second of slack). Sixteen entries suffice to admit
three nodes, remove one, and refill its voter seat; the target of two voters
instead of three keeps the case of a non-voting active node and of a vacancy
within three nodes. Three processes give a retry, a rival and a read, or two
rivals and a repairing read, and no property relates more than three; for
settlement two are enough, as they leave the coordinator two versions ahead of
the other replica. A
disruption of `AtomicPrograms` is a new nomination, a failed job, an unanswered
request, an ordinary write or a sweep; two of them give a late request that
meets a new executor, a write between two recoveries, or a sweep and a write;
six entries hold a nomination, a complete batch with its watermark, and a second
nomination with a begin or a commit. In `reference_delivery` two requests after
the initial version give puts, overwrites and deletes in every order; a journal
of two records is full after the second commit, after the release of an
overwritten version, or after a collection has journalled its removal, so that
writers wait, force a pruning, and prune versions that were overwritten.
Offsets, restarts
and lost answers are not bounded: the number of records is, by the requests and
the releases they cause. In `join_handoff` one write is enough because paths
are independent; it meets every phase, and with a fault (a restart, a failed or
cancelled call, a lost answer, a client that leaves) and a change of leader
there is a failed attempt, a successor that releases its drains, and a write in
between. Three terms and three ACTIVE nodes are left to the theorem.

Deadlock is checked in the lease runs, whose time never stops. The others stop
at their bounds, or when all processes are done, and say
`CHECK_DEADLOCK FALSE`.

Symmetry is used over identities that occur in no ordering, and in no run with
a liveness property.

Fairness. `TimelySpec`: weak fairness of time, of the first election, of
a deposed leader learning its successor's term, of applying committed entries,
of answering rounds and requests, and of asking again: the renewal loop retries
for ever, OpenRaft elects and replicates while a quorum is connected, and each
exchange has a timeout. `TimelySpec` additionally confines delays to one tick
and excludes crashes; without that a node whose every grant arrives late
legitimately never serves. A handoff may pause grants at any time and has no
fairness: the property only speaks of behaviours in which pauses end. Elections and placement changes are bounded, as
liveness is meant for clusters that settle.

`FairSpec` of `ReferenceDelivery`: weak fairness of the coordinator's own steps
for a request (its retry loop has a timer) and of the journal's other cuts; of
the delivery loop starting a pass and of a call timing out, since the loop never
stops and every call has a deadline; strong fairness of a page that is not
blocked, of a destination answering and of compaction, that is, of peers that
are asked again and again and are not unreachable for ever. Nothing is assumed
of clients, collections, time or restarts. `Undeliverable` is excepted because
it is reachable and permanent, see section 5.

`FairSpec` of `ObjectReplication`: weak fairness of `redrive`, since the loop
in `reference_delivery/runtime.rs` never stops, and of a redriven request
arriving at each replica, that is, of peers that are reached in the end.
Clients, attempts, repairs and every request of theirs may stop or be lost at
any point.

`FairSpec` of `JoinHandoff`: weak fairness of what goes on by itself (admitted
work ends, records below a quorum are redriven, a vacant leadership is filled, followers learn of the leader and
apply, monitors tick; each finitely often, so that one condition serves all), of
each handoff, as the joining node repeats its Activate call and each call has a
deadline, and of leases that run out. Clients, grants, a call's own deliveries,
faults, stuck records and rival elections are free. The liveness is that of a
cluster whose faults and elections end and whose journals hold no stuck record:
`HandoffCompletes` and `GatesReopen` except it, as `WaitingWriterServed` excepts
`Undeliverable`.

## 4. What is proved

TLAPS checks these for every value of the constants that satisfies the named
assumption, so without any of the bounds above.

`AtomicDecisionsProofs` (assumption `DecisionConstants`):
`DecisionsTypeCorrect`, `ReplayAtMostOnce`, `RecoveryTailIsComplete`,
`PreparationNeverOrphaned`, `RetentionStaysBounded`,
`DecisionsSerialAndFenced`. The inductive invariant
`IInv` adds three facts. `CursorsOrdered`: watermark, last commit and begin
cursors are ordered and no decision carries a fence newer than the current
nomination, without which a late nomination could precede an earlier decision.
`PrunedOnlyWhenSafe`: what is no longer retained was finalized and expired,
which ties `committed` to `history`. `PreparedIsNew`: the preparing invocation
is not among the retained ones, which is what the check in `BeginBatch`
establishes and every later entry until the commit must preserve. There is one
lemma per action.

`ServingLeaseProofs` (assumption `LeaseTiming`): `LeasesTypeCorrect`,
`LeasesNeverOverlapPlacements`, `PausedClusterIsDrained`. The heart of the
argument is `QuietWithin(p, w)`: within w ticks no lease, grant, proof or
running round can give authority for a placement below p. Observing a new
placement establishes it with w = `CutoverWait`, because whatever authority is
left is a lease, a grant on its way, or a proof or round that is at most
`ProofAge` old and can yield one more lease of at most `Lifetime`
(`WaitIsEnough`). Every tick lowers both sides by one; no other action can
create authority for an older placement, because a round that starts now reads
the committed placement. A grant, and then a lease, is given only at w = 0,
hence `CutoverQuiet`. `DrainedWithin` is the same argument for a paused issuer.

`ClusterMembershipProofs` (assumption `MembershipConstants`: finitely many
nodes, candidate descriptors as `validate_descriptor` admits them): `TypesHold`,
`PinsNameOneNode`, `PlacementIsNamed`, `EveryRestartLoads`, `RemovedStaysOut`.
`ControlInv` is the invariant of the replicated control state alone: types, the
shape of an open transition (`TransitionOK`: which node it names and in which
state that node is) and the pins. `MembershipInv` adds how OpenRaft's membership
and the log lag behind or run ahead of it: `GenesisOK` before any node is
ACTIVE, and afterwards `MembersOK` (every membership in the log consists of
admitted nodes and has them all, except the one that is joining or leaving) and
`VotersOK` (only ACTIVE nodes vote, and down the log the electorate changes at
most once, to the full one the open transition wants, however many coordinators
propose it). The whole-state check at restart reads both halves, while each
command is judged on one, so neither invariant suffices alone. Without the voter
check of `MembershipReady` the proof fails in one step only, that a completion
closes a transition with the full electorate.

`ObjectReplicationProofs`: `TypesHold` for every group; `AcknowledgedStays` and
`PairIsRegister` under the hypothesis `PairGroup`, a group of two replicas,
where both are needed for an acknowledgement. (`object_triple` shows that the
first is false for three.) `PairInv` says that the coordinator's records are one
chain without gaps that never shrinks, with receipts for exactly the commands in
it (`ChainOK`); that a repair on the wire advances its replica by one record and
a request to apply is one its attempt still stands for (`WireOK`); that what a
process observed is of the past but the coordinator's head no older than the
process (`ReadingOK`, `RepairingOK`, `ReplicatingOK`); and that both replicas
have reached every acknowledged version (`AckedOK`). The refinement is proved
step by step: a new record of the coordinator is the register's write, a
completed operation its answer, everything else, redrives included, leaves the
register alone.

`JoinHandoffProofs` (assumption `ActiveAssumption`): `TypesHold`,
`NothingLeftBehind`. An attempt is current while its term is the Raft term.
`TermsOK` ties terms of attempts, elections and the leader, so that a current
attempt is the leader's. `CurrentOK` is what such an attempt has established
phase by phase: a gate it closed is closed on a node that has known no other
leader since (`DrainsHold`: only the leader a node knows, the activation or a
restart can open a gate, and a restart before the activation comes up closed); a
node that answered holds no public call; after the wait there is no lease; after
the copy every acknowledged write is on the joining node. `CarriedOK` carries
this over the activation: no write with the old fence has anybody left to
answer, and no lease for the old placement can come back, because whoever grants
or decides has caught up. Every action is first shown to make only moves of
writes of one kind (`WriteMove`) or of attempts of one kind (`HandoffFrame`),
and the invariant is proved for those. If nodes restarted with an open gate,
exactly the step that cites `initial_mutation_admission` would fail.

`ReferenceDeliveryProofs` (assumptions `PlacementAssumption`, with finitely many
nodes, and `GraceAssumption`): `NothingPrunedUnapplied`, `CountsConserved`,
`BytesKept` and `TypesHold`, which are `NoDestinationGap`, `ReferencesConserved`,
`PublishedBytesKept` and `TypeOK`. Four invariants, each over the ones before.

*Nothing is pruned unapplied.* The reference-safe cut that retention obeys is in
memory, computed from answers a pass has collected over time, while cursors are
durable and advance at the destinations. `DeliveryInv` says that this cut, like
the floor, is behind every cursor (`CutsOK`), and that what a pass has seen is of
the past and a batch it still has to send lies between that and the tail
(`PassOK`). A restart may then lower the cut to the floor, an answer may be lost
after its batch was applied, and the delayed releases may move the tail, without
opening a gap. Every action is shown to be a move of journals, cursors and passes
of one kind (`JournalMoves`, `CursorMoves`, `PassMoves`).

*References are conserved.* The model names a reference in flight by its source
and offset, so a count is the cardinality of a set of records and a step is a
bijection or a disjoint union, which needs no induction over sequences. `CountInv`
adds to the conservation itself (`Conserved`) what makes each step balance:
`IdsOK`, that a request's number names at most one descriptor and one retained
record, so that a pruned event releases one version and the commit of an open
request adds a new one; `LifeOK`, that a copy that is not held counts nothing and
a reservation counts as none of the delivered references, so that sealing,
re-reservation and collection leave counts alone; `Budget`, that versions stored
and releases on their way each come from a request of their own, which bounds
the counts. The three callers of retention are one kind of step
(`RetentionPass`): `ReleasesCounted` and `RetainedCounted` show that the delayed
releases a pass appends are as many as the versions it deletes. A batch takes its
deltas out of flight and puts them into the count (`BatchFlight`, `ApplyCounts`);
all other steps move cursors only over records without a delta (`QuietStep`).

*Bytes are kept.* A collection looks at the sources one by one and removes the
copy later. `BytesInv` has two clauses for what may happen in between. `Fresh`: a
reference that this node has not seen, from a source it has already checked, was
committed after the check, and the copy its upload sealed is at most an upload
and the collection's own age old (`SourceHeld`, `YoungRequests`), hence within the
grace period by `UploadTicks + GcTicks < Ttl`. `Taken`: a reference that some page
has taken was prepared on every owner that has yet to apply it, so those copies
were refreshed after their own check. `AnotherCopy` combines them with the
conservation: while a version is stored, the copy to be collected is not the
last, because a reference is counted on some owner, whose copy then is no
garbage, or is in flight, and then `Fresh` or `Taken` names another copy.

*Types.* `TypeInv` adds the order of the cuts and that a head names a stored
version: retention deletes the descriptors of overwritten versions only. The
bound on the counts follows from `Conserved` and `Budget`.

`AtomicProgramsProofs` (assumption `ProgramConstants`: two nodes, an authority
for every path, programs that write some of their participants, each once):
`ProgramsTakeEffectWhole`, which is `ProgramsAtomic`. `ProgramInv` has three
layers. The log (`LogOK`): it protects one batch at a time, and the node that is
executor has applied all of it, so that its view is not stale; `Tenure` adds
that nobody else moves the watermark while it is. The versions (`VersionsOK`,
`HeadsOK`, `OneLine`): a version succeeds settled ones only, and of two versions
of a path the later one succeeds the earlier, unless that one was bypassed by
the authority or its batch aborted; this is why a replica that is ahead may
agree to a publication, and why a replay after recovery finds its own version.
Progress (`JobsOK`, `WireOK`, `FinalOK`, `AckedOK`): a job's acknowledgements in a
round are no more than the replicas that hold the version, a request whose sender
still waits is one of its current round, and a request given up, whenever it is
executed, is of a decided batch if it publishes. Reservations do not occur:
they protect what a program observed (`ParticipantsHeld`), not that it takes
effect as a whole. Each action is shown either to leave data and log alone
(`QuietStep`), to append a log entry (`EntryStep`), or to move heads forward
(`DataStep`); a new version is treated on its own.

`AtomicReservationProofs` (same assumption) adds the reservations:
`ReservationsHold`, which is `ParticipantsHeld`. `FenceInv`, over `ProgramInv`,
says that a batch is decided at most once and released, by whatever late
request, only when the log no longer protects it (`DecidedOnce`,
`ReleasesOver`); that a job which counts reservations has as many, and has them
on every node for all participants when it decides (`JobsFenced`), so that a
decided batch that no sweep took from holds all of them (`DecidedFenced`). What
it protects is subtler than "a reserved head does not move": repair copies
versions to reserved paths too. `FencedHeads` says that a reserved path shows
what the batch observed or wrote, or else another node, which is not reserved
for the batch, has moved past what the batch observed; such a batch is lost,
since a new reservation is made over the observed head only, and heads never
move back in a group of two. A decided batch is reserved everywhere, so it is
not lost. The proof is one lemma per action over what a step owes to
reservations: a batch that is over stays over (`StaysOver`), the reservations of
a live batch stay (`FencesStay`), and a new one fits (`FencesFit`).

The same module proves the refinement: `LogIsDecisionMachine`, which is
`DecisionsRefined`, from the further assumption `LogConstants` (no node is
`None`, the log bound is a number, there are finitely many invocations). The five
actions that append to the log are each a step of `AtomicDecisions`
(`NominateRefines`, `InvokeRefines`, `CommitRefines`, `AbortRefines`,
`AdvanceRefines`), and every other action leaves the mapped state as it is. Their
guards are weaker than those of the state machine, which also compares cursors,
windows and expiries, so the rest comes from invariants: `Tenure` and `LogOK` of
`ProgramInv` give that the watermark never moves back and that nothing is
unfinalized when a batch is prepared, hence the commit window of one entry; and
`DecideInv` that an executor has a nomination, that decisions have a latest one,
which is what the last commit cursor maps to, and that no invocation is decided
twice or prepared after it was decided, hence fewer decisions than invocations
while one is being prepared, the replay window of the mapping. Replay expiry
does not occur at this level: every expiry is later than the clock, and
`AtMostOncePerWindow` is proved of `AtomicDecisions` itself.

`TypesHold` of the same module is `TypeOK`, from the same assumptions. That a
reservation names a nomination that was made is not local to the store: a late
request of a deposed executor may write it. `NameInv` follows the nomination from
the log to jobs (an executor in any applied prefix has one), from jobs to
requests whose sender waits (`WireOK`), to late copies of those (`LateNamed`) and
to reservations (`FencesFollow`); the commit index comes along with the decision
it stands for.

Only model-checked: the liveness properties `EveryNodeServesAgain`,
`JournalSettles`, `WaitingWriterServed`, `HandoffCompletes` and `GatesReopen`, which need fairness.
Every invariant and every other property of the passing runs is a theorem.
Liveness under fairness, induction over data and RECURSIVE operators are out of
the prover's reach; no module uses the latter.

## 5. Disagreements between the code and its documents

* `genesis_restart`. After the genesis node has applied its own BeginAddNode
  and before the first completion it is JOINING, so the expected number of
  voters is zero while it is itself the one voter.
  `MachineState::validate_cluster_membership` refuses that state and is run
  whenever the data directory is opened, so a crash at this point leaves a node
  that never starts. RFC 0010 asks for a restart of the persisted identity at
  every bootstrap boundary.
* `object_triple`. In a 2/3 group a read that sees an unfinished write on one
  replica selects the old version and sends that replica a repair. The compare
  condition is the version it observed, which is still there after the other
  replicas have applied and acknowledged the write, so the acknowledged version
  is left on one replica and the next read discards it. The comment at
  `repair_object_path_snapshot` says that this compare condition prevents it.
* `atomic_programs_sweep`. `sweep_stale_local_reservations` copies the begin
  cursors of the decision state, drops it, and then lists the reservations. A
  batch begun and reserved in between is released although it is live, an
  ordinary write is admitted, and the batch is decided over a participant that
  changed. A comment in `program_reservations.rs` says that an exact
  reservation "has excluded ordinary mutations ever since". The decided batch
  can then be neither published nor reserved again.

One more was met while modelling the redrive of `ObjectReplication` and has no
run of its own.

* A mutation that cannot be replayed (`Overtaken`; `JournalSettles` without that
  exception shows a trace). In a 2/2 group the request of one mutation to the
  second replica is lost, the next mutation of the path reconciles, and its repair
  brings the replica to the first version. `repair_object_path_snapshot` writes
  head and descriptor, neither the receipt nor the reference proof. Once the
  second mutation is applied there, `apply_object_mutation_replica` refuses
  every redrive of the first, and every retry of its client, as a lineage gap:
  the head is newer and no identical receipt is kept. Its proof stays on one
  replica, `settled_through` stops before it for ever, and with it watch
  consumers, journal space and every later cutover. RFC 0012 says that a
  "cancelled or restarted distributed mutation is replayed from its exact typed
  proof" (line 949). `JournalSettles` shows that nothing else stops settlement
  of a path, and the handoff counts such a record as stuck.

Two while modelling `ReferenceDelivery`.

* A reference that cannot be delivered (`Undeliverable`; adding its negation as
  an invariant of `reference_delivery` shows a trace). A path is deleted, the
  same content is uploaded again while its copies are still counted, so that
  sealing only refreshes them, and is published. The release of the deleted
  version is delivered in an earlier page than the new reference and brings
  every copy to zero. `complete_copy_state` reports a copy with a count of zero
  as missing, so the payload of the new reference can never be prepared: the
  object cannot be read, and the source journal cannot be compacted beyond that
  record until somebody uploads the content again. RFC 0009 (lines 389-393)
  says that a publication "may republish still retained count-zero bytes during
  that window" and that this "makes any number of identical uploads safe when
  they complete within the threshold".
* The comment of `advance_source_journal_settled_through` says "This cut never
  controls journal pruning"; `enforce_local_watch_retention_inner` takes the
  minimum of the reference-safe cut and the settled cut.

And two while modelling `JoinHandoff`.

* A gate that stays closed. `drain_old_membership` closes the leader's own gate
  without a monitor, and `JoinActivationPermit::release` returns at the first
  remote release that fails, before its own. If the answer to the activation or
  one release is lost, the leader refuses mutations until it restarts: a
  repeated Activate finds the node ACTIVE and skips the handoff, and the next
  ADD is refused because "another membership cutover already owns mutation
  admission". `mutation_admission.rs` (lines 6-8) says that "failed or cancelled
  handoffs remain closed until the next authoritative retry or the Raft
  transition monitor releases them". `GatesReopen` therefore excepts nodes that
  were leader; without the exception the run shows a trace with one lost answer.
* A leader elected again. `require_current` compares no terms. A leader deposed
  after its last sample, whose successor is called by the joining node, reopens
  the gates and acknowledges a write, goes on when it is elected again before it
  has learned of the successor, and activates without that write. It takes three
  elections and one lost call, and the comment in `handoff.rs` (line 511) calls
  the drain "the authoritative mutation boundary". `AckedCarried` is stated for
  a leader that kept its term (`unbroken`); without that condition `MaxTerm = 3`
  shows a trace.

## 6. Plan

In this order:

1. Extensions of `ReferenceDelivery`: two placements with the retirement of
   former owners (`payload_gc.rs`), user-retained versions, erasure shards.
2. Extensions of `ObjectReplication`: batched mutations, deletion of retained
   versions, receipt expiry, a change of placement.
3. Candidates after that: rotation's key files and phases, publication of index
   generations, the authorization evaluator as a checked algorithm.

### Not modelled

Byte formats, erasure coding, gateways and clients are translation and I/O over
the parts above; OpenRaft is external. Most of the repository's lines are of
that kind, or tests, examples, benchmarks, index segment formats and query
evaluation, the Git, PersonalDB and plugin gateways, administration and
observability: code with no concurrent state of its own, where a model would
repeat the program. The modules therefore cover a small share of the lines, and
follow the protocols that other code relies on; `PROJECT.json` gives the reason
for each component that is left out.
