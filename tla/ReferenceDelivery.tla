--------------------------- MODULE ReferenceDelivery ---------------------------
(***************************************************************************)
(* How a blob's reference count follows the object versions that name it.  *)
(*                                                                         *)
(* A path coordinator stores an object version and, in the same commit, a  *)
(* head event with a reference delta in its source journal.  One delivery  *)
(* task per source carries the deltas, in journal order, to every node     *)
(* that owns a copy of the payload; every destination keeps a durable      *)
(* cursor per source.  The journal is bounded: a record is pruned only     *)
(* below the cuts of reference delivery, visibility settlement and the     *)
(* derived consumers, and pruning a head event is what releases the        *)
(* version an overwrite has left behind.  Payload copies whose count is    *)
(* zero, or that no publication has claimed, are collected when they have  *)
(* been idle for the grace period and the node has consumed every source.  *)
(*                                                                         *)
(* One blob is modelled (counts of different blobs are independent), in an *)
(* unversioned bucket, under one placement: every node of Nodes is ACTIVE. *)
(***************************************************************************)
EXTENDS Integers, Sequences, FiniteSets, FiniteSetsExt

CONSTANTS Nodes,       \* the ACTIVE nodes: each is a source and a destination
          Owners,      \* the payload owners of the blob
          Paths,       \* object paths
          Coordinator, \* the coordinator of each path
          Gateways,    \* the nodes a client may upload to
          MaxRetained, \* records the source journal may retain
          Ttl,         \* the grace period, in ticks
          UploadTicks, \* ticks from the seal of an upload to its commit
          GcTicks,     \* ticks from the safety check of a collection to its commit
          MaxRequests  \* bound: client requests after the initial version

ASSUME PlacementAssumption ==
    /\ IsFiniteSet(Nodes)
    /\ Owners \subseteq Nodes /\ Owners # {}
    /\ Gateways \subseteq Nodes
    /\ Coordinator \in [Paths -> Nodes]

\* The grace period outlasts an upload and a collection that overlap.
ASSUME GraceAssumption ==
    /\ {MaxRetained, Ttl, UploadTicks, GcTicks, MaxRequests} \subseteq Nat
    /\ MaxRetained > 0
    /\ UploadTicks + GcTicks < Ttl

VARIABLES
    journal,  \* journal[s]: retained records, their cuts
    cursor,   \* cursor[d][s]: what d has applied of source s
    life,     \* life[n]: the lifecycle record of n's copy of the blob
    stored,   \* the version descriptors the coordinators keep
    head,     \* head[p]: id of the current version of a path, 0 when none
    request,  \* request[p]: the client request in progress for a path
    requests, \* id of the latest request; 1 is the initial version's
    pass,     \* pass[s]: the delivery task of source s
    safe,     \* safe[n]: the reference_safe flag of n's runtime
    gc        \* gc[n]: the collection in progress on n

vars == <<journal, cursor, life, stored, head, request, requests, pass, safe, gc>>

-----------------------------------------------------------------------------
(* The source journal. *)

\* A record names a version (0 for a lifecycle record) and the change it makes
\* to the blob's count.
Record(id, path, delta) == [id |-> id, path |-> path, delta |-> delta]
Lifecycle(delta) == Record(0, "-", delta)
IsHead(record) == record.id # 0

\* A node that coordinates no path journals lifecycle records only, which carry
\* no delta: its journal is left out, as if it were always delivered.
Journaled == {Coordinator[p] : p \in Paths}

EmptyJournal == [log |-> <<>>, floor |-> 0, settled |-> 0, referenceSafe |-> 0, derived |-> 0]

TailOf(s) == journal[s].floor + Len(journal[s].log)

\* The retained record at an offset.
At(s, offset) ==
    IF offset \in (journal[s].floor + 1)..TailOf(s)
    THEN journal[s].log[offset - journal[s].floor]
    ELSE Lifecycle(0)

\* A record of some journal is named by its source and its offset.
Delta(r) == At(r[1], r[2]).delta

\* What a set of records adds to the count.
Net(records) ==
    Cardinality({r \in records : Delta(r) > 0}) - Cardinality({r \in records : Delta(r) < 0})

\* A bounded append is admitted only below the limit.
Fits(s) == s \in Journaled => Len(journal[s].log) < MaxRetained

\* Append a head event: its reference effect is deferred to delivery.
AppendDeferred(j, record) == [j EXCEPT !.log = Append(@, record)]

\* Append a record without reference effects: a settled cut at the tail follows
\* it, and so does the source's own cursor.
AppendInert(s) ==
    IF s \notin Journaled THEN journal[s] ELSE
    [journal[s] EXCEPT !.log = Append(@, Lifecycle(0)),
                       !.settled = IF @ = TailOf(s) THEN @ + 1 ELSE @]
SelfCursor(s) == IF s \in Journaled /\ cursor[s][s] = TailOf(s) THEN TailOf(s) + 1 ELSE cursor[s][s]

-----------------------------------------------------------------------------
(* Retention: prune below every cut, release what the pruned events held.   *)

\* Mutant: retention waits for the derived consumers only.
SafeThroughDerived(j) == Min({j.settled, j.derived})

SafeThrough(j) == Min({j.referenceSafe, j.settled, j.derived})

\* Mutant: a waiting writer's pass removes records only above the limit.
PruneCountUnforced(j, force) ==
    LET over == Len(j.log) - MaxRetained
        allowed == SafeThrough(j) - j.floor
    IN  IF over <= 0 \/ allowed <= 0 THEN 0 ELSE Min({over, allowed})

\* How many records one retention pass removes.
PruneCount(j, force) ==
    LET over == Len(j.log) - MaxRetained
        wanted == IF over > 0 THEN over ELSE IF force THEN 1 ELSE 0
        allowed == SafeThrough(j) - j.floor
    IN  IF allowed <= 0 THEN 0 ELSE Min({wanted, allowed})

PrunedIds(j, force) ==
    {j.log[i].id : i \in 1..PruneCount(j, force)} \ {0}

\* The descriptors whose event is pruned: the current version keeps its
\* descriptor, now released; another one is deleted.
PrunedPending(j, force) ==
    {v \in stored : v.id \in PrunedIds(j, force) /\ v.retention = "pending"}
IsCurrent(v) == head[v.path] = v.id
RetainedVersions(j, force) ==
    (stored \ PrunedPending(j, force))
        \cup {[v EXCEPT !.retention = "released"] :
                v \in {w \in PrunedPending(j, force) : IsCurrent(w)}}

\* The m-th of a set of offsets.
Nth(offsets, m) == CHOOSE i \in offsets : Cardinality({h \in offsets : h <= i}) = m

\* The delayed releases of one pass, in the order of the pruned events that left
\* an overwritten version behind, appended whatever the limit.
DelayedReleases(j, force) ==
    LET retired == {v \in PrunedPending(j, force) : ~IsCurrent(v)}
        events == {i \in 1..PruneCount(j, force) : \E v \in retired : v.id = j.log[i].id}
        holds(record) == \E v \in retired : v.id = record.id /\ v.put
    IN  [m \in 1..Cardinality(events) |->
            Lifecycle(IF holds(j.log[Nth(events, m)]) THEN -1 ELSE 0)]

Pruned(j, force) ==
    [j EXCEPT !.log = SubSeq(@, PruneCount(j, force) + 1, Len(@)) \o DelayedReleases(j, force),
              !.floor = @ + PruneCount(j, force)]

-----------------------------------------------------------------------------
(* The lifecycle record of a payload copy. *)

NoCopy == [held |-> FALSE, refs |-> 0, awaiting |-> FALSE, age |-> 0]
Valid(copy) == copy.held /\ copy.refs # 0
Counted(copy) == IF copy.awaiting THEN 0 ELSE copy.refs

\* Mutant: sealing content that is already there adds a reservation.
SealedAgain(copy) ==
    [held |-> TRUE, refs |-> copy.refs + 1, awaiting |-> TRUE, age |-> 0]

\* Sealing reserves a missing or count-zero copy and refreshes any other one.
Sealed(copy) ==
    IF Valid(copy)
    THEN [copy EXCEPT !.age = 0]
    ELSE [held |-> TRUE, refs |-> 1, awaiting |-> TRUE, age |-> 0]

\* A destination applies the records of a batch in the order of their offsets; it
\* refuses a positive delta for a copy it does not hold with a nonzero count, and
\* a negative one that would underflow.
Applicable(copy, batch) ==
    \/ batch = {}
    \/ /\ copy.held
       /\ (\E r \in batch : Delta(r) > 0) => copy.refs # 0
       /\ \A r \in batch :
            Delta(r) < 0 => Counted(copy) + Net({h \in batch : h[2] < r[2]}) > 0

\* The first positive delta consumes the reservation.
Applied(copy, batch) ==
    IF batch = {} THEN copy
    ELSE [copy EXCEPT !.refs = Counted(copy) + Net(batch), !.awaiting = FALSE, !.age = 0]

Unclaimed(copy) == copy.held /\ (copy.refs = 0 \/ copy.awaiting)
Garbage(copy) == Unclaimed(copy) /\ copy.age >= Ttl

-----------------------------------------------------------------------------
Idle == [phase |-> "idle", put |-> FALSE, source |-> "-", id |-> 0, age |-> 0]
IdlePass == [phase |-> "idle", seen |-> [d \in Nodes |-> 0], through |-> 0, todo |-> {}, failed |-> FALSE]
IdleGc == [phase |-> "idle", left |-> {}, age |-> 0]

\* A path whose one version has been delivered and consumed by everybody.  Its
\* head event is still retained (pending), or it was pruned long ago (released)
\* and offsets are counted from there.
Published(p, retention) ==
    LET c == Coordinator[p]
        retained == IF retention = "pending" THEN <<Record(1, p, 1)>> ELSE <<>>
        cut == Len(retained)
    IN  /\ stored = {[path |-> p, id |-> 1, put |-> TRUE, retention |-> retention]}
        /\ head = [q \in Paths |-> IF q = p THEN 1 ELSE 0]
        /\ life = [n \in Nodes |-> IF n \in Owners
                                  THEN [held |-> TRUE, refs |-> 1, awaiting |-> FALSE, age |-> Ttl]
                                  ELSE NoCopy]
        /\ journal = [s \in Nodes |-> IF s # c THEN EmptyJournal
                         ELSE [log |-> retained, floor |-> 0, settled |-> cut,
                               referenceSafe |-> cut, derived |-> cut]]
        /\ cursor = [d \in Nodes |-> [s \in Nodes |-> IF s = c THEN cut ELSE 0]]

Init ==
    /\ \E p \in Paths, retention \in {"pending", "released"} : Published(p, retention)
    /\ request = [p \in Paths |-> Idle]
    /\ requests = 1
    /\ pass = [s \in Nodes |-> IdlePass]
    /\ safe = [n \in Nodes |-> n \notin Journaled]
    /\ gc = [n \in Nodes |-> IdleGc]

-----------------------------------------------------------------------------
(* Client requests, run by the path's coordinator. *)

\* The upload node seals the payload: a bounded journal append.
Upload(p, u) ==
    /\ request[p].phase = "idle" /\ requests <= MaxRequests
    /\ Fits(u)
    /\ life' = [life EXCEPT ![u] = Sealed(@)]
    /\ journal' = [journal EXCEPT ![u] = AppendInert(u)]
    /\ cursor' = [cursor EXCEPT ![u][u] = SelfCursor(u)]
    /\ requests' = requests + 1
    /\ request' = [request EXCEPT ![p] =
                     [phase |-> "ready", put |-> TRUE, source |-> u, id |-> requests', age |-> 0]]
    /\ UNCHANGED <<stored, head, pass, safe, gc>>

CurrentVersion(p) == {v \in stored : v.path = p /\ IsCurrent(v)}

StartDelete(p) ==
    /\ request[p].phase = "idle" /\ requests <= MaxRequests
    /\ \E v \in CurrentVersion(p) : v.put
    /\ requests' = requests + 1
    /\ request' = [request EXCEPT ![p] = [Idle EXCEPT !.phase = "verified", !.id = requests']]
    /\ UNCHANGED <<journal, cursor, life, stored, head, pass, safe, gc>>

\* The copies a complete source at u is installed on, without a journal record.
Placed(copies) == [n \in Nodes |-> IF n \in Owners THEN Sealed(copies[n]) ELSE copies[n]]

\* Verify the upload source's copy; a REPLICATED request also installs the final
\* copies, a LOCAL one does not.
PreparePayload(p) ==
    /\ request[p].phase = "ready"
    /\ IF Valid(life[request[p].source])
       THEN /\ request' = [request EXCEPT ![p].phase = "verified"]
            /\ life' \in {life, Placed(life)}
       ELSE request' = [request EXCEPT ![p] = Idle] /\ UNCHANGED life
    /\ UNCHANGED <<journal, cursor, stored, head, requests, pass, safe, gc>>

\* The predecessor releases its reference now only if its event was pruned.
ReleasedPredecessor(p) == {v \in CurrentVersion(p) : v.retention = "released"}
\* Mutant: an overwrite releases a predecessor whose event is still retained.
HeadDeltaEager(p, put) ==
    (IF put THEN 1 ELSE 0) - Cardinality({v \in CurrentVersion(p) : v.put})

HeadDelta(p, put) ==
    (IF put THEN 1 ELSE 0) - Cardinality({v \in ReleasedPredecessor(p) : v.put})

\* Store the version, its head and its head event in one commit.  A LOCAL
\* publication then places the final copies in the background: at once in the
\* model, or never; a later placement does what the next delivery pass does.
CommitMutation(p) ==
    LET r == request[p]
        c == Coordinator[p]
    IN  /\ r.phase = "verified" /\ Fits(c)
        /\ stored' = (stored \ ReleasedPredecessor(p))
                        \cup {[path |-> p, id |-> r.id, put |-> r.put, retention |-> "pending"]}
        /\ head' = [head EXCEPT ![p] = r.id]
        /\ journal' = [journal EXCEPT ![c] = AppendDeferred(@, Record(r.id, p, HeadDelta(p, r.put)))]
        /\ request' = [request EXCEPT ![p] = Idle]
        /\ life' \in IF r.put /\ Valid(life[r.source]) THEN {life, Placed(life)} ELSE {life}
        /\ UNCHANGED <<cursor, requests, pass, safe, gc>>

\* The journal is full: the caller is told to wait for capacity.
CommitRefused(p) ==
    /\ request[p].phase = "verified" /\ ~Fits(Coordinator[p])
    /\ request' = [request EXCEPT ![p].phase = "waiting"]
    /\ UNCHANGED <<journal, cursor, life, stored, head, requests, pass, safe, gc>>

\* A waiting writer prunes what the cuts allow, then runs its attempt again.
WaitForCapacity(p) ==
    LET c == Coordinator[p]
    IN  /\ request[p].phase = "waiting"
        /\ journal' = [journal EXCEPT ![c] = Pruned(@, TRUE)]
        /\ stored' = RetainedVersions(journal[c], TRUE)
        /\ request' = [request EXCEPT ![p].phase = IF request[p].put THEN "ready" ELSE "verified"]
        /\ UNCHANGED <<cursor, life, head, requests, pass, safe, gc>>

\* The client or its connection goes away.
Abandon(p) ==
    /\ request[p].phase # "idle"
    /\ request' = [request EXCEPT ![p] = Idle]
    /\ UNCHANGED <<journal, cursor, life, stored, head, requests, pass, safe, gc>>

-----------------------------------------------------------------------------
(* Cuts of the source journal other than delivery. *)

\* The writer's own quorum proof settles its event when it is the next one.
SettlePosition(s) ==
    /\ journal[s].settled < TailOf(s)
    /\ IsHead(At(s, journal[s].settled + 1))
    /\ journal' = [journal EXCEPT ![s].settled = @ + 1]
    /\ UNCHANGED <<cursor, life, stored, head, request, requests, pass, safe, gc>>

\* The derived consumers checkpoint the settled prefix; retention follows.
DerivedCheckpoint(s) ==
    LET j == [journal[s] EXCEPT !.derived = journal[s].settled]
    IN  /\ journal[s].derived < journal[s].settled
        /\ journal' = [journal EXCEPT ![s] = Pruned(j, FALSE)]
        /\ stored' = RetainedVersions(j, FALSE)
        /\ UNCHANGED <<cursor, life, head, request, requests, pass, safe, gc>>

-----------------------------------------------------------------------------
(* One pass of the delivery task of source s. *)

\* Where settlement of the captured prefix may stop: at a head event whose
\* quorum proof is not found, or at the tail.
SettlementStops(s) ==
    {k \in journal[s].settled..TailOf(s) : k = TailOf(s) \/ IsHead(At(s, k + 1))}

\* A pass over a drained journal changes nothing and is not taken.
Quiet(s) ==
    /\ safe[s] /\ journal[s].settled = TailOf(s) /\ journal[s].referenceSafe = TailOf(s)
    /\ \A d \in Nodes : cursor[d][s] = TailOf(s)

\* Settle the prefix, then read the cursor of every destination.
ReadCursors(s) ==
    /\ pass[s].phase = "idle" /\ ~Quiet(s)
    /\ \E k \in SettlementStops(s) :
        /\ journal' = [journal EXCEPT ![s].settled = k]
        /\ pass' = [pass EXCEPT ![s] = [IdlePass EXCEPT
                !.phase = "read", !.seen = [d \in Nodes |-> cursor[d][s]], !.failed = k < TailOf(s)]]
    /\ UNCHANGED <<cursor, life, stored, head, request, requests, safe, gc>>

\* The pass ends; its outcome is the node's reference_safe flag.
EndPass(s, result) ==
    /\ pass' = [pass EXCEPT ![s] = IdlePass]
    /\ safe' = [safe EXCEPT ![s] = result]

\* A destination's cursor could not be read.
CursorsUnread(s) ==
    /\ pass[s].phase = "read"
    /\ EndPass(s, FALSE)
    /\ UNCHANGED <<journal, cursor, life, stored, head, request, requests, gc>>

Slowest(s) == Min({pass[s].seen[d] : d \in Nodes})

\* The records of a page that may block it: an unsettled head event without its
\* proof, a positive delta whose payload cannot be prepared.
MayBlock(s, offset) ==
    \/ IsHead(At(s, offset)) /\ offset > journal[s].settled
    \/ At(s, offset).delta > 0
Positive(s, after, through) == \E o \in (after + 1)..through : At(s, o).delta > 0

\* A complete source is fetched when the source node has none, then installed
\* on every owner.
Preparable == \E n \in Nodes : Valid(life[n])
PreparedCopies(s) ==
    Placed([life EXCEPT ![s] = IF Valid(@) THEN @ ELSE Sealed(@)])

\* Take the page after the slowest cursor, up to the first blocked record, and
\* prepare the payload of its positive deltas.
TakePage(s, through) ==
    LET blocked == through < TailOf(s)
        positive == Positive(s, Slowest(s), through)
    IN  /\ pass[s].phase = "read"
        /\ blocked => MayBlock(s, through + 1)
        /\ positive => Preparable
        /\ life' = IF positive THEN PreparedCopies(s) ELSE life
        /\ IF blocked /\ through = Slowest(s)
           THEN EndPass(s, FALSE)
           ELSE /\ pass' = [pass EXCEPT ![s].phase = "apply", ![s].through = through,
                        ![s].todo = {d \in Nodes : pass[s].seen[d] < through},
                        ![s].failed = @ \/ blocked]
                /\ UNCHANGED safe
        /\ UNCHANGED <<journal, cursor, stored, head, request, requests, gc>>

\* The records of the page with a delta routed to destination d.
Routed(s, d) ==
    {r \in {<<s, o>> : o \in (pass[s].seen[d] + 1)..pass[s].through} : d \in Owners /\ Delta(r) # 0}

\* The answer of destination d reaches the pass, or is lost.
Answered(s, d, ok) ==
    pass' = [pass EXCEPT ![s].todo = @ \ {d},
                         ![s].seen[d] = IF ok THEN cursor'[d][s] ELSE @,
                         ![s].failed = @ \/ ~ok]

\* Destination d applies the batch, its lifecycle record and its cursor in one
\* commit, whatever the state of its own journal.
ApplyBatch(s, d, ok) ==
    LET batch == Routed(s, d)
    IN  /\ pass[s].phase = "apply" /\ d \in pass[s].todo
        /\ pass[s].seen[d] = cursor[d][s]
        /\ Applicable(life[d], batch)
        /\ life' = [life EXCEPT ![d] = Applied(@, batch)]
        /\ journal' = IF batch = {} THEN journal ELSE [journal EXCEPT ![d] = AppendInert(d)]
        /\ cursor' = [cursor EXCEPT ![d] =
                [(IF batch = {} THEN @ ELSE [@ EXCEPT ![d] = SelfCursor(d)])
                    EXCEPT ![s] = pass[s].through]]
        /\ Answered(s, d, ok)
        /\ UNCHANGED <<stored, head, request, requests, safe, gc>>

\* A batch the cursor already covers is answered as a replay.
ReplayBatch(s, d) ==
    /\ pass[s].phase = "apply" /\ d \in pass[s].todo
    /\ pass[s].through <= cursor[d][s]
    /\ UNCHANGED cursor
    /\ Answered(s, d, TRUE)
    /\ UNCHANGED <<journal, life, stored, head, request, requests, safe, gc>>

\* The batch is refused (a partial overlap, a missing artifact) or never arrives.
BatchFails(s, d) ==
    /\ pass[s].phase = "apply" /\ d \in pass[s].todo
    /\ UNCHANGED cursor
    /\ Answered(s, d, FALSE)
    /\ UNCHANGED <<journal, life, stored, head, request, requests, safe, gc>>

\* The call to destination d ends, one way or another.
DeliverBatch(s, d) ==
    \/ \E ok \in BOOLEAN : ApplyBatch(s, d, ok)
    \/ ReplayBatch(s, d)
    \/ BatchFails(s, d)

\* The slowest cursor seen becomes the reference-safe cut; retention follows.
FinishCompaction(s) ==
    LET j == [journal[s] EXCEPT !.referenceSafe = IF Slowest(s) > @ THEN Slowest(s) ELSE @]
    IN  /\ pass[s].phase = "apply" /\ pass[s].todo = {}
        /\ journal' = [journal EXCEPT ![s] = Pruned(j, FALSE)]
        /\ stored' = RetainedVersions(j, FALSE)
        /\ EndPass(s, ~pass[s].failed)
        /\ UNCHANGED <<cursor, life, head, request, requests, gc>>

-----------------------------------------------------------------------------
(* Collection of payload copies on node n. *)

\* A collection that starts without an unclaimed copy ends without effect: a
\* copy unclaimed later would be younger than the grace period.
StartCollection(n) ==
    /\ gc[n].phase = "idle" /\ safe[n]
    /\ Unclaimed(life[n])
    /\ gc' = [gc EXCEPT ![n] = [phase |-> "checking", left |-> Journaled, age |-> 0]]
    /\ UNCHANGED <<journal, cursor, life, stored, head, request, requests, pass, safe>>

\* Mutant: a source that answers is taken for a source that is consumed.
CheckSourceAnswers(n, s) ==
    LET left == gc[n].left \ {s}
    IN  /\ gc[n].phase = "checking" /\ s \in gc[n].left
        /\ gc' = [gc EXCEPT ![n].left = left, ![n].phase = IF left = {} THEN "safe" ELSE @]
        /\ UNCHANGED <<journal, cursor, life, stored, head, request, requests, pass, safe>>

\* Compare the local cursor with the tail source s reports; the last answer is
\* followed by a second look at the flag.
CheckSource(n, s) ==
    LET left == gc[n].left \ {s}
    IN  /\ gc[n].phase = "checking" /\ s \in gc[n].left
        /\ gc' = [gc EXCEPT ![n] =
                IF cursor[n][s] # TailOf(s) \/ (left = {} /\ ~safe[n]) THEN IdleGc
                ELSE [@ EXCEPT !.left = left, !.phase = IF left = {} THEN "safe" ELSE "checking"]]
        /\ UNCHANGED <<journal, cursor, life, stored, head, request, requests, pass, safe>>

\* Collect the copy if the record, read again under the commit lock, is garbage
\* and the journal admits the removal.
Collect(n) ==
    /\ gc[n].phase = "safe"
    /\ gc' = [gc EXCEPT ![n] = IdleGc]
    /\ IF Garbage(life[n]) /\ Fits(n)
       THEN /\ life' = [life EXCEPT ![n] = NoCopy]
            /\ journal' = [journal EXCEPT ![n] = AppendInert(n)]
            /\ cursor' = [cursor EXCEPT ![n][n] = SelfCursor(n)]
       ELSE UNCHANGED <<life, journal, cursor>>
    /\ UNCHANGED <<stored, head, request, requests, pass, safe>>

-----------------------------------------------------------------------------
\* Time passes; what is in progress meets its deadline first.
Tick ==
    /\ \A p \in Paths : request[p].phase = "idle" \/ request[p].age < UploadTicks
    /\ \A n \in Nodes : gc[n].phase = "idle" \/ gc[n].age < GcTicks
    /\ \E n \in Nodes : life[n].held /\ life[n].age < Ttl
    /\ life' = [n \in Nodes |-> [life[n] EXCEPT
                    !.age = IF life[n].held /\ @ < Ttl THEN @ + 1 ELSE @]]
    /\ request' = [p \in Paths |-> [request[p] EXCEPT
                    !.age = IF request[p].phase = "idle" THEN @ ELSE @ + 1]]
    /\ gc' = [n \in Nodes |-> [gc[n] EXCEPT !.age = IF gc[n].phase = "idle" THEN @ ELSE @ + 1]]
    /\ UNCHANGED <<journal, cursor, stored, head, requests, pass, safe>>

\* A process restarts: its tasks are gone, and the reference-safe cut, which is
\* in memory, starts again at the durable retention floor.
Restart(n) ==
    /\ journal' = [journal EXCEPT ![n].referenceSafe = journal[n].floor]
    /\ pass' = [pass EXCEPT ![n] = IdlePass]
    /\ safe' = [safe EXCEPT ![n] = n \notin Journaled]
    /\ gc' = [gc EXCEPT ![n] = IdleGc]
    /\ request' = [p \in Paths |-> IF n \in {Coordinator[p], request[p].source}
                                   THEN Idle ELSE request[p]]
    /\ UNCHANGED <<cursor, life, stored, head, requests>>

\* What the coordinator does for a request without the client.
RequestStep(p) ==
    \/ PreparePayload(p) \/ CommitMutation(p) \/ CommitRefused(p)
    \/ WaitForCapacity(p)

ClientStep(p) ==
    \/ \E u \in Gateways : Upload(p, u)
    \/ StartDelete(p)
    \/ Abandon(p)

\* The delivery task; its page and a destination's answer are its only waits.
PassStep(s) ==
    \/ ReadCursors(s)
    \/ CursorsUnread(s)
    \/ \E through \in Slowest(s)..TailOf(s) : TakePage(s, through)
    \/ \E d \in Nodes : DeliverBatch(s, d)
    \/ FinishCompaction(s)

CutStep(s) == SettlePosition(s) \/ DerivedCheckpoint(s)

CollectionStep(n) ==
    StartCollection(n) \/ (\E s \in Journaled : CheckSource(n, s)) \/ Collect(n)

Next ==
    \/ \E p \in Paths : ClientStep(p) \/ RequestStep(p)
    \/ \E s \in Journaled : PassStep(s) \/ CutStep(s)
    \/ \E n \in Nodes : CollectionStep(n) \/ Restart(n)
    \/ Tick

Spec == Init /\ [][Next]_vars

\* Tasks keep running, quorum proofs and checkpoints eventually arrive, and a
\* peer that is called again and again eventually answers.
Fairness ==
    /\ \A p \in Paths : WF_vars(RequestStep(p))
    /\ \A s \in Journaled :
        /\ WF_vars(ReadCursors(s) \/ CursorsUnread(s) \/ \E d \in Nodes : BatchFails(s, d))
        /\ SF_vars(FinishCompaction(s))
        /\ WF_vars(CutStep(s))
        /\ SF_vars(TakePage(s, TailOf(s)))
        /\ SF_vars(\E d \in Nodes : ApplyBatch(s, d, TRUE))

FairSpec == Spec /\ Fairness

-----------------------------------------------------------------------------
\* The state has its shape: every cut of a journal lies between its floor and its
\* tail, consumers never pass the settled prefix, a reservation counts as one
\* reference, and the head of a path names a stored version.
TypeOK ==
    /\ \A s \in Nodes :
        /\ journal[s].log \in Seq([id : 0..(MaxRequests + 1), path : Paths \cup {"-"}, delta : -1..1])
        /\ 0 <= journal[s].floor
        /\ journal[s].floor <= journal[s].derived
        /\ journal[s].derived <= journal[s].settled
        /\ journal[s].settled <= TailOf(s)
        /\ journal[s].referenceSafe \in 0..TailOf(s)
    /\ cursor \in [Nodes -> [Nodes -> Nat]]
    /\ \A n \in Nodes :
        /\ life[n] \in [held : BOOLEAN, refs : 0..(MaxRequests + 1), awaiting : BOOLEAN, age : 0..Ttl]
        /\ life[n].awaiting => life[n].refs = 1
    /\ stored \subseteq [path : Paths, id : 1..(MaxRequests + 1), put : BOOLEAN,
                         retention : {"pending", "released"}]
    /\ \A p \in Paths : head[p] # 0 => \E v \in CurrentVersion(p) : v.id = head[p]
    /\ \A p \in Paths : request[p].phase \in {"idle", "ready", "verified", "waiting"}
    /\ \A s \in Nodes : pass[s].phase \in {"idle", "read", "apply"} /\ pass[s].todo \subseteq Nodes
    /\ safe \in [Nodes -> BOOLEAN]
    /\ \A n \in Nodes : gc[n].phase \in {"idle", "checking", "safe"} /\ gc[n].left \subseteq Nodes

\* The records the sources have yet to deliver to d.
InFlight(d) ==
    UNION {{<<s, o>> : o \in (cursor[d][s] + 1)..TailOf(s)} : s \in Journaled}

\* No reference is lost, applied twice or released twice: at every owner the
\* references counted (apply_reference_deltas) and those still in flight add up
\* to the versions the coordinators store, through overwrites, delayed releases
\* of pruned events, lost answers, replays, restarts and re-reservations.
ReferencesConserved ==
    \A d \in Owners :
        Counted(life[d]) + Net(InFlight(d)) = Cardinality({v \in stored : v.put})

\* Retention never removes a record some destination has yet to apply, although
\* the reference-safe cut falls back to the floor at a restart
\* (enforce_local_watch_retention_inner, validate_cursor).
NoDestinationGap ==
    \A s, d \in Nodes : journal[s].floor <= cursor[d][s] /\ cursor[d][s] <= TailOf(s)

\* The bytes of a stored version are never collected everywhere, whether its
\* reference has been delivered or is still on its way, and whatever commits
\* between gc_safe and the collection it admits.
PublishedBytesKept ==
    (\E v \in stored : v.put) => \E n \in Nodes : life[n].held

\* A reference on its way whose payload no node can serve: every copy has a
\* count of zero, which complete_copy_state reports as missing.
Undeliverable ==
    /\ ~Preparable
    /\ \E s \in Journaled, d \in Nodes :
        \E o \in (cursor[d][s] + 1)..TailOf(s) : At(s, o).delta > 0

\* A writer that waits for journal capacity is answered (wait_for_mutation_capacity):
\* delivery, settlement, checkpoints, the releases that pruning itself appends and
\* the waiting writers never wait for each other, unless the journal holds a
\* reference that cannot be delivered.
WaitingWriterServed ==
    \A p \in Paths : request[p].phase = "waiting"
                        ~> (request[p].phase = "idle" \/ Undeliverable)

=============================================================================
