--------------------------- MODULE ObjectReplication --------------------------
(***************************************************************************)
(* Replication of one object path inside one placement.  The path's        *)
(* replica group is two replicas that must both acknowledge (2/2) or three *)
(* of which two must (2/3); the first ranked replica is the coordinator.   *)
(* There is no commit marker: a version is a candidate until a quorum of   *)
(* complete records agrees on it, every read and every mutation first      *)
(* reconciles the group, and reconciling may overwrite a replica.          *)
(*                                                                         *)
(* A process is one attempt of a command, or one read, at whatever node    *)
(* the client reached.  A client may repeat a command at any time, so      *)
(* attempts of one command may overlap; a process that stops for ever is   *)
(* one whose node crashed.  Heads, version descriptors and receipts are    *)
(* written synchronously and survive.                                      *)
(***************************************************************************)
EXTENDS Integers, Sequences, FiniteSets

CONSTANTS
    Replicas,       \* the path's replica group
    Coordinator,    \* its first ranked replica
    Required,       \* required_acknowledgements of the group
    Commands,       \* command identities
    Procs,          \* attempts and reads, each of one operation
    Snapshot,       \* a read that repairs the replicas it finds behind
    Current,        \* a read of the current head alone, which repairs nothing
    Unknown         \* the operation of a process that has not begun

ASSUME ReplicationConstants ==
    /\ Coordinator \in Replicas
    /\ IsFiniteSet(Replicas)
    /\ Cardinality(Replicas) \in {2, 3}
    /\ Required = 2
    /\ Snapshot \notin Commands /\ Current \notin Commands /\ Snapshot # Current

VARIABLES
    versions,   \* every version ever allocated: predecessor, command, lineage
    head,       \* the current version of the path at a replica, 0 if absent
    receipts,   \* the version a replica's receipt names for a command, or 0
    op,         \* a process's operation: the command it attempts, or its read
    phase,      \* where a process is
    obs,        \* the replica states a process has observed
    chosen,     \* the version a process selected, committed or answered
    pending,    \* replicas whose answer a process waits for
    durable,    \* replicas an attempt counts as durable
    wire,       \* requests sent and not yet handled
    acked,      \* versions some attempt acknowledged to its client
    begun       \* history: the coordinator's head when a process began

replicaState == <<versions, head, receipts>>
procState == <<op, phase, obs, chosen, pending, durable>>
vars == <<replicaState, procState, wire, acked, begun>>

Absent == 0

Versions == 1..Len(versions)

Pred(v) == versions[v].pred

\* v and every version before it.
Line(v) == IF v = Absent THEN {} ELSE versions[v].line

Writing(p) == op[p] \in Commands

Nothing == [r \in {} |-> Absent]

Observed(p) == DOMAIN obs[p]

Init ==
    /\ versions = <<>>
    /\ head = [r \in Replicas |-> Absent]
    /\ receipts = [r \in Replicas |-> [c \in Commands |-> Absent]]
    /\ op = [p \in Procs |-> Unknown]
    /\ phase = [p \in Procs |-> "idle"]
    /\ obs = [p \in Procs |-> Nothing]
    /\ chosen = [p \in Procs |-> Absent]
    /\ pending = [p \in Procs |-> {}]
    /\ durable = [p \in Procs |-> {}]
    /\ wire = {}
    /\ acked = {}
    /\ begun = [p \in Procs |-> Absent]

(***************************************************************************)
(* Reading the group.  All replicas are asked at once and answer one by    *)
(* one; the answers are looked at after each arrival.                      *)
(***************************************************************************)
Begin(p) ==
    /\ phase[p] = "idle"
    /\ \E o \in Commands \cup {Snapshot, Current} : op' = [op EXCEPT ![p] = o]
    /\ phase' = [phase EXCEPT ![p] = "reading"]
    /\ begun' = [begun EXCEPT ![p] = head[Coordinator]]
    /\ UNCHANGED <<replicaState, obs, chosen, pending, durable, wire, acked>>

ReadReplica(p, r) ==
    /\ phase[p] = "reading"
    /\ r \notin Observed(p)
    /\ obs' = [obs EXCEPT ![p] = [k \in Observed(p) \cup {r} |->
                                      IF k = r THEN head[r] ELSE obs[p][k]]]
    /\ UNCHANGED <<replicaState, op, phase, chosen, pending, durable, wire, acked, begun>>

\* Exact agreement of a quorum.
Agreed(p, v) == Cardinality({r \in Observed(p) : obs[p][r] = v}) >= Required

\* Two complete records of a two-replica group: the direct successor of the
\* other one wins, since only its interrupted write can be completed.
is_direct_successor(p, v) ==
    /\ Cardinality(Replicas) = 2
    /\ Observed(p) = Replicas
    /\ v # Absent
    /\ \E r, k \in Replicas : obs[p][r] = v /\ obs[p][k] = Pred(v)

\* Mutant of Selects: in a two-replica group the older record wins.
SelectsPredecessor(p, v) ==
    \/ Agreed(p, v)
    \/ /\ \A w \in Versions \cup {Absent} : ~Agreed(p, w)
       /\ \E w \in Versions : is_direct_successor(p, w) /\ v = Pred(w)

\* select_object_snapshot_quorum
Selects(p, v) ==
    \/ Agreed(p, v)
    \/ /\ \A w \in Versions \cup {Absent} : ~Agreed(p, w)
       /\ is_direct_successor(p, v)

Behind(p, v) == {r \in Observed(p) : obs[p][r] # v}

\* The read of the group is over: a read answers v, a mutation goes on and
\* keeps nothing of it, a failed process has no answer.
Reconciled(p, v) ==
    /\ phase' = [phase EXCEPT ![p] = IF Writing(p) THEN "ready" ELSE "ok"]
    /\ chosen' = [chosen EXCEPT ![p] = IF Writing(p) THEN Absent ELSE v]
    /\ obs' = [obs EXCEPT ![p] = Nothing]

ReadFailed(p) ==
    /\ phase' = [phase EXCEPT ![p] = "failed"]
    /\ chosen' = [chosen EXCEPT ![p] = Absent]
    /\ obs' = [obs EXCEPT ![p] = Nothing]

SelectQuorum(p) ==
    /\ phase[p] = "reading"
    /\ \E v \in Versions \cup {Absent} :
          /\ Selects(p, v)
          /\ IF op[p] # Current /\ Behind(p, v) # {}
             THEN /\ phase' = [phase EXCEPT ![p] = "repairing"]
                  /\ chosen' = [chosen EXCEPT ![p] = v]
                  /\ UNCHANGED obs
             ELSE Reconciled(p, v)
    /\ UNCHANGED <<replicaState, op, pending, durable, wire, acked, begun>>

\* No answer is left to wait for and no choice is justified.
ReadUnavailable(p) ==
    /\ phase[p] = "reading"
    /\ \A v \in Versions \cup {Absent} : ~Selects(p, v)
    /\ ReadFailed(p)
    /\ UNCHANGED <<replicaState, op, pending, durable, wire, acked, begun>>

(***************************************************************************)
(* Read repair: the replicas that differ are overwritten one after the     *)
(* other, each only if it is still in the state that was observed.         *)
(***************************************************************************)
SendRepair(p, r) ==
    /\ phase[p] = "repairing"
    /\ pending[p] = {}
    /\ r \in Behind(p, chosen[p])
    /\ pending' = [pending EXCEPT ![p] = {r}]
    /\ wire' = wire \cup {[kind |-> "repair", proc |-> p, to |-> r,
                           expected |-> obs[p][r], version |-> chosen[p]]}
    /\ UNCHANGED <<replicaState, op, phase, obs, chosen, durable, acked, begun>>

\* The process that sent a repair goes on to the next replica, or stops.
RepairAnswered(p, r, repaired) ==
    IF phase[p] = "repairing" /\ r \in pending[p]
    THEN /\ pending' = [pending EXCEPT ![p] = {}]
         /\ IF ~repaired THEN ReadFailed(p)
            ELSE IF Behind(p, chosen[p]) = {r} THEN Reconciled(p, chosen[p])
            ELSE /\ obs' = [obs EXCEPT ![p][r] = chosen[p]]
                 /\ UNCHANGED <<phase, chosen>>
    ELSE UNCHANGED <<pending, obs, phase, chosen>>

\* Mutant of RepairMatches: a delayed repair overwrites whatever it finds.
RepairAlways(m) == TRUE

RepairMatches(m) == head[m.to] = m.expected

repair_object_path_snapshot(m) ==
    /\ m.kind = "repair"
    /\ wire' = wire \ {m}
    /\ IF RepairMatches(m)
       THEN head' = [head EXCEPT ![m.to] = m.version]
       ELSE UNCHANGED head
    /\ RepairAnswered(m.proc, m.to, RepairMatches(m))
    /\ UNCHANGED <<versions, receipts, op, durable, acked, begun>>

(***************************************************************************)
(* Mutation at the coordinator, under its path and commit locks: a receipt *)
(* replays the stored mutation, otherwise a version succeeding the local   *)
(* head is allocated.                                                      *)
(***************************************************************************)
\* Mutant of Replayed: a repeated command is evaluated afresh.
ReplayedNever(p) == Absent

Replayed(p) == receipts[Coordinator][op[p]]

\* Mutant of NextVersion: the high watermark itself is handed out again.
HighWatermark == Len(versions)

\* Above every version the clock has issued or observed.
NextVersion == Len(versions) + 1

coordinate_prepared_object_mutation(p) ==
    /\ phase[p] = "ready"
    /\ LET fresh == Replayed(p) = Absent
           v == IF fresh THEN NextVersion ELSE Replayed(p)
           remote == Replicas \ {Coordinator}
       IN  /\ IF fresh
              THEN /\ versions' = Append(versions,
                                    [pred |-> head[Coordinator], command |-> op[p],
                                     line |-> Line(head[Coordinator]) \cup {v}])
                   /\ head' = [head EXCEPT ![Coordinator] = v]
                   /\ receipts' = [receipts EXCEPT ![Coordinator][op[p]] = v]
              ELSE UNCHANGED replicaState
           /\ chosen' = [chosen EXCEPT ![p] = v]
           /\ wire' = wire \cup {[kind |-> "apply", proc |-> p, to |-> r, version |-> v] :
                                 r \in remote}
           /\ pending' = [pending EXCEPT ![p] = remote]
    /\ durable' = [durable EXCEPT ![p] = {Coordinator}]
    /\ phase' = [phase EXCEPT ![p] = "replicating"]
    /\ UNCHANGED <<op, obs, acked, begun>>

\* The lineage a replica demands of a candidate it does not hold yet.
Extends(r, v) == head[r] = Pred(v)

\* What a replica reports as applied although it changes no head.
AlreadyApplied(r, v) ==
    \/ head[r] = v
    \/ /\ head[r] # Absent
       /\ Pred(head[r]) = v
       /\ receipts[r][versions[v].command] = v

ApplyAnswered(p, r, applied) ==
    IF r \in pending[p]
    THEN /\ pending' = [pending EXCEPT ![p] = @ \ {r}]
         /\ durable' = [durable EXCEPT ![p] = IF applied THEN @ \cup {r} ELSE @]
    ELSE UNCHANGED <<pending, durable>>

Accepts(r, v) == AlreadyApplied(r, v) \/ Extends(r, v)

\* Head, receipt and reference proof are written in one batch.
Apply(r, v) ==
    IF Accepts(r, v)
    THEN /\ head' = [head EXCEPT ![r] = IF AlreadyApplied(r, v) THEN @ ELSE v]
         /\ receipts' = [receipts EXCEPT ![r][versions[v].command] = v]
    ELSE UNCHANGED <<head, receipts>>

apply_object_mutation_replica(m) ==
    /\ m.kind = "apply"
    /\ wire' = wire \ {m}
    /\ Apply(m.to, m.version)
    /\ ApplyAnswered(m.proc, m.to, Accepts(m.to, m.version))
    /\ UNCHANGED <<versions, op, phase, obs, chosen, acked, begun>>

\* A request or its answer is lost, or late: the sender stops waiting, and
\* the request either never arrives or still may.  A repair given up ends
\* the process, an apply given up is a replica not counted.
GiveUp(p, r) ==
    /\ r \in pending[p]
    /\ IF phase[p] = "repairing"
       THEN RepairAnswered(p, r, FALSE) /\ UNCHANGED durable
       ELSE ApplyAnswered(p, r, FALSE) /\ UNCHANGED <<phase, obs, chosen>>
    /\ wire' \in {wire, {m \in wire : m.kind = "redrive" \/ m.proc # p \/ m.to # r}}
    /\ UNCHANGED <<replicaState, op, acked, begun>>

\* Mutant of Acknowledged: one replica short.
AcknowledgedOneShort(p) == Cardinality(durable[p]) + 1 >= Required

Acknowledged(p) == Cardinality(durable[p]) >= Required

Decide(p) ==
    /\ phase[p] = "replicating"
    /\ pending[p] = {}
    /\ IF Acknowledged(p)
       THEN /\ phase' = [phase EXCEPT ![p] = "ok"]
            /\ acked' = acked \cup {chosen[p]}
            /\ UNCHANGED chosen
       ELSE /\ phase' = [phase EXCEPT ![p] = "failed"]
            /\ chosen' = [chosen EXCEPT ![p] = Absent]
            /\ UNCHANGED acked
    /\ durable' = [durable EXCEPT ![p] = {}]
    /\ UNCHANGED <<replicaState, op, obs, pending, wire, begun>>

(***************************************************************************)
(* Redrive.  The coordinator's background delivery walks its journal in    *)
(* order and settles a record once a quorum of replicas has its reference  *)
(* proof.  A record below quorum is sent to the whole group again, as often*)
(* as it takes; delivery stops there until it is proven.                   *)
(***************************************************************************)
\* The reference proof of v is at r: it is stored with the receipt.
Proven(r, v) == receipts[r][versions[v].command] = v

QuorumProven(v) == Cardinality({r \in Replicas : Proven(r, v)}) >= Required

\* Mutant of NextToSettle: the newest record is redriven.
Newest(v) == v = Len(versions)

\* The record the journal is to settle next.
NextToSettle(v) ==
    /\ \A w \in 1..(v - 1) : QuorumProven(w)
    /\ ~QuorumProven(v)

redrive(v) ==
    /\ NextToSettle(v)
    /\ wire' = wire \cup {[kind |-> "redrive", to |-> r, version |-> v] : r \in Replicas}
    /\ UNCHANGED <<replicaState, procState, acked, begun>>

\* Nobody waits for the answer: delivery reads the proofs again.
RedriveArrives(m) ==
    /\ m.kind = "redrive"
    /\ wire' = wire \ {m}
    /\ Apply(m.to, m.version)
    /\ UNCHANGED <<versions, procState, acked, begun>>

Next ==
    \/ \E p \in Procs :
          \/ Begin(p)
          \/ SelectQuorum(p)
          \/ ReadUnavailable(p)
          \/ coordinate_prepared_object_mutation(p)
          \/ Decide(p)
          \/ \E r \in Replicas : \/ ReadReplica(p, r)
                                 \/ SendRepair(p, r)
                                 \/ GiveUp(p, r)
    \/ \E m \in wire : \/ repair_object_path_snapshot(m)
                      \/ apply_object_mutation_replica(m)
                      \/ RedriveArrives(m)
    \/ \E v \in Versions : redrive(v)

Spec == Init /\ [][Next]_vars

\* Delivery runs for ever on the coordinator and its peers are reached in
\* the end; clients, attempts and everything else may stop at any point.
Fairness ==
    /\ WF_vars(\E v \in Versions : redrive(v))
    /\ \A r \in Replicas : WF_vars(\E m \in wire : m.to = r /\ RedriveArrives(m))

FairSpec == Spec /\ Fairness

(***************************************************************************)
(* Properties.                                                             *)
(***************************************************************************)
Requests ==
    [kind : {"apply"}, proc : Procs, to : Replicas, version : Versions] \cup
    [kind : {"redrive"}, to : Replicas, version : Versions] \cup
    [kind : {"repair"}, proc : Procs, to : Replicas,
     expected : Versions \cup {Absent}, version : Versions \cup {Absent}]

\* Types of the replicas' records and of the processes' local state.
TypeOK ==
    /\ \A v \in Versions : /\ Pred(v) \in 0..(v - 1)
                           /\ versions[v].command \in Commands
                           /\ versions[v].line \subseteq Versions
    /\ head \in [Replicas -> Versions \cup {Absent}]
    /\ receipts \in [Replicas -> [Commands -> Versions \cup {Absent}]]
    /\ op \in [Procs -> Commands \cup {Snapshot, Current, Unknown}]
    /\ phase \in [Procs -> {"idle", "reading", "repairing", "ready", "replicating",
                            "ok", "failed"}]
    /\ \A p \in Procs : /\ Observed(p) \subseteq Replicas
                        /\ \A r \in Observed(p) : obs[p][r] \in Versions \cup {Absent}
    /\ chosen \in [Procs -> Versions \cup {Absent}]
    /\ pending \in [Procs -> SUBSET Replicas]
    /\ durable \in [Procs -> SUBSET Replicas]
    /\ wire \subseteq Requests
    /\ acked \subseteq Versions
    /\ begun \in [Procs -> Versions \cup {Absent}]

Holders(v) == {r \in Replicas : v \in Line(head[r])}

\* An acknowledged version stays with a quorum: whatever reads, repairs,
\* retries and late requests follow, at least the required number of
\* replicas hold it or a successor of it, so that every later read quorum
\* meets it (object_distribution.rs replicate_without_settlement against
\* object_snapshot.rs repair_object_path_snapshot).
AckedSurvives == \A v \in acked : Cardinality(Holders(v)) >= Required

Journaled(v) == v \in Versions
Settled(v) == Journaled(v) /\ QuorumProven(v)

\* A replica has gone past v without its proof: it got v by a repair, which
\* writes neither receipt nor proof, and took the successor before a redrive
\* of v arrived.
Overtaken(v) ==
    Journaled(v) /\ \E r \in Replicas : v \in Line(head[r]) \ {head[r]} /\ ~Proven(r, v)

\* Every record of the journal settles, however many of its requests were
\* lost and however far the coordinator got ahead meanwhile (QuorumReference-
\* CommitAuthority::classify, redrive), unless a record up to it was
\* overtaken.
JournalSettles ==
    \A v \in 1..Cardinality(Commands) :
        Journaled(v) ~> (Settled(v) \/ \E w \in 1..v : Overtaken(w))

\* The path as a linearizable register, in a two-replica group: the
\* coordinator's records, in order, are the register's value.
Register == INSTANCE ObjectRegister WITH
    Reads <- {Snapshot, Current},
    chain <- [i \in 1..head[Coordinator] |-> versions[i].command],
    status <- [p \in Procs |-> IF phase[p] \in {"idle", "ok", "failed"} THEN phase[p]
                               ELSE "open"],
    since <- begun,
    answer <- [p \in Procs |-> IF phase[p] = "ok" THEN chosen[p] ELSE Absent]

\* Every behaviour of a two-replica group is one of an atomic register:
\* writes take effect once, in one order, at the coordinator; no write that
\* took effect is undone; and a read answers a value the register had
\* between the read's invocation and its answer, however its observations,
\* repairs and the writes interleave.
ImplementsRegister == Register!Spec
=============================================================================
