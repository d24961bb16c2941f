------------------------ MODULE ObjectReplicationProofs -----------------------
(***************************************************************************)
(* ObjectReplication for every set of commands and of processes: its types *)
(* in every group, and, in a two-replica group, that an acknowledged       *)
(* version stays with both replicas and that the path is a linearizable    *)
(* register.  The inductive argument is that the coordinator's records are *)
(* a chain without gaps which never shrinks: a repair only ever completes  *)
(* the newest record of that chain at the other replica.                   *)
(***************************************************************************)
EXTENDS ObjectReplication, FiniteSetTheorems, TLAPS

(* The group the theorems on survival and on the register are about; with  *)
(* three replicas a repair may undo an acknowledged write, as the run of   *)
(* the three-replica group shows.                                          *)
PairGroup == Cardinality(Replicas) = 2

Reads == {Snapshot, Current}

(* TypeOK, that versions is a sequence of records and obs a function whose *)
(* values are partial functions on the replicas, that only a command gets  *)
(* to the coordinator, and that a version is replicated.                   *)
Typed ==
    /\ versions \in Seq([pred : Nat, command : Commands, line : SUBSET Nat])
    /\ obs = [p \in Procs |-> obs[p]]
    /\ \A p \in Procs : obs[p] \in [Observed(p) -> Versions \cup {Absent}]
    /\ \A p \in Procs : /\ phase[p] = "ready" => op[p] \in Commands
                        /\ phase[p] = "replicating" => chosen[p] \in Versions
    /\ TypeOK

(* The coordinator's records form one chain without gaps, its head is the  *)
(* newest of them, and its receipts name exactly the commands in it.       *)
ChainOK ==
    /\ \A v \in Versions : versions[v].pred = v - 1 /\ versions[v].line = 1..v
    /\ head[Coordinator] = Len(versions)
    /\ \A v \in Versions : \A c \in Commands :
          receipts[Coordinator][c] = v <=> versions[v].command = c

(* A repair advances its replica by one record, and a request to apply a   *)
(* version is one its attempt still stands for.                            *)
WireOK ==
    \A m \in wire :
        /\ m.kind = "repair" => m.version \in Versions /\ m.expected = m.version - 1
        /\ m.kind = "apply" => /\ m.to # Coordinator
                               /\ phase[m.proc] \in {"replicating", "ok", "failed"}
                               /\ phase[m.proc] = "replicating" => m.version = chosen[m.proc]

(* Observed states are of the past, but the coordinator's is not older     *)
(* than the process.                                                       *)
ReadingOK(p) ==
    /\ phase[p] = "idle" => Observed(p) = {}
    /\ phase[p] # "idle" => op[p] \in Commands \cup Reads
    /\ \A r \in Observed(p) : obs[p][r] <= head[r]
    /\ Coordinator \in Observed(p) => begun[p] <= obs[p][Coordinator]

(* A process that repairs completes the newest of two observed records.    *)
RepairingOK(p) ==
    phase[p] = "repairing" =>
        /\ chosen[p] \in Versions /\ begun[p] <= chosen[p]
        /\ pending[p] \subseteq Behind(p, chosen[p])
        /\ \E r \in Replicas : /\ Behind(p, chosen[p]) = {r}
                               /\ obs[p][r] = chosen[p] - 1

(* An attempt counts as durable only replicas that hold its version.       *)
ReplicatingOK(p) ==
    /\ pending[p] # {} => phase[p] \in {"repairing", "replicating"}
    /\ phase[p] = "replicating" =>
          /\ op[p] \in Commands
          /\ versions[chosen[p]].command = op[p]
          /\ \A r \in durable[p] : chosen[p] <= head[r]

AckedOK == \A v \in acked : \A r \in Replicas : v <= head[r]

(* The inductive invariant of a two-replica group.                         *)
PairInv ==
    /\ Typed
    /\ ChainOK
    /\ WireOK
    /\ \A p \in Procs : ReadingOK(p) /\ RepairingOK(p) /\ ReplicatingOK(p)
    /\ AckedOK

(***************************************************************************)
(* Types, in every group.                                                  *)
(***************************************************************************)
LEMMA InitTyped == Init => Typed
  BY ReplicationConstants
     DEF Init, Typed, TypeOK, Versions, Observed, Nothing, Absent, Requests, Pred

LEMMA TypedBegin ==
  ASSUME Typed, NEW p \in Procs, Begin(p)
  PROVE  Typed'
  <1>1. head[Coordinator] \in Versions \cup {Absent}
    BY ReplicationConstants DEF Typed, TypeOK
  <1>2. PICK o \in Commands \cup {Snapshot, Current} : op' = [op EXCEPT ![p] = o]
    BY DEF Begin
  <1> QED BY <1>1, <1>2 DEF Begin, Typed, TypeOK, Versions, Observed, Absent, Requests, Pred,
                            replicaState

LEMMA TypedReadReplica ==
  ASSUME Typed, NEW p \in Procs, NEW r \in Replicas, ReadReplica(p, r)
  PROVE  Typed'
  BY DEF ReadReplica, Typed, TypeOK, Versions, Observed, Absent, Requests, Pred, replicaState

LEMMA TypedReconciled ==
  ASSUME Typed, NEW p \in Procs, NEW v \in Versions \cup {Absent}, Reconciled(p, v),
         UNCHANGED <<versions, receipts, op, durable, acked, begun>>,
         head' \in [Replicas -> Versions \cup {Absent}],
         pending' \in {pending, [pending EXCEPT ![p] = {}]}, wire' \subseteq wire
  PROVE  Typed'
  BY DEF Reconciled, Writing, Typed, TypeOK, Versions, Observed, Absent, Nothing, Requests, Pred,
         replicaState

LEMMA TypedReadFailed ==
  ASSUME Typed, NEW p \in Procs, ReadFailed(p),
         UNCHANGED <<versions, receipts, op, durable, acked, begun>>,
         head' \in [Replicas -> Versions \cup {Absent}],
         pending' \in {pending, [pending EXCEPT ![p] = {}]}, wire' \subseteq wire
  PROVE  Typed'
  BY DEF ReadFailed, Typed, TypeOK, Versions, Observed, Absent, Nothing, Requests, Pred,
         replicaState

LEMMA TypedReadUnavailable ==
  ASSUME Typed, NEW p \in Procs, ReadUnavailable(p)
  PROVE  Typed'
  <1>1. /\ UNCHANGED <<versions, receipts, op, durable, acked, begun, pending, wire, head>>
        /\ head \in [Replicas -> Versions \cup {Absent}] /\ ReadFailed(p)
    BY DEF ReadUnavailable, replicaState, Typed, TypeOK
  <1> QED BY <1>1, TypedReadFailed

LEMMA TypedSelectQuorum ==
  ASSUME Typed, NEW p \in Procs, SelectQuorum(p)
  PROVE  Typed'
  <1>1. PICK v \in Versions \cup {Absent} :
           \/ /\ phase' = [phase EXCEPT ![p] = "repairing"]
              /\ chosen' = [chosen EXCEPT ![p] = v]
              /\ UNCHANGED obs
           \/ Reconciled(p, v)
    BY DEF SelectQuorum
  <1>2. /\ UNCHANGED <<versions, receipts, op, durable, acked, begun, pending, wire, head>>
        /\ head \in [Replicas -> Versions \cup {Absent}]
    BY DEF SelectQuorum, replicaState, Typed, TypeOK
  <1>3. CASE Reconciled(p, v)
    BY <1>2, <1>3, TypedReconciled
  <1>4. CASE /\ phase' = [phase EXCEPT ![p] = "repairing"]
             /\ chosen' = [chosen EXCEPT ![p] = v]
             /\ UNCHANGED obs
    BY <1>2, <1>4 DEF Typed, TypeOK, Versions, Observed, Absent, Requests, Pred
  <1> QED BY <1>1, <1>3, <1>4

LEMMA TypedSendRepair ==
  ASSUME Typed, NEW p \in Procs, NEW r \in Replicas, SendRepair(p, r)
  PROVE  Typed'
  <1>1. /\ chosen[p] \in Versions \cup {Absent} /\ obs[p][r] \in Versions \cup {Absent}
    BY DEF SendRepair, Behind, Typed, TypeOK
  <1>2. wire' \subseteq Requests
    BY <1>1 DEF SendRepair, Typed, TypeOK, Requests
  <1> QED BY <1>2 DEF SendRepair, Typed, TypeOK, Versions, Observed, Absent, Requests, Pred,
                      replicaState

LEMMA TypedRepairAnswered ==
  ASSUME Typed, NEW p \in Procs, NEW r \in Replicas, NEW repaired, RepairAnswered(p, r, repaired),
         UNCHANGED <<versions, receipts, op, durable, acked, begun>>,
         head' \in [Replicas -> Versions \cup {Absent}], wire' \subseteq wire
  PROVE  Typed'
  <1>1. CASE phase[p] = "repairing" /\ r \in pending[p]
    <2>1. pending' = [pending EXCEPT ![p] = {}]
      BY <1>1 DEF RepairAnswered
    <2>2. CASE ReadFailed(p)
      BY <2>1, <2>2, TypedReadFailed
    <2>3. CASE Reconciled(p, chosen[p])
      BY <2>1, <2>3, TypedReconciled DEF Typed, TypeOK
    <2>4. CASE obs' = [obs EXCEPT ![p][r] = chosen[p]] /\ UNCHANGED <<phase, chosen>>
      BY <2>1, <2>4 DEF Typed, TypeOK, Versions, Observed, Absent, Requests, Pred, replicaState
    <2> QED BY <1>1, <2>2, <2>3, <2>4 DEF RepairAnswered
  <1>2. CASE UNCHANGED <<pending, obs, phase, chosen>>
    BY <1>2 DEF Typed, TypeOK, Versions, Observed, Absent, Requests, Pred, replicaState
  <1> QED BY <1>1, <1>2 DEF RepairAnswered

LEMMA TypedRepair ==
  ASSUME Typed, NEW m \in wire, repair_object_path_snapshot(m)
  PROVE  Typed'
  <1>1. /\ m.proc \in Procs /\ m.to \in Replicas /\ m.version \in Versions \cup {Absent}
    BY DEF repair_object_path_snapshot, Typed, TypeOK, Requests
  <1>2. head' \in [Replicas -> Versions \cup {Absent}]
    BY <1>1 DEF repair_object_path_snapshot, Typed, TypeOK
  <1>3. /\ UNCHANGED <<versions, receipts, op, durable, acked, begun>> /\ wire' \subseteq wire
        /\ RepairAnswered(m.proc, m.to, RepairMatches(m))
    BY DEF repair_object_path_snapshot
  <1> QED BY <1>1, <1>2, <1>3, TypedRepairAnswered

LEMMA TypedApplyAnswered ==
  ASSUME Typed, NEW p \in Procs, NEW r \in Replicas, NEW applied \in BOOLEAN,
         ApplyAnswered(p, r, applied)
  PROVE  /\ pending' \in [Procs -> SUBSET Replicas] /\ durable' \in [Procs -> SUBSET Replicas]
  <1>1. /\ pending \in [Procs -> SUBSET Replicas] /\ durable \in [Procs -> SUBSET Replicas]
    BY DEF Typed, TypeOK
  <1>2. /\ pending' = pending \/ pending' = [pending EXCEPT ![p] = pending[p] \ {r}]
        /\ \/ durable' = durable \/ durable' = [durable EXCEPT ![p] = durable[p] \cup {r}]
           \/ durable' = [durable EXCEPT ![p] = durable[p]]
    BY DEF ApplyAnswered
  <1> QED BY <1>1, <1>2

LEMMA TypedGiveUp ==
  ASSUME Typed, NEW p \in Procs, NEW r \in Replicas, GiveUp(p, r)
  PROVE  Typed'
  <1>1. /\ UNCHANGED <<versions, receipts, op, acked, begun>> /\ wire' \subseteq wire
        /\ head' \in [Replicas -> Versions \cup {Absent}]
    BY DEF GiveUp, replicaState, Typed, TypeOK
  <1>2. CASE phase[p] = "repairing"
    BY <1>1, <1>2, TypedRepairAnswered DEF GiveUp
  <1>3. CASE phase[p] # "repairing"
    <2>1. ApplyAnswered(p, r, FALSE) /\ UNCHANGED <<phase, obs, chosen>>
      BY <1>3 DEF GiveUp
    <2>2. /\ pending' \in [Procs -> SUBSET Replicas] /\ durable' \in [Procs -> SUBSET Replicas]
      BY <2>1, TypedApplyAnswered
    <2> QED BY <1>1, <2>1, <2>2 DEF Typed, TypeOK, Versions, Observed, Absent, Requests, Pred
  <1> QED BY <1>2, <1>3

(* What a replica does with a version it is sent.                          *)
LEMMA ApplyEffect ==
  ASSUME NEW r, NEW v, Apply(r, v)
  PROVE  \/ /\ Accepts(r, v) = TRUE
            /\ \/ head' = [head EXCEPT ![r] = head[r]] /\ AlreadyApplied(r, v)
               \/ head' = [head EXCEPT ![r] = v] /\ Extends(r, v)
            /\ receipts' = [receipts EXCEPT ![r][versions[v].command] = v]
         \/ Accepts(r, v) = FALSE /\ UNCHANGED <<head, receipts>>
  <1>1. CASE AlreadyApplied(r, v)
    <2>1. Accepts(r, v) = TRUE
      BY <1>1 DEF Accepts
    <2> QED BY <1>1, <2>1 DEF Apply
  <1>2. CASE ~AlreadyApplied(r, v) /\ Extends(r, v)
    <2>1. Accepts(r, v) = TRUE
      BY <1>2 DEF Accepts
    <2> QED BY <1>2, <2>1 DEF Apply
  <1>3. CASE ~AlreadyApplied(r, v) /\ ~Extends(r, v)
    <2>1. Accepts(r, v) = FALSE
      BY <1>3 DEF Accepts
    <2> QED BY <1>3, <2>1 DEF Apply
  <1> QED BY <1>1, <1>2, <1>3

(* What a replica does with a request to apply a version.                  *)
LEMMA ApplySteps ==
  ASSUME NEW m, apply_object_mutation_replica(m)
  PROVE  /\ m.kind = "apply" /\ wire' = wire \ {m}
         /\ \/ /\ \/ head' = [head EXCEPT ![m.to] = head[m.to]] /\ AlreadyApplied(m.to, m.version)
                  \/ head' = [head EXCEPT ![m.to] = m.version] /\ Extends(m.to, m.version)
               /\ receipts' = [receipts EXCEPT ![m.to][versions[m.version].command] = m.version]
               /\ ApplyAnswered(m.proc, m.to, TRUE)
            \/ /\ UNCHANGED <<head, receipts>>
               /\ ApplyAnswered(m.proc, m.to, FALSE)
         /\ UNCHANGED <<versions, op, phase, obs, chosen, acked, begun>>
  <1>1. /\ Apply(m.to, m.version) /\ m.kind = "apply" /\ wire' = wire \ {m}
        /\ ApplyAnswered(m.proc, m.to, Accepts(m.to, m.version))
        /\ UNCHANGED <<versions, op, phase, obs, chosen, acked, begun>>
    BY DEF apply_object_mutation_replica
  <1>2. CASE Accepts(m.to, m.version) = TRUE
    <2>1. ApplyAnswered(m.proc, m.to, TRUE)
      BY <1>1, <1>2
    <2> QED BY <1>1, <1>2, <2>1, ApplyEffect
  <1>3. CASE Accepts(m.to, m.version) = FALSE
    <2>1. ApplyAnswered(m.proc, m.to, FALSE)
      BY <1>1, <1>3
    <2> QED BY <1>1, <1>3, <2>1, ApplyEffect
  <1> QED BY <1>1, <1>2, <1>3, ApplyEffect

LEMMA TypedApplyEffect ==
  ASSUME Typed, NEW r \in Replicas, NEW v \in Versions, Apply(r, v)
  PROVE  /\ head' \in [Replicas -> Versions \cup {Absent}]
         /\ receipts' \in [Replicas -> [Commands -> Versions \cup {Absent}]]
  <1>1. /\ versions[v].command \in Commands
        /\ head \in [Replicas -> Versions \cup {Absent}]
        /\ receipts \in [Replicas -> [Commands -> Versions \cup {Absent}]]
    BY DEF Typed, TypeOK
  <1>2. /\ \/ head' = head \/ head' = [head EXCEPT ![r] = head[r]]
           \/ head' = [head EXCEPT ![r] = v]
        /\ \/ receipts' = receipts
           \/ receipts' = [receipts EXCEPT ![r][versions[v].command] = v]
    BY ApplyEffect
  <1> HIDE DEF Versions
  <1>3. head' \in [Replicas -> Versions \cup {Absent}]
    BY <1>1, <1>2
  <1>4. receipts' \in [Replicas -> [Commands -> Versions \cup {Absent}]]
    BY <1>1, <1>2
  <1> QED BY <1>3, <1>4

LEMMA TypedApply ==
  ASSUME Typed, NEW m \in wire, apply_object_mutation_replica(m)
  PROVE  Typed'
  <1>1. /\ m.proc \in Procs /\ m.to \in Replicas /\ m.version \in Versions
    BY ApplySteps DEF Typed, TypeOK, Requests
  <1>2. Apply(m.to, m.version)
    BY DEF apply_object_mutation_replica
  <1>3. /\ head' \in [Replicas -> Versions \cup {Absent}]
        /\ receipts' \in [Replicas -> [Commands -> Versions \cup {Absent}]]
    BY <1>1, <1>2, TypedApplyEffect
  <1>4. /\ pending' \in [Procs -> SUBSET Replicas] /\ durable' \in [Procs -> SUBSET Replicas]
    BY <1>1, ApplySteps, TypedApplyAnswered
  <1> QED BY <1>3, <1>4, ApplySteps DEF Typed, TypeOK, Versions, Observed, Absent,
                                        Requests, Pred

LEMMA TypedRedrive ==
  ASSUME Typed, NEW v \in Versions, redrive(v)
  PROVE  Typed'
  <1>1. wire' \subseteq Requests
    BY DEF redrive, Typed, TypeOK, Requests
  <1> QED BY <1>1 DEF redrive, Typed, TypeOK, Versions, Observed, Absent, Requests, Pred,
                      replicaState, procState

LEMMA TypedRedriveArrives ==
  ASSUME Typed, NEW m \in wire, RedriveArrives(m)
  PROVE  Typed'
  <1>1. m.to \in Replicas /\ m.version \in Versions
    BY DEF RedriveArrives, Typed, TypeOK, Requests
  <1>2. /\ Apply(m.to, m.version) /\ wire' \subseteq wire
        /\ UNCHANGED <<versions, op, phase, obs, chosen, pending, durable, acked, begun>>
    BY DEF RedriveArrives, procState
  <1>3. /\ head' \in [Replicas -> Versions \cup {Absent}]
        /\ receipts' \in [Replicas -> [Commands -> Versions \cup {Absent}]]
    BY <1>1, <1>2, TypedApplyEffect
  <1> QED BY <1>2, <1>3 DEF Typed, TypeOK, Versions, Observed, Absent, Requests, Pred

LEMMA TypedDecide ==
  ASSUME Typed, NEW p \in Procs, Decide(p)
  PROVE  Typed'
  <1>1. chosen[p] \in Versions /\ acked' \subseteq Versions
    BY DEF Decide, Typed, TypeOK
  <1> QED BY <1>1 DEF Decide, Typed, TypeOK, Versions, Observed, Absent, Requests, Pred,
                      replicaState

LEMMA TypedCoordinate ==
  ASSUME Typed, NEW p \in Procs, coordinate_prepared_object_mutation(p)
  PROVE  Typed'
  <1> DEFINE remote == Replicas \ {Coordinator}
             v == IF Replayed(p) = Absent THEN NextVersion ELSE Replayed(p)
  <1>1. /\ op[p] \in Commands /\ Coordinator \in Replicas
        /\ head[Coordinator] \in Versions \cup {Absent}
        /\ Replayed(p) \in Versions \cup {Absent}
    BY ReplicationConstants
       DEF coordinate_prepared_object_mutation, Typed, TypeOK, Replayed
  <1>2. /\ chosen' = [chosen EXCEPT ![p] = v] /\ pending' = [pending EXCEPT ![p] = remote]
        /\ wire' = wire \cup {[kind |-> "apply", proc |-> p, to |-> r, version |-> v] :
                              r \in remote}
        /\ durable' = [durable EXCEPT ![p] = {Coordinator}]
        /\ phase' = [phase EXCEPT ![p] = "replicating"]
        /\ UNCHANGED <<op, obs, acked, begun>>
    BY DEF coordinate_prepared_object_mutation
  <1>3. CASE Replayed(p) # Absent
    <2>1. UNCHANGED <<versions, head, receipts>> /\ v \in Versions
      BY <1>1, <1>3 DEF coordinate_prepared_object_mutation, replicaState
    <2>2. wire' \subseteq Requests
      BY <1>2, <2>1 DEF Typed, TypeOK, Requests
    <2> HIDE DEF v
    <2> QED BY <1>1, <1>2, <2>1, <2>2 DEF Typed, TypeOK, Versions, Observed, Absent, Requests, Pred
  <1>4. CASE Replayed(p) = Absent
    <2> DEFINE new == [pred |-> head[Coordinator], command |-> op[p],
                       line |-> Line(head[Coordinator]) \cup {v}]
    <2>1. /\ versions' = Append(versions, new)
          /\ head' = [head EXCEPT ![Coordinator] = v]
          /\ receipts' = [receipts EXCEPT ![Coordinator][op[p]] = v]
          /\ v = Len(versions) + 1
      BY <1>4 DEF coordinate_prepared_object_mutation, NextVersion
    <2>2. Line(head[Coordinator]) \subseteq Versions
      BY <1>1 DEF Typed, TypeOK, Line, Absent
    <2>3. /\ new \in [pred : Nat, command : Commands, line : SUBSET Nat]
          /\ new.pred \in 0..(v - 1) /\ new.line \subseteq 1..v /\ new.command = op[p]
      BY <1>1, <2>1, <2>2 DEF Versions, Absent, Typed
    <2> HIDE DEF new, v
    <2>4. /\ versions' \in Seq([pred : Nat, command : Commands, line : SUBSET Nat])
          /\ Len(versions') = v /\ Len(versions) \in Nat /\ versions'[v] = new
          /\ \A w \in Versions : versions'[w] = versions[w]
      BY <2>1, <2>3 DEF Typed, Versions
    <2>5. /\ Versions' = Versions \cup {v} /\ v \in Versions'
          /\ Versions' = 1..v
      BY <2>1, <2>4 DEF Versions
    <2>6. \A w \in Versions' : /\ versions'[w].pred \in 0..(w - 1)
                               /\ versions'[w].command \in Commands
                               /\ versions'[w].line \subseteq Versions'
      BY <1>1, <2>3, <2>4, <2>5 DEF Typed, TypeOK, Pred
    <2>7. wire' \subseteq Requests'
      BY <1>2, <2>5 DEF Typed, TypeOK, Requests
    <2>8. /\ head' \in [Replicas -> Versions' \cup {Absent}]
          /\ receipts' \in [Replicas -> [Commands -> Versions' \cup {Absent}]]
      BY <1>1, <2>1, <2>5 DEF Typed, TypeOK
    <2>9. /\ chosen' \in [Procs -> Versions' \cup {Absent}] /\ acked' \subseteq Versions'
          /\ begun' \in [Procs -> Versions' \cup {Absent}]
          /\ phase' \in [Procs -> {"idle", "reading", "repairing", "ready", "replicating",
                            "ok", "failed"}]
          /\ \A q \in Procs : /\ phase'[q] = "ready" => op'[q] \in Commands
                              /\ phase'[q] = "replicating" => chosen'[q] \in Versions'
      BY <1>1, <1>2, <2>5 DEF Typed, TypeOK
    <2>10. /\ obs' = [q \in Procs |-> obs'[q]]
           /\ \A q \in Procs : /\ obs'[q] \in [DOMAIN obs'[q] -> Versions' \cup {Absent}]
                               /\ DOMAIN obs'[q] \subseteq Replicas
      BY <1>2, <2>5 DEF Typed, TypeOK, Observed
    <2>11. /\ pending' \in [Procs -> SUBSET Replicas] /\ durable' \in [Procs -> SUBSET Replicas]
           /\ op' \in [Procs -> Commands \cup {Snapshot, Current, Unknown}]
      BY <1>1, <1>2 DEF Typed, TypeOK
    <2> QED BY <2>4, <2>6, <2>7, <2>8, <2>9, <2>10, <2>11 DEF Typed, TypeOK, Observed, Pred
  <1> QED BY <1>3, <1>4

LEMMA NextTyped == Typed /\ [Next]_vars => Typed'
  <1>1. CASE UNCHANGED vars
    BY <1>1 DEF vars, replicaState, procState, Typed, TypeOK, Versions, Observed, Requests, Pred
  <1> QED BY <1>1, TypedBegin, TypedReadReplica, TypedSelectQuorum, TypedSendRepair, TypedRepair,
             TypedGiveUp, TypedApply, TypedDecide, TypedCoordinate, TypedReadUnavailable,
             TypedRedrive, TypedRedriveArrives DEF Next

(* Every request, observation, receipt and acknowledgement names a version *)
(* the coordinator's clock has allocated, in groups of two and of three    *)
(* replicas.                                                               *)
THEOREM TypesHold == Spec => []TypeOK
  <1>1. Typed => TypeOK
    BY DEF Typed
  <1> QED BY <1>1, InitTyped, NextTyped, PTL DEF Spec

(***************************************************************************)
(* The two-replica group.                                                  *)
(***************************************************************************)
LEMMA TwoReplicas ==
  ASSUME PairGroup
  PROVE  \E r \in Replicas : r # Coordinator /\ Replicas = {Coordinator, r}
  <1>1. Coordinator \in Replicas /\ IsFiniteSet(Replicas) /\ Cardinality(Replicas) = 2
    BY ReplicationConstants DEF PairGroup
  <1>2. IsFiniteSet(Replicas \ {Coordinator}) /\ Cardinality(Replicas \ {Coordinator}) = 1
    BY <1>1, FS_RemoveElement
  <1>3. PICK r : Replicas \ {Coordinator} = {r}
    BY <1>2, FS_Singleton
  <1> QED BY <1>1, <1>3

(* Two members are all members.                                            *)
LEMMA BothReplicas ==
  ASSUME PairGroup, NEW S \in SUBSET Replicas, Cardinality(S) >= Required
  PROVE  S = Replicas
  <1>1. IsFiniteSet(Replicas) /\ Cardinality(Replicas) = 2 /\ Required = 2
    BY ReplicationConstants DEF PairGroup
  <1>2. Cardinality(S) \in Nat /\ Cardinality(S) <= 2 /\ (Cardinality(S) = 2 => S = Replicas)
    BY <1>1, FS_Subset, FS_CardinalityType
  <1> QED BY <1>1, <1>2

(* The replicas' records only grow.                                        *)
Grows ==
    /\ Len(versions) <= Len(versions')
    /\ \A v \in Versions : versions'[v] = versions[v]
    /\ \A r \in Replicas : head[r] <= head'[r]

(* A step leaves a process where it is.                                    *)
Stays(q) ==
    /\ op'[q] = op[q] /\ phase'[q] = phase[q] /\ obs'[q] = obs[q] /\ chosen'[q] = chosen[q]
    /\ pending'[q] = pending[q] /\ durable'[q] = durable[q] /\ begun'[q] = begun[q]

ProcOK(q) == ReadingOK(q) /\ RepairingOK(q) /\ ReplicatingOK(q)

LEMMA Numbers ==
  ASSUME Typed
  PROVE  /\ Len(versions) \in Nat /\ Versions = 1..Len(versions)
         /\ \A r \in Replicas : head[r] \in 0..Len(versions)
         /\ \A q \in Procs : chosen[q] \in 0..Len(versions) /\ begun[q] \in 0..Len(versions)
         /\ \A q \in Procs : \A r \in Observed(q) : obs[q][r] \in 0..Len(versions)
         /\ \A q \in Procs : Observed(q) \subseteq Replicas
         /\ acked \subseteq 1..Len(versions)
         /\ Coordinator \in Replicas /\ Absent = 0
  <1>1. Coordinator \in Replicas
    BY ReplicationConstants
  <1>2. Len(versions) \in Nat
    BY DEF Typed
  <1>3. Versions \cup {Absent} = 0..Len(versions)
    BY <1>2 DEF Versions, Absent
  <1>4. /\ \A r \in Replicas : head[r] \in 0..Len(versions)
        /\ \A q \in Procs : chosen[q] \in 0..Len(versions) /\ begun[q] \in 0..Len(versions)
    BY <1>3 DEF Typed, TypeOK
  <1>5. \A q \in Procs : /\ \A r \in Observed(q) : obs[q][r] \in 0..Len(versions)
                         /\ Observed(q) \subseteq Replicas
    BY <1>3 DEF Typed, TypeOK
  <1>6. acked \subseteq 1..Len(versions)
    BY DEF Typed, TypeOK, Versions
  <1> QED BY <1>1, <1>2, <1>4, <1>5, <1>6 DEF Versions, Absent

LEMMA StaysOK ==
  ASSUME PairInv, Typed', Grows, NEW q \in Procs, Stays(q)
  PROVE  ProcOK(q)'
  <1>1. Typed /\ ReadingOK(q) /\ RepairingOK(q) /\ ReplicatingOK(q)
    BY DEF PairInv
  <1>2. Len(versions') \in Nat
    BY DEF Typed
  <1>3. \A r \in Replicas : head'[r] \in Nat
    BY <1>2 DEF Typed, TypeOK, Versions, Absent
  <1>4. ReadingOK(q)'
    BY <1>1, <1>3, Numbers DEF ReadingOK, Stays, Grows, Observed
  <1>5. RepairingOK(q)'
    <2>1. Behind(q, chosen[q])' = Behind(q, chosen[q])
      BY DEF Behind, Observed, Stays
    <2>2. Versions \subseteq Versions'
      BY <1>1, <1>2, Numbers DEF Versions, Grows
    <2> QED BY <1>1, <2>1, <2>2 DEF RepairingOK, Stays
  <1>6. ReplicatingOK(q)'
    <2>1. phase[q] = "replicating" => /\ chosen[q] \in Versions /\ chosen[q] \in Nat
                                      /\ \A r \in durable[q] : r \in Replicas
      BY <1>1, Numbers DEF Typed, TypeOK
    <2> QED BY <1>1, <1>3, <2>1, Numbers DEF ReplicatingOK, Stays, Grows
  <1> QED BY <1>4, <1>5, <1>6 DEF ProcOK

(* A version a read may select is not older than the read, and at most one *)
(* replica is behind it, by one record.                                    *)
LEMMA SelectsNewest ==
  ASSUME PairGroup, PairInv, NEW p \in Procs, NEW v \in Versions \cup {Absent}, Selects(p, v)
  PROVE  /\ begun[p] <= v
         /\ \/ Behind(p, v) = {}
            \/ /\ v \in Versions
               /\ \E r \in Replicas : Behind(p, v) = {r} /\ obs[p][r] = v - 1
  <1> USE Numbers
  <1>1. Typed /\ ReadingOK(p) /\ ChainOK
    BY DEF PairInv
  <1>2. CASE Agreed(p, v)
    <2>1. {r \in Observed(p) : obs[p][r] = v} = Replicas
      BY <1>1, <1>2, BothReplicas DEF Agreed
    <2>2. \A r \in Replicas : r \in Observed(p) /\ obs[p][r] = v
      BY <2>1
    <2> QED BY <1>1, <2>2 DEF Behind, ReadingOK
  <1>3. CASE is_direct_successor(p, v)
    <2>1. /\ Observed(p) = Replicas /\ v \in Versions
      BY <1>3 DEF is_direct_successor
    <2>2. PICK r, k \in Replicas : obs[p][r] = v /\ obs[p][k] = Pred(v)
      BY <1>3 DEF is_direct_successor
    <2>3. Pred(v) = v - 1
      BY <1>1, <2>1 DEF ChainOK, Pred
    <2>4. Replicas = {r, k} /\ r # k
      BY <1>1, <2>1, <2>2, <2>3, TwoReplicas
    <2>5. Behind(p, v) = {k}
      BY <1>1, <2>1, <2>2, <2>3, <2>4 DEF Behind
    <2>6. begun[p] <= v
      BY <1>1, <2>1, <2>2, <2>3, <2>4 DEF ReadingOK
    <2> QED BY <2>1, <2>2, <2>3, <2>5, <2>6
  <1> QED BY <1>2, <1>3 DEF Selects

(* A step of one process that leaves every record alone.                   *)
Local(p) ==
    /\ UNCHANGED <<versions, head, receipts>>
    /\ \A q \in Procs \ {p} : Stays(q)

LEMMA LocalGrows == ASSUME Typed, NEW p, Local(p) PROVE Grows
  BY Numbers DEF Local, Grows

LEMMA LocalStep ==
  ASSUME PairInv, Typed', NEW p \in Procs, Local(p), acked' = acked, ProcOK(p)', WireOK'
  PROVE  PairInv'
  <1>1. Typed /\ ChainOK /\ AckedOK /\ Grows
    BY LocalGrows DEF PairInv
  <1>2. ChainOK' /\ AckedOK'
    BY <1>1 DEF ChainOK, AckedOK, Local, Versions
  <1>3. \A q \in Procs : ProcOK(q)'
    BY <1>1, StaysOK DEF Local
  <1> QED BY <1>2, <1>3 DEF PairInv, ProcOK

(* Requests that stay under way, while a process moves on.                 *)
LEMMA WireStays ==
  ASSUME PairInv, Typed', NEW p \in Procs, Grows, wire' \subseteq wire,
         \A q \in Procs \ {p} : Stays(q),
         \/ phase[p] \notin {"replicating", "ok", "failed"}
         \/ phase[p] = "replicating" /\ phase'[p] \in {"ok", "failed"}
         \/ phase'[p] = phase[p] /\ chosen'[p] = chosen[p]
  PROVE  WireOK'
  <1>1. Typed /\ WireOK
    BY DEF PairInv
  <1>2. Len(versions') \in Nat
    BY DEF Typed
  <1>3. Versions \subseteq Versions'
    BY <1>1, <1>2, Numbers DEF Versions, Grows
  <1>4. ASSUME NEW m \in wire
        PROVE  /\ m.kind = "repair" => m.version \in Versions' /\ m.expected = m.version - 1
               /\ m.kind = "apply" => /\ m.to # Coordinator
                                      /\ phase'[m.proc] \in {"replicating", "ok", "failed"}
                                      /\ phase'[m.proc] = "replicating" => m.version = chosen'[m.proc]
    <2>1. m.kind = "redrive" \/ m.proc \in Procs
      BY <1>1, <1>4 DEF Typed, TypeOK, Requests
    <2>2. CASE m.kind = "redrive"
      BY <2>2
    <2>3. CASE m.proc = p
      BY <1>1, <1>3, <2>3 DEF WireOK
    <2>4. CASE m.proc # p /\ m.kind # "redrive"
      BY <1>1, <1>3, <2>1, <2>4 DEF WireOK, Stays
    <2> QED BY <2>2, <2>3, <2>4
  <1> QED BY <1>4 DEF WireOK

LEMMA PairBegin ==
  ASSUME PairInv, Typed', NEW p \in Procs, Begin(p)
  PROVE  PairInv'
  <1>1. Typed /\ ReadingOK(p) /\ RepairingOK(p) /\ ReplicatingOK(p)
    BY DEF PairInv
  <1>2. PICK o \in Commands \cup {Snapshot, Current} : op' = [op EXCEPT ![p] = o]
    BY DEF Begin
  <1>3. Local(p) /\ acked' = acked /\ wire' = wire
    BY <1>1, <1>2 DEF Begin, replicaState, Local, Stays, Typed, TypeOK
  <1>4. WireOK'
    BY <1>1, <1>3, LocalGrows, WireStays DEF Begin, Local
  <1>5. phase'[p] = "reading" /\ op'[p] = o /\ obs' = obs /\ pending' = pending
    BY <1>1, <1>2 DEF Begin, Typed, TypeOK
  <1>6. ProcOK(p)'
    BY <1>1, <1>5 DEF Begin, ProcOK, ReadingOK, RepairingOK, ReplicatingOK, Observed, Reads
  <1> QED BY <1>3, <1>4, <1>6, LocalStep

LEMMA PairReadReplica ==
  ASSUME PairInv, Typed', NEW p \in Procs, NEW r \in Replicas, ReadReplica(p, r)
  PROVE  PairInv'
  <1>1. Typed /\ ReadingOK(p) /\ ReplicatingOK(p) /\ ChainOK
    BY DEF PairInv
  <1>2. Local(p) /\ acked' = acked /\ wire' = wire
    BY <1>1 DEF ReadReplica, replicaState, Local, Stays, Typed, TypeOK
  <1>3. WireOK'
    BY <1>1, <1>2, LocalGrows, WireStays DEF ReadReplica, Local
  <1>4. /\ Observed(p)' = Observed(p) \cup {r} /\ obs'[p][r] = head[r]
        /\ \A k \in Observed(p) : obs'[p][k] = obs[p][k]
        /\ UNCHANGED <<op, phase, pending, head, begun>> /\ phase[p] = "reading"
    BY <1>1 DEF ReadReplica, replicaState, Observed, Typed
  <1>5. ReadingOK(p)'
    BY <1>1, <1>4, Numbers DEF ReadingOK, ChainOK
  <1>6. RepairingOK(p)' /\ ReplicatingOK(p)'
    BY <1>1, <1>4 DEF RepairingOK, ReplicatingOK
  <1> QED BY <1>2, <1>3, <1>5, <1>6, LocalStep DEF ProcOK

(* The end of a read, or of a repair.                                      *)
LEMMA ReadOver ==
  ASSUME PairInv, Typed', NEW p \in Procs, \A q \in Procs \ {p} : Stays(q),
         phase'[p] \in {"ready", "ok", "failed"}, obs'[p] = Nothing, op'[p] = op[p],
         phase[p] \in {"reading", "repairing"}, pending'[p] = {}
  PROVE  ProcOK(p)'
  <1>1. ReadingOK(p) /\ Typed
    BY DEF PairInv
  <1>2. Observed(p)' = {}
    BY DEF Observed, Nothing
  <1> QED BY <1>1, <1>2 DEF ProcOK, ReadingOK, RepairingOK, ReplicatingOK

LEMMA PairReadUnavailable ==
  ASSUME PairInv, Typed', NEW p \in Procs, ReadUnavailable(p)
  PROVE  PairInv'
  <1>1. Typed /\ ReplicatingOK(p)
    BY DEF PairInv
  <1>2. Local(p) /\ acked' = acked /\ wire' = wire /\ pending' = pending /\ op' = op
    BY <1>1 DEF ReadUnavailable, ReadFailed, replicaState, Local, Stays, Typed, TypeOK
  <1>3. /\ phase[p] = "reading" /\ phase'[p] = "failed" /\ obs'[p] = Nothing /\ pending[p] = {}
    BY <1>1 DEF ReadUnavailable, ReadFailed, ReplicatingOK, Typed, TypeOK
  <1>4. WireOK'
    BY <1>1, <1>2, <1>3, LocalGrows, WireStays DEF Local
  <1>5. ProcOK(p)'
    BY <1>2, <1>3, ReadOver DEF Local
  <1> QED BY <1>2, <1>4, <1>5, LocalStep

LEMMA PairSelectQuorum ==
  ASSUME PairGroup, PairInv, Typed', NEW p \in Procs, SelectQuorum(p)
  PROVE  PairInv'
  <1>1. Typed /\ ReadingOK(p) /\ ReplicatingOK(p)
    BY DEF PairInv
  <1>2. PICK v \in Versions \cup {Absent} :
           /\ Selects(p, v)
           /\ \/ /\ Behind(p, v) # {}
                 /\ phase' = [phase EXCEPT ![p] = "repairing"]
                 /\ chosen' = [chosen EXCEPT ![p] = v]
                 /\ UNCHANGED obs
              \/ Reconciled(p, v)
    BY DEF SelectQuorum
  <1>3. /\ phase[p] = "reading" /\ UNCHANGED <<versions, head, receipts, op, pending, durable,
                                              wire, acked, begun>>
    BY DEF SelectQuorum, replicaState
  <1>4. Local(p)
    BY <1>1, <1>2, <1>3 DEF Reconciled, Local, Stays, Typed, TypeOK
  <1>5. WireOK'
    BY <1>1, <1>3, <1>4, LocalGrows, WireStays DEF Local
  <1>6. pending[p] = {}
    BY <1>1, <1>3 DEF ReplicatingOK
  <1>7. CASE Reconciled(p, v)
    <2>1. phase'[p] \in {"ready", "ok", "failed"} /\ obs'[p] = Nothing
      BY <1>1, <1>7 DEF Reconciled, Typed, TypeOK
    <2>2. ProcOK(p)'
      BY <1>3, <1>4, <1>6, <2>1, ReadOver DEF Local
    <2> QED BY <1>3, <1>4, <1>5, <2>2, LocalStep
  <1>8. CASE /\ Behind(p, v) # {}
             /\ phase' = [phase EXCEPT ![p] = "repairing"]
             /\ chosen' = [chosen EXCEPT ![p] = v]
             /\ UNCHANGED obs
    <2>1. phase'[p] = "repairing" /\ chosen'[p] = v /\ obs' = obs
      BY <1>1, <1>8 DEF Typed, TypeOK
    <2>2. ReadingOK(p)' /\ ReplicatingOK(p)'
      BY <1>1, <1>3, <2>1 DEF ReadingOK, ReplicatingOK, Observed
    <2>3. Behind(p, chosen[p])' = Behind(p, v) /\ Versions' = Versions
      BY <1>3, <2>1 DEF Behind, Observed, Versions
    <2>4. RepairingOK(p)'
      BY <1>2, <1>3, <1>6, <1>8, <2>1, <2>3, SelectsNewest DEF RepairingOK
    <2> QED BY <1>3, <1>4, <1>5, <2>2, <2>4, LocalStep DEF ProcOK
  <1> QED BY <1>2, <1>7, <1>8

LEMMA PairSendRepair ==
  ASSUME PairInv, Typed', NEW p \in Procs, NEW r \in Replicas, SendRepair(p, r)
  PROVE  PairInv'
  <1>1. Typed /\ ReadingOK(p) /\ RepairingOK(p) /\ ReplicatingOK(p) /\ WireOK
    BY DEF PairInv
  <1>2. Local(p) /\ acked' = acked
    BY <1>1 DEF SendRepair, replicaState, Local, Stays, Typed, TypeOK
  <1>3. /\ phase[p] = "repairing" /\ r \in Behind(p, chosen[p]) /\ pending'[p] = {r}
        /\ UNCHANGED <<versions, head, op, phase, obs, chosen, begun>>
    BY <1>1 DEF SendRepair, replicaState, Typed, TypeOK
  <1>4. chosen[p] \in Versions /\ obs[p][r] = chosen[p] - 1
    BY <1>1, <1>3 DEF RepairingOK
  <1>5. WireOK'
    BY <1>1, <1>3, <1>4 DEF SendRepair, WireOK, Versions
  <1>6. ProcOK(p)'
    BY <1>1, <1>3 DEF ProcOK, ReadingOK, RepairingOK, ReplicatingOK, Observed, Behind, Versions
  <1> QED BY <1>2, <1>5, <1>6, LocalStep

(* An answered or abandoned repair ends the read or the read phase: one    *)
(* replica at most was behind.                                             *)
LEMMA RepairEnds ==
  ASSUME PairInv, NEW p \in Procs, NEW r \in Replicas, NEW repaired, RepairAnswered(p, r, repaired)
  PROVE  \/ /\ phase[p] = "repairing" /\ pending' = [pending EXCEPT ![p] = {}]
            /\ ReadFailed(p) \/ (repaired /\ Reconciled(p, chosen[p]))
         \/ /\ ~(phase[p] = "repairing" /\ r \in pending[p])
            /\ UNCHANGED <<pending, obs, phase, chosen>>
  <1>1. phase[p] = "repairing" /\ r \in pending[p] => Behind(p, chosen[p]) = {r}
    BY DEF PairInv, RepairingOK
  <1> QED BY <1>1 DEF RepairAnswered

(* A step at one replica on behalf of a process, which leaves the          *)
(* coordinator's records alone.                                            *)
LEMMA RemoteStep ==
  ASSUME PairInv, Typed', Grows, NEW p \in Procs, versions' = versions, acked' = acked,
         head'[Coordinator] = head[Coordinator],
         receipts'[Coordinator] = receipts[Coordinator],
         \A q \in Procs \ {p} : Stays(q), ProcOK(p)', WireOK'
  PROVE  PairInv'
  <1>1. Typed /\ ChainOK /\ AckedOK
    BY DEF PairInv
  <1>2. ChainOK'
    BY <1>1 DEF ChainOK, Versions
  <1>3. \A r \in Replicas : head'[r] \in Nat
    <2>1. Len(versions') \in Nat
      BY DEF Typed
    <2> QED BY <2>1 DEF Typed, TypeOK, Versions, Absent
  <1>4. AckedOK'
    BY <1>1, <1>3, Numbers DEF AckedOK, Grows
  <1>5. \A q \in Procs : ProcOK(q)'
    BY StaysOK
  <1> QED BY <1>2, <1>4, <1>5 DEF PairInv, ProcOK

(* A step on behalf of no process, which leaves the coordinator's records  *)
(* alone.                                                                  *)
LEMMA SilentStep ==
  ASSUME PairInv, Typed', Grows, versions' = versions, acked' = acked,
         head'[Coordinator] = head[Coordinator],
         receipts'[Coordinator] = receipts[Coordinator],
         \A q \in Procs : Stays(q), WireOK'
  PROVE  PairInv'
  <1>1. Typed /\ ChainOK /\ AckedOK
    BY DEF PairInv
  <1>2. ChainOK'
    BY <1>1 DEF ChainOK, Versions
  <1>3. \A r \in Replicas : head'[r] \in Nat
    <2>1. Len(versions') \in Nat
      BY DEF Typed
    <2> QED BY <2>1 DEF Typed, TypeOK, Versions, Absent
  <1>4. AckedOK'
    BY <1>1, <1>3, Numbers DEF AckedOK, Grows
  <1>5. \A q \in Procs : ProcOK(q)'
    BY StaysOK
  <1> QED BY <1>2, <1>4, <1>5 DEF PairInv, ProcOK

LEMMA PairRepair ==
  ASSUME PairInv, Typed', NEW m \in wire, repair_object_path_snapshot(m)
  PROVE  PairInv'
  <1>1. Typed /\ WireOK /\ ChainOK
    BY DEF PairInv
  <1>2. /\ m.proc \in Procs /\ m.to \in Replicas /\ m.kind = "repair"
        /\ m.version \in Versions /\ m.expected = m.version - 1
    BY <1>1 DEF repair_object_path_snapshot, WireOK, Typed, TypeOK, Requests
  <1>3. /\ UNCHANGED <<versions, receipts, op, durable, acked, begun>> /\ wire' \subseteq wire
        /\ RepairAnswered(m.proc, m.to, RepairMatches(m))
    BY DEF repair_object_path_snapshot
  <1>4. /\ \A r \in Replicas : head[r] <= head'[r]
        /\ head'[Coordinator] = head[Coordinator]
    <2>1. CASE RepairMatches(m)
      <3>1. head' = [head EXCEPT ![m.to] = m.version] /\ head[m.to] = m.version - 1
        BY <1>2, <2>1 DEF repair_object_path_snapshot, RepairMatches
      <3>2. m.to # Coordinator
        BY <1>1, <1>2, <3>1, Numbers DEF ChainOK
      <3> QED BY <1>1, <1>2, <3>1, <3>2, Numbers DEF Typed, TypeOK
    <2>2. CASE ~RepairMatches(m)
      BY <1>1, <2>2, Numbers DEF repair_object_path_snapshot
    <2> QED BY <2>1, <2>2
  <1>5. Grows
    BY <1>1, <1>3, <1>4, Numbers DEF Grows
  <1> DEFINE p == m.proc
  <1>6. CASE /\ phase[p] = "repairing" /\ pending' = [pending EXCEPT ![p] = {}]
             /\ ReadFailed(p) \/ Reconciled(p, chosen[p])
    <2>1. \A q \in Procs \ {p} : Stays(q)
      BY <1>1, <1>2, <1>3, <1>6 DEF Stays, ReadFailed, Reconciled, Typed, TypeOK
    <2>2. /\ phase'[p] \in {"ready", "ok", "failed"} /\ obs'[p] = Nothing /\ pending'[p] = {}
          /\ op'[p] = op[p]
      BY <1>1, <1>2, <1>3, <1>6 DEF ReadFailed, Reconciled, Typed, TypeOK
    <2> HIDE DEF p
    <2>3. ProcOK(p)'
      BY <1>2, <1>6, <2>1, <2>2, ReadOver DEF p
    <2>4. WireOK'
      BY <1>2, <1>3, <1>5, <1>6, <2>1, WireStays DEF p
    <2> QED BY <1>2, <1>3, <1>4, <1>5, <2>1, <2>3, <2>4, RemoteStep DEF p
  <1>7. CASE UNCHANGED <<pending, obs, phase, chosen>>
    <2>1. \A q \in Procs : Stays(q)
      BY <1>3, <1>7 DEF Stays
    <2>2. WireOK'
      BY <1>2, <1>3, <1>5, <1>7, <2>1, WireStays
    <2> QED BY <1>2, <1>3, <1>4, <1>5, <2>1, <2>2, StaysOK, RemoteStep
  <1> QED BY <1>2, <1>3, <1>6, <1>7, RepairEnds

(* An attempt that hears of a replica.                                     *)
LEMMA ApplyAnsweredOK ==
  ASSUME PairInv, Typed', Grows, NEW p \in Procs, NEW r \in Replicas, NEW applied \in BOOLEAN,
         ApplyAnswered(p, r, applied), phase[p] # "repairing",
         UNCHANGED <<op, phase, obs, chosen, begun>>,
         applied /\ phase[p] = "replicating" => chosen[p] <= head'[r]
  PROVE  ProcOK(p)' /\ \A q \in Procs \ {p} : Stays(q)
  <1>1. Typed /\ ReadingOK(p) /\ ReplicatingOK(p)
    BY DEF PairInv
  <1>2. /\ pending' = pending \/ pending' = [pending EXCEPT ![p] = pending[p] \ {r}]
        /\ \/ durable' = durable \/ durable' = [durable EXCEPT ![p] = durable[p]]
           \/ applied /\ durable' = [durable EXCEPT ![p] = durable[p] \cup {r}]
    BY DEF ApplyAnswered
  <1>3. pending \in [Procs -> SUBSET Replicas] /\ durable \in [Procs -> SUBSET Replicas]
    BY <1>1 DEF Typed, TypeOK
  <1>4. \A q \in Procs \ {p} : Stays(q)
    BY <1>2, <1>3 DEF Stays
  <1>5. /\ pending'[p] \subseteq pending[p]
        /\ durable'[p] \subseteq durable[p] \cup {r}
        /\ ~applied => durable'[p] = durable[p]
    BY <1>2, <1>3
  <1>6. \A k \in Replicas : head[k] \in Nat /\ head'[k] \in Nat /\ head[k] <= head'[k]
    <2>1. Len(versions') \in Nat
      BY DEF Typed
    <2>2. \A k \in Replicas : head'[k] \in Nat
      BY <2>1 DEF Typed, TypeOK, Versions, Absent
    <2> QED BY <1>1, <2>2, Numbers DEF Grows
  <1>7. ReadingOK(p)' /\ RepairingOK(p)'
    BY <1>1, <1>6, Numbers DEF ReadingOK, RepairingOK, Observed
  <1>8. ReplicatingOK(p)'
    <2>1. phase[p] = "replicating" => chosen[p] \in Versions /\ chosen[p] \in Nat
      BY <1>1, Numbers DEF Typed
    <2>2. phase[p] = "replicating" => versions'[chosen[p]] = versions[chosen[p]]
      BY <2>1 DEF Grows
    <2>3. phase[p] = "replicating" => \A k \in durable'[p] : chosen[p] <= head'[k]
      BY <1>1, <1>3, <1>5, <1>6, <2>1 DEF ReplicatingOK
    <2>4. pending'[p] # {} => phase[p] \in {"repairing", "replicating"}
      BY <1>1, <1>5 DEF ReplicatingOK
    <2> QED BY <1>1, <2>2, <2>3, <2>4 DEF ReplicatingOK
  <1> QED BY <1>4, <1>7, <1>8 DEF ProcOK

LEMMA PairGiveUp ==
  ASSUME PairInv, Typed', NEW p \in Procs, NEW r \in Replicas, GiveUp(p, r)
  PROVE  PairInv'
  <1>1. Typed /\ ReplicatingOK(p)
    BY DEF PairInv
  <1>2. /\ UNCHANGED <<versions, head, receipts, op, acked, begun>> /\ wire' \subseteq wire
        /\ r \in pending[p]
    BY DEF GiveUp, replicaState
  <1>3. Grows
    BY <1>1, <1>2, Numbers DEF Grows
  <1>4. CASE phase[p] = "repairing"
    <2>1. RepairAnswered(p, r, FALSE) /\ UNCHANGED durable
      BY <1>4 DEF GiveUp
    <2>2. pending' = [pending EXCEPT ![p] = {}] /\ ReadFailed(p)
      BY <1>2, <1>4, <2>1, RepairEnds
    <2>3. \A q \in Procs \ {p} : Stays(q)
      BY <1>1, <1>2, <2>1, <2>2 DEF Stays, ReadFailed, Typed, TypeOK
    <2>4. /\ phase'[p] = "failed" /\ obs'[p] = Nothing /\ pending'[p] = {} /\ op'[p] = op[p]
      BY <1>1, <1>2, <2>2 DEF ReadFailed, Typed, TypeOK
    <2>5. ProcOK(p)'
      BY <1>4, <2>3, <2>4, ReadOver
    <2>6. WireOK'
      BY <1>2, <1>3, <1>4, <2>3, WireStays
    <2> QED BY <1>2, <1>3, <2>3, <2>5, <2>6, RemoteStep
  <1>5. CASE phase[p] # "repairing"
    <2>1. ApplyAnswered(p, r, FALSE) /\ UNCHANGED <<phase, obs, chosen>>
      BY <1>5 DEF GiveUp
    <2>2. ProcOK(p)' /\ \A q \in Procs \ {p} : Stays(q)
      BY <1>2, <1>3, <1>5, <2>1, ApplyAnsweredOK
    <2>3. WireOK'
      BY <1>2, <1>3, <2>1, <2>2, WireStays
    <2> QED BY <1>2, <1>3, <2>2, <2>3, RemoteStep
  <1> QED BY <1>4, <1>5

LEMMA PairApply ==
  ASSUME PairInv, Typed', NEW m \in wire, apply_object_mutation_replica(m)
  PROVE  PairInv'
  <1>1. Typed /\ WireOK /\ ChainOK
    BY DEF PairInv
  <1>2. /\ m.proc \in Procs /\ m.to \in Replicas /\ m.version \in Versions
        /\ m.to # Coordinator /\ phase[m.proc] \in {"replicating", "ok", "failed"}
        /\ phase[m.proc] = "replicating" => m.version = chosen[m.proc]
    BY <1>1, ApplySteps DEF WireOK, Typed, TypeOK, Requests
  <1>3. /\ UNCHANGED <<versions, op, phase, obs, chosen, acked, begun>> /\ wire' \subseteq wire
    BY ApplySteps
  <1>4. /\ \/ head' = head
           \/ head' = [head EXCEPT ![m.to] = head[m.to]]
           \/ head' = [head EXCEPT ![m.to] = m.version] /\ Extends(m.to, m.version)
        /\ \/ receipts' = receipts
           \/ receipts' = [receipts EXCEPT ![m.to][versions[m.version].command] = m.version]
    BY ApplySteps
  <1>5. /\ head \in [Replicas -> Versions \cup {Absent}]
        /\ receipts \in [Replicas -> [Commands -> Versions \cup {Absent}]]
    BY <1>1 DEF Typed, TypeOK
  <1>6. Extends(m.to, m.version) => head[m.to] = m.version - 1
    BY <1>1, <1>2 DEF Extends, Pred, ChainOK
  <1>7. /\ \A r \in Replicas : head[r] <= head'[r]
        /\ head'[Coordinator] = head[Coordinator]
    BY <1>1, <1>2, <1>4, <1>5, <1>6, Numbers
  <1>8. receipts'[Coordinator] = receipts[Coordinator]
    <2> HIDE DEF Versions
    <2> QED BY <1>1, <1>2, <1>4, <1>5, Numbers
  <1>9. Grows
    BY <1>1, <1>3, <1>7, Numbers DEF Grows
  <1>10. \/ ApplyAnswered(m.proc, m.to, TRUE) /\ m.version <= head'[m.to]
         \/ ApplyAnswered(m.proc, m.to, FALSE)
    <2>1. CASE /\ head' = [head EXCEPT ![m.to] = m.version]
               /\ ApplyAnswered(m.proc, m.to, TRUE)
      <3>1. head'[m.to] = m.version
        BY <1>2, <1>5, <2>1
      <3>2. m.version \in Nat
        BY <1>1, <1>2, Numbers
      <3>3. m.version <= head'[m.to]
        BY <3>1, <3>2
      <3> QED BY <2>1, <3>3
    <2>2. CASE /\ head' = [head EXCEPT ![m.to] = head[m.to]]
               /\ AlreadyApplied(m.to, m.version) /\ ApplyAnswered(m.proc, m.to, TRUE)
      <3>1. head'[m.to] = head[m.to]
        BY <1>2, <1>5, <2>2
      <3>2. head[m.to] # Absent => Pred(head[m.to]) = head[m.to] - 1
        BY <1>1, <1>2, <1>5 DEF ChainOK, Pred
      <3>3. m.version <= head[m.to]
        BY <1>1, <1>2, <2>2, <3>2, Numbers DEF AlreadyApplied
      <3> QED BY <2>2, <3>1, <3>3
    <2> QED BY <2>1, <2>2, ApplySteps
  <1>11. ProcOK(m.proc)' /\ \A q \in Procs \ {m.proc} : Stays(q)
    BY <1>2, <1>3, <1>9, <1>10, ApplyAnsweredOK
  <1>12. WireOK'
    BY <1>2, <1>3, <1>9, <1>11, WireStays
  <1> QED BY <1>2, <1>3, <1>7, <1>8, <1>9, <1>11, <1>12, RemoteStep

(* A redriven record is the coordinator's own, so the coordinator has      *)
(* nothing to change, and the other replica advances by one record at most.*)
LEMMA PairRedriveArrives ==
  ASSUME PairInv, Typed', NEW m \in wire, RedriveArrives(m)
  PROVE  PairInv'
  <1>1. Typed /\ WireOK /\ ChainOK /\ AckedOK
    BY DEF PairInv
  <1>2. m.to \in Replicas /\ m.version \in Versions
    BY <1>1 DEF RedriveArrives, Typed, TypeOK, Requests
  <1>3. /\ Apply(m.to, m.version) /\ wire' \subseteq wire
        /\ UNCHANGED <<versions, op, phase, obs, chosen, pending, durable, acked, begun>>
    BY DEF RedriveArrives, procState
  <1>4. /\ \/ head' = head
           \/ head' = [head EXCEPT ![m.to] = head[m.to]]
           \/ head' = [head EXCEPT ![m.to] = m.version] /\ Extends(m.to, m.version)
        /\ \/ receipts' = receipts
           \/ receipts' = [receipts EXCEPT ![m.to][versions[m.version].command] = m.version]
    BY <1>3, ApplyEffect
  <1>5. /\ head \in [Replicas -> Versions \cup {Absent}]
        /\ receipts \in [Replicas -> [Commands -> Versions \cup {Absent}]]
        /\ versions[m.version].command \in Commands
    BY <1>1, <1>2 DEF Typed, TypeOK
  <1>6. Extends(m.to, m.version) => head[m.to] = m.version - 1 /\ m.to # Coordinator
    BY <1>1, <1>2, Numbers DEF Extends, Pred, ChainOK
  <1>7. /\ \A r \in Replicas : head[r] <= head'[r]
        /\ head'[Coordinator] = head[Coordinator]
    BY <1>1, <1>2, <1>4, <1>5, <1>6, Numbers
  <1>8. receipts'[Coordinator] = receipts[Coordinator]
    <2>1. receipts[Coordinator][versions[m.version].command] = m.version
      BY <1>1, <1>2, <1>5 DEF ChainOK
    <2>2. Coordinator \in Replicas
      BY ReplicationConstants
    <2> HIDE DEF Versions
    <2>3. receipts[Coordinator] \in [Commands -> Versions \cup {Absent}]
      BY <1>5, <2>2
    <2>4. CASE receipts' = receipts
      BY <2>4
    <2>5. CASE receipts' = [receipts EXCEPT ![m.to][versions[m.version].command] = m.version]
      <3>1. CASE m.to = Coordinator
        <4>1. receipts'[Coordinator] =
                 [receipts[Coordinator] EXCEPT ![versions[m.version].command] = m.version]
          BY <1>5, <2>2, <2>5, <3>1
        <4> QED BY <1>5, <2>1, <2>3, <4>1
      <3>2. CASE m.to # Coordinator
        BY <1>2, <1>5, <2>2, <2>5, <3>2
      <3> QED BY <3>1, <3>2
    <2> QED BY <1>4, <2>4, <2>5
  <1>9. Grows
    BY <1>1, <1>3, <1>7, Numbers DEF Grows
  <1>10. \A q \in Procs : Stays(q)
    BY <1>3 DEF Stays
  <1>11. WireOK'
    BY <1>1, <1>3 DEF WireOK, Versions
  <1> QED BY <1>3, <1>7, <1>8, <1>9, <1>10, <1>11, SilentStep

LEMMA PairRedrive ==
  ASSUME PairInv, Typed', NEW v \in Versions, redrive(v)
  PROVE  PairInv'
  <1>1. Typed /\ WireOK
    BY DEF PairInv
  <1>2. /\ UNCHANGED <<versions, head, receipts, op, phase, obs, chosen, pending, durable,
                       acked, begun>>
        /\ wire' = wire \cup {[kind |-> "redrive", to |-> r, version |-> v] : r \in Replicas}
    BY DEF redrive, replicaState, procState
  <1>3. Grows
    BY <1>1, <1>2, Numbers DEF Grows
  <1>4. WireOK'
    BY <1>1, <1>2 DEF WireOK, Versions
  <1> QED BY <1>2, <1>3, <1>4, SilentStep DEF Stays

LEMMA PairDecide ==
  ASSUME PairGroup, PairInv, Typed', NEW p \in Procs, Decide(p)
  PROVE  PairInv'
  <1>1. Typed /\ ReadingOK(p) /\ ReplicatingOK(p) /\ ChainOK /\ AckedOK
    BY DEF PairInv
  <1>2. /\ phase[p] = "replicating" /\ pending[p] = {} /\ durable'[p] = {}
        /\ phase'[p] \in {"ok", "failed"}
        /\ UNCHANGED <<versions, head, receipts, op, obs, pending, wire, begun>>
    BY <1>1 DEF Decide, replicaState, Typed, TypeOK
  <1>3. Local(p)
    BY <1>1, <1>2 DEF Decide, Local, Stays, Typed, TypeOK
  <1>4. Grows
    BY <1>1, <1>3, LocalGrows
  <1>5. WireOK'
    BY <1>2, <1>3, <1>4, WireStays DEF Local
  <1>6. ProcOK(p)'
    BY <1>1, <1>2 DEF ProcOK, ReadingOK, RepairingOK, ReplicatingOK, Observed
  <1>7. AckedOK'
    <2>1. CASE acked' = acked
      BY <1>1, <1>2, <2>1 DEF AckedOK
    <2>2. CASE Acknowledged(p) /\ acked' = acked \cup {chosen[p]}
      <3>1. durable[p] = Replicas
        BY <1>1, <2>2, BothReplicas DEF Acknowledged, Typed, TypeOK
      <3> QED BY <1>1, <1>2, <2>2, <3>1 DEF AckedOK, ReplicatingOK
    <2> QED BY <2>1, <2>2 DEF Decide
  <1>8. ChainOK'
    BY <1>1, <1>2 DEF ChainOK, Versions
  <1>9. \A q \in Procs : ProcOK(q)'
    BY <1>3, <1>4, <1>6, StaysOK DEF Local
  <1> QED BY <1>5, <1>7, <1>8, <1>9 DEF PairInv, ProcOK

(* The coordinator replays a mutation, or appends one version to the chain *)
(* and makes it its head.                                                  *)
LEMMA CoordinateSteps ==
  ASSUME PairInv, Typed', NEW p \in Procs, coordinate_prepared_object_mutation(p)
  PROVE  \E v \in Versions' :
           /\ chosen' = [chosen EXCEPT ![p] = v]
           /\ pending' = [pending EXCEPT ![p] = Replicas \ {Coordinator}]
           /\ wire' = wire \cup {[kind |-> "apply", proc |-> p, to |-> r, version |-> v] :
                                 r \in Replicas \ {Coordinator}}
           /\ durable' = [durable EXCEPT ![p] = {Coordinator}]
           /\ phase[p] = "ready" /\ phase' = [phase EXCEPT ![p] = "replicating"]
           /\ UNCHANGED <<op, obs, acked, begun>>
           /\ op[p] \in Commands
           /\ \/ /\ UNCHANGED <<versions, head, receipts>>
                 /\ receipts[Coordinator][op[p]] = v
              \/ /\ v = Len(versions) + 1 /\ receipts[Coordinator][op[p]] = Absent
                 /\ versions' = Append(versions, [pred |-> Len(versions), command |-> op[p],
                                                  line |-> 1..v])
                 /\ head' = [head EXCEPT ![Coordinator] = v]
                 /\ receipts' = [receipts EXCEPT ![Coordinator][op[p]] = v]
  <1> DEFINE v == IF Replayed(p) = Absent THEN NextVersion ELSE Replayed(p)
  <1>1. Typed /\ ChainOK
    BY DEF PairInv
  <1>2. /\ op[p] \in Commands /\ Replayed(p) \in Versions \cup {Absent} /\ phase[p] = "ready"
    BY <1>1, Numbers DEF coordinate_prepared_object_mutation, Typed, TypeOK, Replayed
  <1>3. /\ chosen' = [chosen EXCEPT ![p] = v]
        /\ pending' = [pending EXCEPT ![p] = Replicas \ {Coordinator}]
        /\ wire' = wire \cup {[kind |-> "apply", proc |-> p, to |-> r, version |-> v] :
                              r \in Replicas \ {Coordinator}}
        /\ durable' = [durable EXCEPT ![p] = {Coordinator}]
        /\ phase' = [phase EXCEPT ![p] = "replicating"]
        /\ UNCHANGED <<op, obs, acked, begun>>
    BY DEF coordinate_prepared_object_mutation
  <1>4. v \in Versions'
    <2>1. p \in Procs /\ chosen'[p] = v /\ phase'[p] = "replicating"
      BY <1>1, <1>3 DEF Typed, TypeOK
    <2> QED BY <2>1 DEF Typed
  <1>5. CASE Replayed(p) # Absent
    <2>1. UNCHANGED <<versions, head, receipts>> /\ receipts[Coordinator][op[p]] = v
      BY <1>5 DEF coordinate_prepared_object_mutation, replicaState, Replayed
    <2> HIDE DEF v
    <2> QED BY <1>2, <1>3, <1>4, <2>1
  <1>6. CASE Replayed(p) = Absent
    <2>1. /\ v = Len(versions) + 1 /\ receipts[Coordinator][op[p]] = Absent
          /\ head' = [head EXCEPT ![Coordinator] = v]
          /\ receipts' = [receipts EXCEPT ![Coordinator][op[p]] = v]
          /\ versions' = Append(versions, [pred |-> head[Coordinator], command |-> op[p],
                                           line |-> Line(head[Coordinator]) \cup {v}])
      BY <1>6 DEF coordinate_prepared_object_mutation, NextVersion, Replayed
    <2> HIDE DEF v
    <2>2. Line(Len(versions)) = 1..Len(versions)
      BY <1>1, Numbers DEF Line, ChainOK
    <2>3. head[Coordinator] = Len(versions) /\ Line(head[Coordinator]) \cup {v} = 1..v
      BY <1>1, <2>1, <2>2, Numbers DEF ChainOK
    <2> QED BY <1>2, <1>3, <1>4, <2>1, <2>3
  <1> QED BY <1>5, <1>6

LEMMA PairCoordinate ==
  ASSUME PairInv, Typed', NEW p \in Procs, coordinate_prepared_object_mutation(p)
  PROVE  PairInv'
  <1>1. Typed /\ ReadingOK(p) /\ ReplicatingOK(p) /\ ChainOK /\ AckedOK /\ WireOK
    BY DEF PairInv
  <1>2. PICK v \in Versions' :
           /\ chosen' = [chosen EXCEPT ![p] = v]
           /\ pending' = [pending EXCEPT ![p] = Replicas \ {Coordinator}]
           /\ wire' = wire \cup {[kind |-> "apply", proc |-> p, to |-> r, version |-> v] :
                                 r \in Replicas \ {Coordinator}}
           /\ durable' = [durable EXCEPT ![p] = {Coordinator}]
           /\ phase[p] = "ready" /\ phase' = [phase EXCEPT ![p] = "replicating"]
           /\ UNCHANGED <<op, obs, acked, begun>>
           /\ op[p] \in Commands
           /\ \/ /\ UNCHANGED <<versions, head, receipts>>
                 /\ receipts[Coordinator][op[p]] = v
              \/ /\ v = Len(versions) + 1 /\ receipts[Coordinator][op[p]] = Absent
                 /\ versions' = Append(versions, [pred |-> Len(versions), command |-> op[p],
                                                  line |-> 1..v])
                 /\ head' = [head EXCEPT ![Coordinator] = v]
                 /\ receipts' = [receipts EXCEPT ![Coordinator][op[p]] = v]
    BY CoordinateSteps
  <1>3. \A q \in Procs \ {p} : Stays(q)
    BY <1>1, <1>2 DEF Stays, Typed, TypeOK
  <1>4. /\ phase'[p] = "replicating" /\ chosen'[p] = v /\ durable'[p] = {Coordinator}
        /\ op'[p] = op[p] /\ obs'[p] = obs[p] /\ begun'[p] = begun[p]
    BY <1>1, <1>2 DEF Typed, TypeOK
  <1>5. /\ ChainOK' /\ Grows /\ versions'[v].command = op[p]
    <2>1. CASE UNCHANGED <<versions, head, receipts>> /\ receipts[Coordinator][op[p]] = v
      BY <1>1, <1>2, <2>1, Numbers DEF ChainOK, Grows, Versions
    <2>2. CASE /\ v = Len(versions) + 1 /\ receipts[Coordinator][op[p]] = Absent
               /\ versions' = Append(versions, [pred |-> Len(versions), command |-> op[p],
                                                line |-> 1..v])
               /\ head' = [head EXCEPT ![Coordinator] = v]
               /\ receipts' = [receipts EXCEPT ![Coordinator][op[p]] = v]
      <3> DEFINE new == [pred |-> Len(versions), command |-> op[p], line |-> 1..v]
      <3>1. new.pred = v - 1 /\ new.command = op[p] /\ new.line = 1..v
        BY <1>1, <2>2, Numbers
      <3> HIDE DEF new
      <3>2. /\ Len(versions') = v /\ versions'[v] = new
            /\ \A w \in Versions : versions'[w] = versions[w]
        BY <1>1, <2>2 DEF Typed, Versions, new
      <3>3. Versions' = Versions \cup {v} /\ v \notin Versions
        BY <1>1, <2>2, <3>2, Numbers DEF Versions
      <3>4. \A w \in Versions' : versions'[w].pred = w - 1 /\ versions'[w].line = 1..w
        BY <1>1, <3>1, <3>2, <3>3 DEF ChainOK
      <3>5. /\ head'[Coordinator] = Len(versions') /\ \A r \in Replicas : head[r] <= head'[r]
        BY <1>1, <2>2, <3>2, Numbers DEF Typed, TypeOK
      <3>6. /\ receipts'[Coordinator][op[p]] = v
            /\ \A c \in Commands \ {op[p]} :
                  receipts'[Coordinator][c] = receipts[Coordinator][c]
        BY <1>1, <1>2, <2>2, Numbers DEF Typed, TypeOK
      <3>7. \A c \in Commands : receipts[Coordinator][c] # v
        BY <1>1, <2>2, Numbers DEF Typed, TypeOK
      <3>8. \A w \in Versions : versions[w].command # op[p]
        BY <1>1, <1>2, <2>2, Numbers DEF ChainOK
      <3>9. \A w \in Versions' : \A c \in Commands :
               receipts'[Coordinator][c] = w <=> versions'[w].command = c
        <4>1. \A c \in Commands :
                 receipts'[Coordinator][c] = v <=> versions'[v].command = c
          BY <3>1, <3>2, <3>6, <3>7
        <4>2. ASSUME NEW w \in Versions, NEW c \in Commands
              PROVE  receipts'[Coordinator][c] = w <=> versions'[w].command = c
          BY <1>1, <3>2, <3>3, <3>6, <3>8, <4>2 DEF ChainOK
        <4> QED BY <3>3, <4>1, <4>2
      <3> QED BY <1>1, <3>1, <3>2, <3>4, <3>5, <3>9, <2>2, Numbers DEF ChainOK, Grows
    <2> QED BY <1>2, <2>1, <2>2
  <1>6. v <= head'[Coordinator] /\ v \in Nat
    <2>1. Len(versions') \in Nat
      BY DEF Typed
    <2> QED BY <1>5, <2>1 DEF ChainOK, Versions
  <1>7. \A r \in Replicas : head'[r] \in Nat /\ head[r] \in Nat /\ head[r] <= head'[r]
    <2>1. Len(versions') \in Nat
      BY DEF Typed
    <2>2. \A r \in Replicas : head'[r] \in Nat
      BY <2>1 DEF Typed, TypeOK, Versions, Absent
    <2> QED BY <1>1, <1>5, <2>2, Numbers DEF Grows
  <1>8. ProcOK(p)'
    <2>1. ReadingOK(p)'
      BY <1>1, <1>2, <1>4, <1>7, Numbers DEF ReadingOK, Observed
    <2>2. RepairingOK(p)' /\ ReplicatingOK(p)'
      BY <1>2, <1>4, <1>5, <1>6 DEF RepairingOK, ReplicatingOK
    <2> QED BY <2>1, <2>2 DEF ProcOK
  <1>9. AckedOK'
    BY <1>1, <1>2, <1>7, Numbers DEF AckedOK
  <1>10. WireOK'
    <2>1. ASSUME NEW m \in wire'
          PROVE  /\ m.kind = "repair" => m.version \in Versions' /\ m.expected = m.version - 1
                 /\ m.kind = "apply" => /\ m.to # Coordinator
                                        /\ phase'[m.proc] \in {"replicating", "ok", "failed"}
                                        /\ phase'[m.proc] = "replicating" => m.version = chosen'[m.proc]
      <3>1. CASE m \in wire
        <4>1. m.kind = "redrive" \/ m.proc \in Procs
          BY <1>1, <3>1 DEF Typed, TypeOK, Requests
        <4>2. m.kind = "apply" => m.proc # p
          BY <1>1, <1>2, <3>1 DEF WireOK
        <4>3. Versions \subseteq Versions'
          <5>1. Len(versions') \in Nat
            BY DEF Typed
          <5> QED BY <1>1, <1>5, <5>1, Numbers DEF Versions, Grows
        <4>4. CASE m.kind = "redrive"
          BY <4>4
        <4>5. CASE m.kind # "redrive"
          BY <1>1, <1>3, <3>1, <4>1, <4>2, <4>3, <4>5 DEF WireOK, Stays
        <4> QED BY <4>4, <4>5
      <3>2. CASE m \notin wire
        <4>1. PICK r \in Replicas \ {Coordinator} :
                 m = [kind |-> "apply", proc |-> p, to |-> r, version |-> v]
          BY <1>2, <2>1, <3>2
        <4> QED BY <1>4, <4>1
      <3> QED BY <3>1, <3>2
    <2> QED BY <2>1 DEF WireOK
  <1>11. \A q \in Procs : ProcOK(q)'
    BY <1>3, <1>5, <1>8, StaysOK
  <1> QED BY <1>5, <1>9, <1>10, <1>11 DEF PairInv, ProcOK

LEMMA InitPair == Init => PairInv
  <1> SUFFICES ASSUME Init PROVE PairInv
    OBVIOUS
  <1>1. Typed
    BY InitTyped
  <1>2. ChainOK
    BY ReplicationConstants DEF Init, ChainOK, Versions, Absent
  <1>3. WireOK /\ AckedOK
    BY DEF Init, WireOK, AckedOK
  <1>4. \A p \in Procs : ReadingOK(p) /\ RepairingOK(p) /\ ReplicatingOK(p)
    BY DEF Init, ReadingOK, RepairingOK, ReplicatingOK, Observed, Nothing
  <1> QED BY <1>1, <1>2, <1>3, <1>4 DEF PairInv

LEMMA NextPair ==
  ASSUME PairGroup
  PROVE  PairInv /\ [Next]_vars => PairInv'
  <1> SUFFICES ASSUME PairInv, [Next]_vars PROVE PairInv'
    OBVIOUS
  <1>1. Typed'
    BY NextTyped DEF PairInv
  <1>2. CASE UNCHANGED vars
    <2>1. \A q \in Procs : ReadingOK(q)' /\ RepairingOK(q)' /\ ReplicatingOK(q)'
      BY <1>2 DEF vars, replicaState, procState, PairInv, ReadingOK, RepairingOK, ReplicatingOK,
                  Observed, Behind, Versions
    <2>2. ChainOK' /\ WireOK' /\ AckedOK'
      BY <1>2 DEF vars, replicaState, procState, PairInv, ChainOK, WireOK, AckedOK, Versions
    <2> QED BY <1>1, <2>1, <2>2 DEF PairInv
  <1>3. CASE Next
    BY <1>1, <1>3, PairBegin, PairReadReplica, PairReadUnavailable, PairSelectQuorum,
       PairSendRepair, PairRepair, PairGiveUp, PairApply, PairDecide, PairCoordinate,
       PairRedrive, PairRedriveArrives DEF Next
  <1> QED BY <1>2, <1>3

LEMMA SpecPair ==
  ASSUME PairGroup
  PROVE  Spec => []PairInv
  BY InitPair, NextPair, PTL DEF Spec

(* In a two-replica group an acknowledged version stays with both          *)
(* replicas, whatever reads, repairs, retries of commands and delayed      *)
(* requests follow: with any number of processes and commands no repair    *)
(* moves a replica behind a version it held.                               *)
THEOREM AcknowledgedStays ==
  ASSUME PairGroup
  PROVE  Spec => []AckedSurvives
  <1>1. PairInv => AckedSurvives
    <2> SUFFICES ASSUME PairInv, NEW v \in acked
                 PROVE  Cardinality(Holders(v)) >= Required
      BY DEF AckedSurvives
    <2>1. Typed /\ ChainOK /\ AckedOK
      BY DEF PairInv
    <2>2. \A r \in Replicas : v \in Line(head[r])
      <3> SUFFICES ASSUME NEW r \in Replicas PROVE v \in Line(head[r])
        OBVIOUS
      <3>1. v \in Nat \ {0} /\ v <= head[r] /\ head[r] \in Versions
        BY <2>1, Numbers DEF AckedOK
      <3>2. Line(head[r]) = 1..head[r]
        BY <2>1, <3>1, Numbers DEF ChainOK, Line
      <3> QED BY <2>1, <3>1, <3>2, Numbers
    <2>3. Holders(v) = Replicas
      BY <2>2 DEF Holders
    <2> QED BY <2>3, ReplicationConstants DEF PairGroup
  <1> QED BY <1>1, SpecPair, PTL

(***************************************************************************)
(* The register of a two-replica group.  Every step is one of the register *)
(* or leaves these, its variables, unchanged.                              *)
(***************************************************************************)
RChain == [i \in 1..head[Coordinator] |-> versions[i].command]
RStatus == [p \in Procs |-> IF phase[p] \in {"idle", "ok", "failed"} THEN phase[p] ELSE "open"]
RAnswer == [p \in Procs |-> IF phase[p] = "ok" THEN chosen[p] ELSE Absent]

RegisterStutters == UNCHANGED <<RChain, op, RStatus, begun, RAnswer>>

RegisterStep == Register!Next \/ RegisterStutters

LEMMA RChainIs ==
  ASSUME Typed, ChainOK
  PROVE  /\ RChain \in Seq(Commands) /\ Len(RChain) = Len(versions)
         /\ \A i \in Versions : RChain[i] = versions[i].command
  <1>1. \A i \in 1..Len(versions) : versions[i].command \in Commands
    BY DEF Typed, TypeOK, Versions
  <1>2. Len(versions) \in Nat /\ RChain = [i \in 1..Len(versions) |-> versions[i].command]
    BY DEF Typed, ChainOK, RChain
  <1> QED BY <1>1, <1>2 DEF Versions

(* A step that neither begins nor ends an operation, and leaves the        *)
(* coordinator alone.                                                      *)
LEMMA Stutters ==
  ASSUME Typed, NEW p \in Procs, UNCHANGED <<versions, op, begun>>,
         head'[Coordinator] = head[Coordinator],
         \A q \in Procs \ {p} : Stays(q),
         \/ phase'[p] = phase[p] /\ chosen'[p] = chosen[p]
         \/ /\ phase[p] \notin {"idle", "ok", "failed"}
            /\ phase'[p] \notin {"idle", "ok", "failed"}
  PROVE  RegisterStep
  BY DEF RegisterStep, RegisterStutters, RChain, RStatus, RAnswer, Stays

LEMMA Begins ==
  ASSUME PairInv, NEW p \in Procs, Begin(p)
  PROVE  RegisterStep
  <1>1. Typed /\ ChainOK
    BY DEF PairInv
  <1>2. PICK o \in Commands \cup {Snapshot, Current} : op' = [op EXCEPT ![p] = o]
    BY DEF Begin
  <1>3. /\ RStatus[p] = "idle" /\ RStatus' = [RStatus EXCEPT ![p] = "open"]
        /\ begun' = [begun EXCEPT ![p] = Len(RChain)]
        /\ RChain' = RChain /\ RAnswer' = RAnswer
    BY <1>1, RChainIs DEF Begin, replicaState, RStatus, RChain, RAnswer, Typed, TypeOK, ChainOK
  <1>4. Register!Invoke(p)
    BY <1>2, <1>3 DEF Register!Invoke, RStatus, RChain, RAnswer
  <1> QED BY <1>4 DEF RegisterStep, Register!Next

LEMMA Fails ==
  ASSUME Typed, NEW p \in Procs, UNCHANGED <<versions, op, begun>>,
         head'[Coordinator] = head[Coordinator],
         \A q \in Procs \ {p} : Stays(q),
         phase[p] \notin {"idle", "ok", "failed"}, phase'[p] = "failed"
  PROVE  RegisterStep
  <1>1. /\ RStatus[p] = "open" /\ RStatus' = [RStatus EXCEPT ![p] = "failed"]
        /\ RChain' = RChain /\ RAnswer' = RAnswer
    BY DEF RStatus, RChain, RAnswer, Stays
  <1>2. Register!Fail(p)
    BY <1>1 DEF Register!Fail, RStatus, RChain, RAnswer
  <1> QED BY <1>2 DEF RegisterStep, Register!Next

LEMMA Answers ==
  ASSUME Typed, ChainOK, NEW p \in Procs, UNCHANGED <<versions, op, begun>>,
         head'[Coordinator] = head[Coordinator],
         \A q \in Procs \ {p} : Stays(q),
         phase[p] \notin {"idle", "ok", "failed"}, phase'[p] = "ok",
         NEW i \in 0..Len(versions), chosen'[p] = i,
         \/ op[p] \in Reads /\ begun[p] <= i
         \/ op[p] \in Commands /\ i \in Versions /\ versions[i].command = op[p]
  PROVE  RegisterStep
  <1>1. /\ RStatus[p] = "open" /\ RStatus' = [RStatus EXCEPT ![p] = "ok"]
        /\ RChain' = RChain /\ RAnswer' = [RAnswer EXCEPT ![p] = i]
    BY DEF RStatus, RChain, RAnswer, Stays
  <1>2. i \in 0..Len(RChain) /\ begun[p] \in Nat /\ i \in Nat
    BY RChainIs, Numbers
  <1>3. IF op[p] \in Reads THEN i >= begun[p] ELSE i > 0 /\ RChain[i] = op[p]
    BY <1>2, RChainIs, ReplicationConstants DEF Reads, Versions
  <1>4. Register!Answer(p, i)
    BY <1>1, <1>3 DEF Register!Answer, RStatus, RChain, RAnswer, Reads
  <1> QED BY <1>2, <1>4 DEF RegisterStep, Register!Next, RChain

(* The coordinator's commit is where a write takes effect; a replay of its *)
(* receipt is no step of the register.                                     *)
LEMMA TakesEffect ==
  ASSUME PairInv, Typed', ChainOK', NEW p \in Procs, coordinate_prepared_object_mutation(p)
  PROVE  RegisterStep
  <1>1. Typed /\ ChainOK
    BY DEF PairInv
  <1>2. PICK v \in Versions' :
           /\ chosen' = [chosen EXCEPT ![p] = v]
           /\ pending' = [pending EXCEPT ![p] = Replicas \ {Coordinator}]
           /\ durable' = [durable EXCEPT ![p] = {Coordinator}]
           /\ phase[p] = "ready" /\ phase' = [phase EXCEPT ![p] = "replicating"]
           /\ UNCHANGED <<op, obs, acked, begun>>
           /\ op[p] \in Commands
           /\ \/ UNCHANGED <<versions, head, receipts>>
              \/ /\ v = Len(versions) + 1 /\ receipts[Coordinator][op[p]] = Absent
                 /\ versions' = Append(versions, [pred |-> Len(versions), command |-> op[p],
                                                  line |-> 1..v])
    BY CoordinateSteps
  <1>3. \A q \in Procs \ {p} : Stays(q)
    BY <1>1, <1>2 DEF Stays, Typed, TypeOK
  <1>4. phase'[p] = "replicating"
    BY <1>1, <1>2 DEF Typed, TypeOK
  <1>5. CASE UNCHANGED <<versions, head, receipts>>
    BY <1>1, <1>2, <1>3, <1>4, <1>5, Stutters
  <1>6. CASE /\ v = Len(versions) + 1 /\ receipts[Coordinator][op[p]] = Absent
             /\ versions' = Append(versions, [pred |-> Len(versions), command |-> op[p],
                                              line |-> 1..v])
    <2>1. /\ RStatus[p] = "open" /\ RStatus' = RStatus /\ RAnswer' = RAnswer
      BY <1>2, <1>3, <1>4 DEF RStatus, RAnswer, Stays
    <2>2. op[p] \notin Reads
      BY <1>2, ReplicationConstants DEF Reads
    <2>3. \A w \in Versions : versions[w].command # op[p]
      BY <1>1, <1>2, <1>6, Numbers DEF ChainOK
    <2>4. \A i \in DOMAIN RChain : RChain[i] # op[p]
      BY <1>1, <2>3, RChainIs DEF Versions
    <2>5. RChain' = Append(RChain, op[p])
      <3>1. /\ Len(versions') = v /\ versions'[v].command = op[p]
            /\ \A w \in Versions : versions'[w] = versions[w]
        BY <1>1, <1>6 DEF Typed, Versions
      <3>2. /\ RChain' \in Seq(Commands) /\ Len(RChain') = v
            /\ \A i \in 1..v : RChain'[i] = versions'[i].command
        <4>1. Len(versions') \in Nat
          BY DEF Typed
        <4>2. RChain' = [i \in 1..v |-> versions'[i].command]
          BY <3>1 DEF RChain, ChainOK
        <4>3. \A i \in 1..v : versions'[i].command \in Commands
          BY <3>1 DEF Typed, TypeOK, Versions
        <4> QED BY <3>1, <4>1, <4>2, <4>3
      <3>3. /\ RChain \in Seq(Commands) /\ Len(RChain) = Len(versions)
            /\ \A i \in Versions : RChain[i] = versions[i].command
        BY <1>1, RChainIs
      <3>4. /\ Append(RChain, op[p]) \in Seq(Commands) /\ Len(Append(RChain, op[p])) = v
            /\ \A i \in 1..v : Append(RChain, op[p])[i] = RChain'[i]
        BY <1>1, <1>2, <1>6, <3>1, <3>2, <3>3, Numbers DEF Versions
      <3> QED BY <3>2, <3>4
    <2>6. Register!TakeEffect(p)
      BY <1>2, <2>1, <2>2, <2>4, <2>5 DEF Register!TakeEffect, RStatus, RChain, RAnswer, Reads
    <2> QED BY <2>6 DEF RegisterStep, Register!Next
  <1> QED BY <1>2, <1>5, <1>6

(* The end of a read phase answers a read with a value not older than the  *)
(* read, and takes a mutation to the coordinator.                          *)
LEMMA Reconciles ==
  ASSUME PairInv, NEW p \in Procs, UNCHANGED <<versions, op, begun>>,
         head'[Coordinator] = head[Coordinator], \A q \in Procs \ {p} : Stays(q),
         phase[p] \in {"reading", "repairing"},
         NEW v \in Versions \cup {Absent}, Reconciled(p, v), begun[p] <= v
  PROVE  RegisterStep
  <1>1. Typed /\ ChainOK /\ ReadingOK(p)
    BY DEF PairInv
  <1>2. v \in 0..Len(versions)
    BY <1>1, Numbers
  <1>3. CASE Writing(p)
    <2>1. phase'[p] = "ready"
      BY <1>1, <1>3 DEF Reconciled, Typed, TypeOK
    <2> QED BY <1>1, <2>1, Stutters
  <1>4. CASE ~Writing(p)
    <2>1. phase'[p] = "ok" /\ chosen'[p] = v /\ op[p] \in Reads
      BY <1>1, <1>4 DEF Reconciled, Writing, ReadingOK, Typed, TypeOK
    <2> QED BY <1>1, <1>2, <2>1, Answers
  <1> QED BY <1>3, <1>4

LEMMA SelectRegister ==
  ASSUME PairGroup, PairInv, NEW p \in Procs, SelectQuorum(p)
  PROVE  RegisterStep
  <1>1. Typed
    BY DEF PairInv
  <1>2. PICK v \in Versions \cup {Absent} :
           /\ Selects(p, v)
           /\ \/ /\ phase' = [phase EXCEPT ![p] = "repairing"]
                 /\ chosen' = [chosen EXCEPT ![p] = v]
                 /\ UNCHANGED obs
              \/ Reconciled(p, v)
    BY DEF SelectQuorum
  <1>3. /\ phase[p] = "reading" /\ UNCHANGED <<versions, head, receipts, op, pending, durable,
                                              wire, acked, begun>>
    BY DEF SelectQuorum, replicaState
  <1>4. \A q \in Procs \ {p} : Stays(q)
    BY <1>1, <1>2, <1>3 DEF Reconciled, Stays, Typed, TypeOK
  <1>5. CASE Reconciled(p, v)
    BY <1>2, <1>3, <1>4, <1>5, SelectsNewest, Reconciles
  <1>6. CASE phase' = [phase EXCEPT ![p] = "repairing"]
    <2>1. phase'[p] = "repairing"
      BY <1>1, <1>6 DEF Typed, TypeOK
    <2> QED BY <1>1, <1>3, <1>4, <2>1, Stutters
  <1> QED BY <1>2, <1>5, <1>6

LEMMA UnavailableRegister ==
  ASSUME PairInv, NEW p \in Procs, ReadUnavailable(p)
  PROVE  RegisterStep
  <1>1. Typed
    BY DEF PairInv
  <1>2. /\ UNCHANGED <<versions, head, op, begun>> /\ phase[p] = "reading" /\ phase'[p] = "failed"
        /\ \A q \in Procs \ {p} : Stays(q)
    BY <1>1 DEF ReadUnavailable, ReadFailed, replicaState, Stays, Typed, TypeOK
  <1> QED BY <1>1, <1>2, Fails

LEMMA LocalRegister ==
  ASSUME PairInv, NEW p \in Procs, NEW r \in Replicas, ReadReplica(p, r) \/ SendRepair(p, r)
  PROVE  RegisterStep
  BY DEF ReadReplica, SendRepair, replicaState, RegisterStep, RegisterStutters, RChain,
         RStatus, RAnswer

LEMMA GiveUpRegister ==
  ASSUME PairInv, NEW p \in Procs, NEW r \in Replicas, GiveUp(p, r)
  PROVE  RegisterStep
  <1>1. Typed
    BY DEF PairInv
  <1>2. UNCHANGED <<versions, head, op, begun>> /\ r \in pending[p]
    BY DEF GiveUp, replicaState
  <1>3. CASE phase[p] = "repairing"
    <2>1. RepairAnswered(p, r, FALSE) /\ UNCHANGED durable
      BY <1>3 DEF GiveUp
    <2>2. pending' = [pending EXCEPT ![p] = {}] /\ ReadFailed(p)
      BY <1>2, <1>3, <2>1, RepairEnds
    <2>3. /\ phase'[p] = "failed" /\ \A q \in Procs \ {p} : Stays(q)
      BY <1>1, <1>2, <2>1, <2>2 DEF Stays, ReadFailed, Typed, TypeOK
    <2> QED BY <1>1, <1>2, <1>3, <2>3, Fails
  <1>4. CASE phase[p] # "repairing"
    <2>1. UNCHANGED <<phase, obs, chosen>>
      BY <1>4 DEF GiveUp
    <2> QED BY <1>2, <2>1 DEF RegisterStep, RegisterStutters, RChain, RStatus, RAnswer
  <1> QED BY <1>3, <1>4

LEMMA RepairRegister ==
  ASSUME PairInv, PairInv', NEW m \in wire, repair_object_path_snapshot(m)
  PROVE  RegisterStep
  <1> DEFINE p == m.proc
  <1>1. Typed /\ WireOK /\ ChainOK /\ RepairingOK(p) /\ p \in Procs /\ m.to \in Replicas
    BY DEF PairInv, repair_object_path_snapshot, Typed, TypeOK, Requests
  <1>2. /\ UNCHANGED <<versions, receipts, op, durable, acked, begun>>
        /\ RepairAnswered(p, m.to, RepairMatches(m))
    BY DEF repair_object_path_snapshot
  <1>3. head'[Coordinator] = head[Coordinator]
    BY <1>1, <1>2 DEF PairInv, ChainOK
  <1> HIDE DEF p
  <1>4. CASE /\ phase[p] = "repairing" /\ pending' = [pending EXCEPT ![p] = {}]
             /\ ReadFailed(p) \/ Reconciled(p, chosen[p])
    <2>1. \A q \in Procs \ {p} : Stays(q)
      BY <1>1, <1>2, <1>4 DEF Stays, ReadFailed, Reconciled, Typed, TypeOK
    <2>2. CASE ReadFailed(p)
      <3>1. phase'[p] = "failed"
        BY <1>1, <2>2 DEF ReadFailed, Typed, TypeOK
      <3> QED BY <1>1, <1>2, <1>3, <1>4, <2>1, <3>1, Fails
    <2>3. CASE Reconciled(p, chosen[p])
      <3>1. chosen[p] \in Versions /\ begun[p] <= chosen[p]
        BY <1>1, <1>4 DEF RepairingOK
      <3> QED BY <1>1, <1>2, <1>3, <1>4, <2>1, <2>3, <3>1, Reconciles
    <2> QED BY <1>4, <2>2, <2>3
  <1>5. CASE UNCHANGED <<pending, obs, phase, chosen>>
    BY <1>2, <1>3, <1>5 DEF RegisterStep, RegisterStutters, RChain, RStatus, RAnswer
  <1> QED BY <1>1, <1>2, <1>4, <1>5, RepairEnds

LEMMA ApplyRegister ==
  ASSUME PairInv, PairInv', NEW m \in wire, apply_object_mutation_replica(m)
  PROVE  RegisterStep
  <1>1. UNCHANGED <<versions, op, phase, obs, chosen, acked, begun>>
    BY ApplySteps
  <1>2. head'[Coordinator] = head[Coordinator]
    BY <1>1 DEF PairInv, ChainOK
  <1> QED BY <1>1, <1>2 DEF RegisterStep, RegisterStutters, RChain, RStatus, RAnswer

LEMMA RedriveRegister ==
  ASSUME PairInv, PairInv',
         \/ \E v \in Versions : redrive(v)
         \/ \E m \in wire : RedriveArrives(m)
  PROVE  RegisterStep
  <1>1. UNCHANGED <<versions, op, phase, obs, chosen, acked, begun>>
    BY DEF redrive, RedriveArrives, replicaState, procState
  <1>2. head'[Coordinator] = head[Coordinator]
    BY <1>1 DEF PairInv, ChainOK
  <1> QED BY <1>1, <1>2 DEF RegisterStep, RegisterStutters, RChain, RStatus, RAnswer

LEMMA DecideRegister ==
  ASSUME PairInv, NEW p \in Procs, Decide(p)
  PROVE  RegisterStep
  <1>1. Typed /\ ChainOK /\ ReplicatingOK(p)
    BY DEF PairInv
  <1>2. /\ UNCHANGED <<versions, head, op, begun>> /\ phase[p] = "replicating"
        /\ \A q \in Procs \ {p} : Stays(q)
    BY <1>1 DEF Decide, replicaState, Stays, Typed, TypeOK
  <1>3. \/ phase'[p] = "ok" /\ chosen'[p] = chosen[p]
        \/ phase'[p] = "failed"
    BY <1>1 DEF Decide, Typed, TypeOK
  <1>4. /\ op[p] \in Commands /\ chosen[p] \in Versions /\ chosen[p] \in 0..Len(versions)
        /\ versions[chosen[p]].command = op[p]
    BY <1>1, <1>2, Numbers DEF ReplicatingOK, Typed
  <1>5. CASE phase'[p] = "ok" /\ chosen'[p] = chosen[p]
    BY <1>1, <1>2, <1>4, <1>5, Answers
  <1>6. CASE phase'[p] = "failed"
    BY <1>1, <1>2, <1>6, Fails
  <1> QED BY <1>3, <1>5, <1>6

(* A two-replica group is a linearizable register: writes take effect      *)
(* once, in one order, at the coordinator's commit, and every read answers *)
(* a value the register had between its invocation and its answer, for any *)
(* number of processes and commands and every delay and loss of requests.  *)
THEOREM PairIsRegister ==
  ASSUME PairGroup
  PROVE  Spec => ImplementsRegister
  <1>1. Init => Register!Init
    <2> SUFFICES ASSUME Init PROVE Register!Init
      OBVIOUS
    <2>1. 1..head[Coordinator] = {}
      BY ReplicationConstants DEF Init, Absent
    <2>2. [i \in 1..head[Coordinator] |-> versions[i].command] = <<>>
      BY <2>1
    <2> QED BY <2>2 DEF Init, Register!Init, Absent
  <1>2. PairInv /\ [Next]_vars => [Register!Next]_(Register!rvars)
    <2> SUFFICES ASSUME PairInv, [Next]_vars PROVE RegisterStep
      BY DEF RegisterStep, RegisterStutters, Register!rvars, RChain, RStatus, RAnswer
    <2>1. PairInv' /\ Typed' /\ ChainOK'
      BY NextPair DEF PairInv
    <2>2. CASE UNCHANGED vars
      BY <2>2 DEF vars, replicaState, procState, RegisterStep, RegisterStutters, RChain,
                  RStatus, RAnswer
    <2>3. CASE Next
      BY <2>1, <2>3, Begins, SelectRegister, UnavailableRegister, TakesEffect, DecideRegister,
         LocalRegister, GiveUpRegister, RepairRegister, ApplyRegister, RedriveRegister DEF Next
    <2> QED BY <2>2, <2>3
  <1> QED BY <1>1, <1>2, SpecPair, PTL DEF Spec, ImplementsRegister, Register!Spec
=============================================================================
