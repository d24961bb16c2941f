-------------------------- MODULE ClusterMembership --------------------------
(***************************************************************************)
(* Cluster admission and membership.  Two kinds of state travel in the one *)
(* Raft log: OpenRaft's own membership (voter configurations and member    *)
(* addresses) and Keldra's cluster control (node descriptors, the one      *)
(* transition, used identities, the placement log index).  Keldra's        *)
(* commands are checked against both when they are applied; OpenRaft       *)
(* membership changes are checked only by the leader that proposes them,   *)
(* against the state it has applied so far.  The entries between the two   *)
(* moments are the log suffix `log`.                                       *)
(*                                                                         *)
(* An entry that a new leader truncates is one that was never appended:    *)
(* OpenRaft bases a change on a committed membership only.  A coordinator  *)
(* may stop after any step and another one may repeat its work.            *)
(***************************************************************************)
EXTENDS Integers, Sequences, FiniteSets

CONSTANTS
    Nodes,              \* node identities, ordered
    Genesis,            \* the node that forms the cluster
    Candidates,         \* descriptors operators may submit to BeginAddNode
    Weights,            \* storage weights of BeginReweightNode
    Pins,               \* peer key pins rotations and refreshes may use
    Capabilities,       \* join capability hashes refreshes may use
    VoterTarget,        \* FIXED_VOTER_TARGET
    MaxPending,         \* bound: entries appended and not yet applied
    MaxLogIndex         \* bound: the last log index a behaviour appends

None == [none |-> TRUE]

AllPins == Pins \cup {d.current_pin : d \in Candidates}

AllCapabilities == Capabilities \cup {d.join_capability : d \in Candidates}

Descriptors ==
    [node_id : Nodes, peer_address : {d.peer_address : d \in Candidates},
     weight : Weights \cup {d.weight : d \in Candidates}, state : {"JOINING", "ACTIVE"},
     current_pin : AllPins, overlap_pin : AllPins \cup {None},
     join_capability : AllCapabilities \cup {None}, capable : BOOLEAN]

\* A submitted descriptor is one that validate_descriptor lets pass.
ASSUME MembershipConstants ==
    /\ Nodes \subseteq Nat
    /\ IsFiniteSet(Nodes)
    /\ \A d \in Candidates : /\ d \in Descriptors
                             /\ d.state = "JOINING" /\ d.overlap_pin = None
    /\ None \notin AllPins /\ None \notin AllCapabilities
    /\ Genesis \in Nodes
    /\ VoterTarget \in Nat \ {0}
    /\ MaxPending \in Nat
    /\ MaxLogIndex \in Nat
    /\ \E d \in Candidates : d.node_id = Genesis

VARIABLES
    membership,     \* applied OpenRaft membership: voter configurations, members
    nodes,          \* admitted descriptors, by node
    used_node_ids,  \* identities that are never admitted again
    transition,     \* None, or the one membership transition
    placement,      \* active_placement_log_id, 0 before the first activation
    applied,        \* index of the last applied entry
    log             \* entries appended after it

control == <<nodes, used_node_ids, transition, placement>>
vars == <<membership, control, applied, log>>

CandidateAddress(n) == (CHOOSE d \in Candidates : d.node_id = n).peer_address

(***************************************************************************)
(* OpenRaft membership: one voter configuration, or two while joint, and   *)
(* the address of every member.                                            *)
(***************************************************************************)
Voters(m) == UNION {m.configs[i] : i \in DOMAIN m.configs}

Members(m) == DOMAIN m.addr

Joint(m) == Len(m.configs) > 1

LastConfig(m) == m.configs[Len(m.configs)]

\* The membership OpenRaft bases the next change on: the last one in the log.
Effective ==
    LET at == {i \in DOMAIN log : log[i].op = "raft"}
    IN  IF at = {} THEN membership
        ELSE log[CHOOSE i \in at : \A j \in at : j <= i].membership

\* change_membership(goal, retain = false): through a joint configuration
\* unless the goal is already one of the configurations.  Voters of no
\* configuration stop being members.
ReplaceVoters(m, goal) ==
    LET configs == IF \E i \in DOMAIN m.configs : m.configs[i] = goal
                   THEN <<goal>> ELSE <<LastConfig(m), goal>>
        dropped == Voters(m) \ UNION {configs[i] : i \in DOMAIN configs}
    IN  [configs |-> configs,
         addr |-> [n \in Members(m) \ dropped |-> m.addr[n]]]

\* add_learner never overrides a member.
AddMember(m, n, address) ==
    [m EXCEPT !.addr = [k \in Members(m) \cup {n} |->
                            IF k \in Members(m) THEN m.addr[k] ELSE address]]

RemoveMember(m, n) == [m EXCEPT !.addr = [k \in Members(m) \ {n} |-> m.addr[k]]]

(***************************************************************************)
(* Cluster control state.                                                  *)
(***************************************************************************)
Admitted == DOMAIN nodes

Active(n) == n \in Admitted /\ nodes[n].state = "ACTIVE"

ActiveNodes == {n \in Admitted : Active(n)}

AtMost(k, bound) == IF k < bound THEN k ELSE bound

voter_target == AtMost(Cardinality(ActiveNodes), VoterTarget)

Transitioning(n) == transition # None /\ transition.node_id = n

Kind == IF transition = None THEN "NONE" ELSE transition.kind

\* The pins that authenticate as the node a descriptor names.
PinsOf(d) == {d.current_pin} \cup ({d.overlap_pin} \ {None})

ensure_pin_unique(n, pin) == \A k \in Admitted \ {n} : pin \notin PinsOf(nodes[k])

ensure_join_capability_unique(n, cap) ==
    \A k \in Admitted \ {n} : nodes[k].join_capability # cap

ensure_descriptor_unique(d) ==
    \A k \in Admitted :
        /\ nodes[k].peer_address # d.peer_address
        /\ d.current_pin \notin PinsOf(nodes[k])
        /\ nodes[k].join_capability # d.join_capability

validate_voters(m, expected) ==
    /\ Cardinality(Voters(m)) = expected
    /\ \A v \in Voters(m) : Active(v)

validate_fixed_voters(m) == validate_voters(m, voter_target)

(***************************************************************************)
(* Applying an entry.  A rejected or repeated command advances the log and *)
(* changes nothing else.                                                   *)
(***************************************************************************)
Applying(op) ==
    /\ log # <<>>
    /\ Head(log).op = op
    /\ applied' = applied + 1
    /\ log' = Tail(log)

ApplyMembership ==
    /\ Applying("raft")
    /\ membership' = Head(log).membership
    /\ UNCHANGED control

\* Mutant of AddAccepted: the never-reuse bitmap is not consulted.
AddAcceptedReusingIds(d) ==
    /\ \A n \in Members(membership) :
          IF n = d.node_id THEN membership.addr[n] = d.peer_address
                           ELSE n \in Admitted
    /\ transition = None
    /\ d.node_id \notin Admitted
    /\ ensure_descriptor_unique(d)

\* BeginAddNode: the adapter first requires that every other Raft member has
\* a descriptor and that the node, if already a member, has this address.
AddAccepted(d) ==
    /\ \A n \in Members(membership) :
          IF n = d.node_id THEN membership.addr[n] = d.peer_address
                           ELSE n \in Admitted
    /\ transition = None
    /\ d.node_id \notin used_node_ids
    /\ ensure_descriptor_unique(d)

BeginAddNode ==
    /\ Applying("add")
    /\ LET d == Head(log).descriptor
       IN  IF AddAccepted(d)
           THEN /\ used_node_ids' = used_node_ids \cup {d.node_id}
                /\ nodes' = [n \in Admitted \cup {d.node_id} |->
                                 IF n = d.node_id THEN d ELSE nodes[n]]
                /\ transition' = [kind |-> "ADD", node_id |-> d.node_id,
                                  started |-> applied', weight |-> d.weight]
                /\ UNCHANGED placement
           ELSE UNCHANGED control
    /\ UNCHANGED membership

RemoveAccepted(n) ==
    /\ transition = None
    /\ Active(n)
    /\ Cardinality(ActiveNodes) # 1

BeginRemoveNode ==
    /\ Applying("remove")
    /\ LET n == Head(log).node_id
       IN  IF RemoveAccepted(n)
           THEN /\ transition' = [kind |-> "REMOVE", node_id |-> n,
                                  started |-> applied', weight |-> None]
                /\ UNCHANGED <<nodes, used_node_ids, placement>>
           ELSE UNCHANGED control
    /\ UNCHANGED membership

BeginReweightNode ==
    /\ Applying("reweight")
    /\ LET e == Head(log)
       IN  IF transition = None /\ Active(e.node_id) /\ nodes[e.node_id].weight # e.weight
           THEN /\ transition' = [kind |-> "REWEIGHT", node_id |-> e.node_id,
                                  started |-> applied', weight |-> e.weight]
                /\ UNCHANGED <<nodes, used_node_ids, placement>>
           ELSE UNCHANGED control
    /\ UNCHANGED membership

\* Mutant of MembershipReady: the second ADD completion does not check voters.
ReadyWithAnyVoters ==
    /\ transition.kind # "REMOVE" => transition.node_id \in Members(membership)
    /\ transition.kind = "REWEIGHT" => validate_fixed_voters(membership)
    /\ transition.kind = "REMOVE" =>
          /\ transition.node_id \notin Members(membership)
          /\ validate_voters(membership, AtMost(Cardinality(ActiveNodes) - 1, VoterTarget))

\* What OpenRaft's applied membership must look like for the current
\* transition to advance.
MembershipReady ==
    LET n == transition.node_id
    IN  CASE transition.kind = "ADD" ->
               /\ n \in Members(membership)
               /\ Active(n) => validate_fixed_voters(membership)
          [] transition.kind = "REWEIGHT" ->
               /\ n \in Members(membership)
               /\ validate_fixed_voters(membership)
          [] transition.kind = "REMOVE" ->
               /\ n \notin Members(membership)
               /\ validate_voters(membership,
                                  AtMost(Cardinality(ActiveNodes) - 1, VoterTarget))

\* Mutant of CompleteAdd: activation leaves the one-time capability in place.
CompleteAddKeepingCapability ==
    IF nodes[transition.node_id].state = "JOINING"
    THEN /\ nodes' = [nodes EXCEPT ![transition.node_id].state = "ACTIVE"]
         /\ placement' = applied'
         /\ UNCHANGED <<used_node_ids, transition>>
    ELSE /\ transition' = None
         /\ UNCHANGED <<nodes, used_node_ids, placement>>

\* ADD completes twice: JOINING becomes ACTIVE, then the transition is closed.
CompleteAdd ==
    LET n == transition.node_id
    IN  IF nodes[n].state = "JOINING"
        THEN IF nodes[n].capable
             THEN /\ nodes' = [nodes EXCEPT ![n].state = "ACTIVE", ![n].join_capability = None]
                  /\ placement' = applied'
                  /\ UNCHANGED <<used_node_ids, transition>>
             ELSE UNCHANGED control
        ELSE /\ transition' = None
             /\ UNCHANGED <<nodes, used_node_ids, placement>>

CompleteRemove ==
    /\ nodes' = [n \in Admitted \ {transition.node_id} |-> nodes[n]]
    /\ transition' = None
    /\ placement' = applied'
    /\ UNCHANGED used_node_ids

\* Mutant of CompleteReweight: the placement index does not move.
CompleteReweightInPlace ==
    /\ nodes' = [nodes EXCEPT ![transition.node_id].weight = transition.weight]
    /\ transition' = None
    /\ UNCHANGED <<used_node_ids, placement>>

CompleteReweight ==
    /\ nodes' = [nodes EXCEPT ![transition.node_id].weight = transition.weight]
    /\ transition' = None
    /\ placement' = applied'
    /\ UNCHANGED used_node_ids

CompleteMembershipTransition ==
    /\ Applying("complete")
    /\ IF transition # None /\ transition.started = Head(log).started /\ MembershipReady
       THEN \/ transition.kind = "ADD" /\ CompleteAdd
            \/ transition.kind = "REMOVE" /\ CompleteRemove
            \/ transition.kind = "REWEIGHT" /\ CompleteReweight
       ELSE UNCHANGED control
    /\ UNCHANGED membership

\* A joining node's unused key and capability are replaced, only before the
\* node becomes a Raft member.
RefreshAccepted(e) ==
    /\ e.node_id \notin Members(membership)
    /\ transition # None /\ transition.started = e.started
    /\ transition.kind = "ADD" /\ transition.node_id = e.node_id
    /\ nodes[e.node_id].state = "JOINING"
    /\ e.current # e.pin /\ e.capability # e.new_capability
    /\ nodes[e.node_id].current_pin = e.current
    /\ nodes[e.node_id].join_capability = e.capability
    /\ ensure_pin_unique(e.node_id, e.pin)
    /\ ensure_join_capability_unique(e.node_id, e.new_capability)

RefreshJoiningNodePreparation ==
    /\ Applying("refresh")
    /\ LET e == Head(log)
       IN  IF RefreshAccepted(e)
           THEN nodes' = [nodes EXCEPT ![e.node_id].current_pin = e.pin,
                                       ![e.node_id].join_capability = e.new_capability]
           ELSE UNCHANGED nodes
    /\ UNCHANGED <<membership, used_node_ids, transition, placement>>

\* Whom a step of an online key rotation may change: an ACTIVE node that no
\* membership transition is about and whose key is the one the step names.
MayRotate(e) ==
    /\ ~Transitioning(e.node_id)
    /\ Active(e.node_id)
    /\ nodes[e.node_id].current_pin = e.current

\* Mutant of StageAccepted: a pin another node has staged counts as free.
StageAcceptedIgnoringOverlaps(e) ==
    /\ e.current # e.overlap
    /\ \A k \in Admitted \ {e.node_id} : nodes[k].current_pin # e.overlap
    /\ MayRotate(e)
    /\ nodes[e.node_id].overlap_pin = None

StageAccepted(e) ==
    /\ e.current # e.overlap
    /\ ensure_pin_unique(e.node_id, e.overlap)
    /\ MayRotate(e)
    /\ nodes[e.node_id].overlap_pin = None

StagePeerSpkiOverlap ==
    /\ Applying("stage")
    /\ LET e == Head(log)
       IN  IF StageAccepted(e)
           THEN nodes' = [nodes EXCEPT ![e.node_id].overlap_pin = e.overlap]
           ELSE UNCHANGED nodes
    /\ UNCHANGED <<membership, used_node_ids, transition, placement>>

OverlapMatches(e) == MayRotate(e) /\ nodes[e.node_id].overlap_pin = e.overlap

PromotePeerSpkiOverlap ==
    /\ Applying("promote")
    /\ LET e == Head(log)
       IN  IF OverlapMatches(e)
           THEN nodes' = [nodes EXCEPT ![e.node_id].current_pin = e.overlap,
                                       ![e.node_id].overlap_pin = e.current]
           ELSE UNCHANGED nodes
    /\ UNCHANGED <<membership, used_node_ids, transition, placement>>

ClearPeerSpkiOverlap ==
    /\ Applying("clear")
    /\ LET e == Head(log)
       IN  IF OverlapMatches(e)
           THEN nodes' = [nodes EXCEPT ![e.node_id].overlap_pin = None]
           ELSE UNCHANGED nodes
    /\ UNCHANGED <<membership, used_node_ids, transition, placement>>

(***************************************************************************)
(* Appending an entry.  Commands come from administrators, rotations and   *)
(* join coordinators, whose fields are read from the applied state of the  *)
(* node they run on.                                                       *)
(***************************************************************************)
Append1(e) ==
    /\ Len(log) < MaxPending
    /\ applied + Len(log) < MaxLogIndex
    /\ log' = Append(log, e)
    /\ UNCHANGED <<membership, control, applied>>

SubmitBeginAdd == \E d \in Candidates : Append1([op |-> "add", descriptor |-> d])

SubmitBeginRemove == \E n \in Admitted : Append1([op |-> "remove", node_id |-> n])

SubmitBeginReweight ==
    \E n \in Admitted, w \in Weights :
        Append1([op |-> "reweight", node_id |-> n, weight |-> w])

SubmitComplete ==
    /\ transition # None
    /\ Append1([op |-> "complete", started |-> transition.started])

SubmitRefresh ==
    /\ Kind = "ADD"
    /\ nodes[transition.node_id].state = "JOINING"
    /\ \E p \in Pins, c \in Capabilities :
          Append1([op |-> "refresh", node_id |-> transition.node_id,
                   started |-> transition.started,
                   current |-> nodes[transition.node_id].current_pin,
                   capability |-> nodes[transition.node_id].join_capability,
                   pin |-> p, new_capability |-> c])

SubmitStage ==
    \E n \in ActiveNodes, p \in Pins :
        Append1([op |-> "stage", node_id |-> n,
                 current |-> nodes[n].current_pin, overlap |-> p])

SubmitPromoteOrClear ==
    \E n \in ActiveNodes, op \in {"promote", "clear"} :
        /\ nodes[n].overlap_pin # None
        /\ Append1([op |-> op, node_id |-> n, current |-> nodes[n].current_pin,
                    overlap |-> nodes[n].overlap_pin])

AppendMembership(m) == Append1([op |-> "raft", membership |-> m])

\* catch_up_joining_learner, with the guards of add_learner.
CatchUpJoiningLearner ==
    /\ Kind = "ADD"
    /\ LET n == transition.node_id
       IN  /\ nodes[n].state = "JOINING"
           /\ n \notin Voters(membership)
           /\ n \in Members(membership) => membership.addr[n] = nodes[n].peer_address
           /\ AppendMembership(AddMember(Effective, n, nodes[n].peer_address))

\* apply_fixed_voters_for_transition: who may vote once the transition is done.
Eligible ==
    IF transition.kind = "REMOVE" THEN ActiveNodes \ {transition.node_id} ELSE ActiveNodes

\* Keep every eligible voter and fill vacancies in identity order.
Desired ==
    LET kept == Voters(membership) \cap Eligible
        room == AtMost(Cardinality(Eligible), VoterTarget) - Cardinality(kept)
        spare == Eligible \ kept
    IN  kept \cup {n \in spare : Cardinality({k \in spare : k <= n}) <= room}

VotersMayChange ==
    /\ \/ Kind = "ADD" /\ Active(transition.node_id)
       \/ Kind = "REMOVE"
    /\ \A n \in Eligible : /\ n \in Members(membership)
                           /\ membership.addr[n] = nodes[n].peer_address
    /\ Cardinality(Desired) = AtMost(Cardinality(Eligible), VoterTarget)
    /\ Desired # {}

\* The code reads the state, checks it here and again in change_membership and
\* hands the voters to OpenRaft with no await in between.  That entries are
\* appended meanwhile is the lag of the applied state behind the log.
ApplyFixedVoters ==
    /\ VotersMayChange
    /\ ~(Voters(membership) = Desired /\ ~Joint(membership))
    /\ Desired \subseteq Members(Effective)
    /\ AppendMembership(ReplaceVoters(Effective, Desired))

\* The second half of OpenRaft's change_membership, which nothing guards.
LeaveJoint ==
    /\ Joint(membership)
    /\ Joint(Effective)
    /\ AppendMembership(ReplaceVoters(Effective, LastConfig(Effective)))

\* The REMOVE target leaves as a learner once it is no voter.
RemoveLearner ==
    /\ Kind = "REMOVE"
    /\ VotersMayChange
    /\ Voters(membership) = Desired /\ ~Joint(membership)
    /\ transition.node_id \in Members(membership)
    /\ transition.node_id \notin Voters(Effective)
    /\ AppendMembership(RemoveMember(Effective, transition.node_id))

(***************************************************************************)
(* Genesis: the cluster identity is committed and the first node is the    *)
(* only voter; it has no descriptor yet.                                   *)
(***************************************************************************)
Init ==
    /\ membership = [configs |-> <<{Genesis}>>,
                     addr |-> [n \in {Genesis} |-> CandidateAddress(Genesis)]]
    /\ nodes = [n \in {} |-> None]
    /\ used_node_ids = {}
    /\ transition = None
    /\ placement = 0
    /\ applied = 0
    /\ log = <<>>

Apply ==
    \/ ApplyMembership
    \/ BeginAddNode
    \/ BeginRemoveNode
    \/ BeginReweightNode
    \/ CompleteMembershipTransition
    \/ RefreshJoiningNodePreparation
    \/ StagePeerSpkiOverlap
    \/ PromotePeerSpkiOverlap
    \/ ClearPeerSpkiOverlap

Submit ==
    \/ SubmitBeginAdd
    \/ SubmitBeginRemove
    \/ SubmitBeginReweight
    \/ SubmitComplete
    \/ SubmitRefresh
    \/ SubmitStage
    \/ SubmitPromoteOrClear
    \/ CatchUpJoiningLearner
    \/ ApplyFixedVoters
    \/ LeaveJoint
    \/ RemoveLearner

Next == Apply \/ Submit

Spec == Init /\ [][Next]_vars

(***************************************************************************)
(* Properties.                                                             *)
(***************************************************************************)
ValidDescriptor(n, d) ==
    /\ d.node_id = n
    /\ d.state \in {"JOINING", "ACTIVE"}
    /\ (d.state = "ACTIVE") <=> (d.join_capability = None)
    /\ d.state = "JOINING" => d.overlap_pin = None
    /\ d.overlap_pin # d.current_pin

\* Types.  Every descriptor keeps what validate_descriptor asked of it when
\* it was submitted: in particular a node that is ACTIVE holds no one-time
\* join capability and a JOINING node holds one.
TypeOK ==
    /\ Len(membership.configs) \in 1..2
    /\ Voters(membership) \subseteq Members(membership)
    /\ Members(membership) \subseteq Nodes
    /\ Admitted \subseteq Nodes
    /\ \A n \in Admitted : ValidDescriptor(n, nodes[n])
    /\ used_node_ids \subseteq Nodes
    /\ transition = None \/ transition.started \in 1..applied
    /\ placement \in 0..applied
    /\ applied \in 0..MaxLogIndex
    /\ Len(log) <= MaxPending

\* MachineState::validate_cluster_membership, which decides whether a
\* snapshot may be built or installed and whether a node may open at all.
validate_cluster_membership ==
    IF Admitted = {} THEN transition = None
    ELSE /\ \A n \in Members(membership) :
               n \in Admitted /\ nodes[n].peer_address = membership.addr[n]
         /\ \A n \in Admitted :
               /\ nodes[n].node_id = n
               /\ n \in used_node_ids
               /\ \/ n \in Members(membership)
                  \/ Transitioning(n) /\ Kind = "ADD" /\ nodes[n].state = "JOINING"
                  \/ Transitioning(n) /\ Kind = "REMOVE" /\ nodes[n].state = "ACTIVE"
               /\ nodes[n].state = "JOINING" => Transitioning(n) /\ Kind = "ADD"
         /\ transition # None => transition.node_id \in Admitted
         /\ \/ Kind = "REMOVE"
            \/ Kind = "ADD" /\ nodes[transition.node_id].state = "ACTIVE"
            \/ validate_fixed_voters(membership)

\* Once the cluster has an ACTIVE node, every applied state passes the
\* validation that snapshots and restarts demand (raft.rs): no interleaving
\* of commands, coordinators and membership changes produces a log that a
\* node applies and then cannot load again.  In particular whoever votes is
\* an ACTIVE node, and no member lacks a descriptor.
RestartSafe == ActiveNodes # {} => validate_cluster_membership

\* The same, genesis included: what RFC 0010 asks of a crash at every
\* bootstrap boundary.
EveryStateLoads == validate_cluster_membership

\* A presented peer key authenticates as at most one node, across joins,
\* refreshes and all phases of rotations that run at once (cluster_control.rs).
PinNamesOneNode ==
    \A n, k \in Admitted : n # k => PinsOf(nodes[n]) \cap PinsOf(nodes[k]) = {}

\* The weighted set of ACTIVE nodes that placement is computed from.
ActiveWeights == [n \in ActiveNodes |-> nodes[n].weight]

\* The placement log index names one weighted set of ACTIVE nodes: it moves,
\* forwards only, exactly when that set does.  Serving leases fence placement
\* by this index alone.
PlacementNamesActiveSet ==
    [][(ActiveWeights' # ActiveWeights) <=> (placement' > placement)]_vars

\* A node identity whose descriptor was removed stays out of the cluster: no
\* late command readmits it and no late membership change of a coordinator
\* makes it a Raft member again.
RemovedNodeStaysOut ==
    [][\A n \in used_node_ids \ Admitted :
          n \notin Admitted' /\ n \notin Members(membership)']_vars
=============================================================================
