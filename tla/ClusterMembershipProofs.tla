------------------------ MODULE ClusterMembershipProofs -----------------------
(***************************************************************************)
(* ClusterMembership for every set of nodes, candidates and pins, every    *)
(* voter target and a log of any length.                                   *)
(*                                                                         *)
(* The control state alone carries pin uniqueness and the placement index. *)
(* That every applied state loads again and that a removed node stays out  *)
(* are about the Raft memberships that are still in the log: they were     *)
(* based on what their coordinator had applied, and commands that the      *)
(* coordinator had not yet seen are applied before them.                   *)
(***************************************************************************)
EXTENDS ClusterMembership, FiniteSetTheorems, TLAPS

(* A Raft membership as a record of configurations and addresses.          *)
IsMembership(m) ==
    /\ m = [configs |-> m.configs, addr |-> m.addr]
    /\ m.configs \in Seq(SUBSET Nodes)
    /\ Len(m.configs) \in 1..2
    /\ m.addr = [n \in Members(m) |-> m.addr[n]]
    /\ Members(m) \subseteq Nodes
    /\ Voters(m) \subseteq Members(m)

(* An entry of the log carries what its proposer read.                     *)
IsEntry(e) ==
    /\ e.op \in {"raft", "add", "remove", "reweight", "complete", "refresh", "stage",
                 "promote", "clear"}
    /\ e.op = "raft" => IsMembership(e.membership)
    /\ e.op = "add" => e.descriptor \in Candidates
    /\ e.op = "reweight" => e.weight \in Weights
    /\ e.op = "refresh" => e.pin \in Pins /\ e.new_capability \in Capabilities
    /\ e.op = "stage" => e.overlap \in Pins
    /\ e.op \in {"promote", "clear"} => e.overlap \in AllPins

IsTransition(t) ==
    \/ t = None
    \/ /\ t = [kind |-> t.kind, node_id |-> t.node_id, started |-> t.started,
               weight |-> t.weight]
       /\ t.kind \in {"ADD", "REMOVE", "REWEIGHT"}
       /\ t.node_id \in Nodes
       /\ t.started \in 1..applied
       /\ t.kind = "REWEIGHT" => t.weight \in Weights

(* The applied membership and those in the log, by position.               *)
Positions == {0} \cup {i \in 1..Len(log) : log[i].op = "raft"}

Mem(i) == IF i = 0 THEN membership ELSE log[i].membership

(* The log has a last membership, the one OpenRaft calls effective.        *)
HasLast == \E e \in Positions : \A j \in Positions : j <= e

ControlTyped ==
    /\ nodes = [n \in Admitted |-> nodes[n]]
    /\ Admitted \subseteq Nodes
    /\ \A n \in Admitted : nodes[n] \in Descriptors /\ ValidDescriptor(n, nodes[n])
    /\ used_node_ids \subseteq Nodes
    /\ IsTransition(transition)
    /\ applied \in Nat
    /\ placement \in 0..applied

Typed ==
    /\ IsMembership(membership)
    /\ ControlTyped
    /\ log = [i \in 1..Len(log) |-> log[i]] /\ Len(log) \in Nat
    /\ \A i \in 1..Len(log) : IsEntry(log[i])
    /\ applied + Len(log) <= MaxLogIndex /\ Len(log) <= MaxPending
    /\ HasLast

(* The transition is about an admitted node in the state its kind says; a  *)
(* node joins only by the transition, and a removal leaves an ACTIVE node. *)
TransitionOK ==
    /\ Admitted \subseteq used_node_ids
    /\ transition # None => transition.node_id \in Admitted
    /\ \A n \in Admitted : nodes[n].state = "JOINING" => Transitioning(n) /\ Kind = "ADD"
    /\ Kind = "REWEIGHT" => nodes[transition.node_id].weight # transition.weight
    /\ Kind = "REMOVE" => ActiveNodes \ {transition.node_id} # {}

ControlInv == Typed /\ TransitionOK /\ PinNamesOneNode

Joining(n) == Transitioning(n) /\ Kind = "ADD" /\ nodes[n].state = "JOINING"

(* Who votes once the transition is done, whatever its kind.               *)
May == IF Kind = "REMOVE" THEN ActiveNodes \ {transition.node_id} ELSE ActiveNodes

Target == AtMost(Cardinality(May), VoterTarget)

VotersAt(i) == Voters(Mem(i)) \cap May

(* The voters of the applied membership that may stay, and who joins them. *)
Wanted ==
    VotersAt(0) \cup
    {n \in May \ VotersAt(0) :
        Cardinality({k \in May \ VotersAt(0) : k <= n}) <= Target - Cardinality(VotersAt(0))}

GenesisMembership ==
    [configs |-> <<{Genesis}>>, addr |-> [n \in {Genesis} |-> CandidateAddress(Genesis)]]

(* Before there is an ACTIVE node only the genesis node is ever admitted,  *)
(* and the membership is the initial one.                                  *)
GenesisOK ==
    /\ used_node_ids = Admitted
    /\ \A i \in Positions : Mem(i) = GenesisMembership
    /\ Admitted \subseteq {Genesis}
    /\ Genesis \in Admitted => /\ Joining(Genesis)
                               /\ nodes[Genesis].peer_address = CandidateAddress(Genesis)
    /\ Admitted = {} => transition = None

(* Every membership of the log consists of admitted nodes and has them     *)
(* all, except the one that is joining or leaving.  Down the log members   *)
(* only leave, except the one that is joining.                             *)
MembersOK ==
    /\ \A i \in Positions : \A n \in Members(Mem(i)) :
          n \in Admitted /\ Mem(i).addr[n] = nodes[n].peer_address
    /\ \A i \in Positions : \A n \in Admitted \ Members(Mem(i)) :
          Joining(n) \/ (Transitioning(n) /\ Kind = "REMOVE")
    /\ \A i, j \in Positions : i <= j => /\ \A n \in Members(Mem(j)) \ Members(Mem(i)) : Joining(n)
                                         /\ \A n \in Members(Mem(i)) \ Members(Mem(j)) : ~Joining(n)

(* Only ACTIVE nodes vote.  Among those that may vote after the transition *)
(* the last configuration is the whole electorate, and down the log the    *)
(* electorate changes at most once, to the full one the transition wants.  *)
VotersOK ==
    /\ \A i \in Positions : Voters(Mem(i)) \subseteq ActiveNodes
    /\ \A i \in Positions : LastConfig(Mem(i)) \cap May = VotersAt(i)
    /\ \A i \in Positions : \/ VotersAt(i) = VotersAt(0)
                            \/ VotersAt(i) = Wanted /\ Cardinality(Wanted) = Target
    /\ \A i, j \in Positions : i <= j /\ VotersAt(i) # VotersAt(0) => VotersAt(j) = VotersAt(i)
    /\ Kind \in {"NONE", "REWEIGHT"} => Cardinality(VotersAt(0)) = Target
    /\ transition # None /\ Joining(transition.node_id) => Cardinality(VotersAt(0)) = Target

(* The inductive invariant.                                                *)
MembershipInv ==
    /\ ControlInv
    /\ ActiveNodes = {} => GenesisOK
    /\ ActiveNodes # {} => MembersOK /\ VotersOK

(***************************************************************************)
(* The log.                                                                *)
(***************************************************************************)
LEMMA FunctionIsSequence ==
  ASSUME NEW s, Len(s) \in Nat, s = [i \in 1..Len(s) |-> s[i]]
  PROVE  s \in Seq({s[i] : i \in 1..Len(s)})
  OBVIOUS

LEMMA SequenceIsFunction ==
  ASSUME NEW T, NEW s \in Seq(T)
  PROVE  Len(s) \in Nat /\ s = [i \in 1..Len(s) |-> s[i]]
  OBVIOUS

LEMMA TailOf ==
  ASSUME NEW T, NEW s \in Seq(T), s # <<>>
  PROVE  /\ Len(s) \in Nat \ {0} /\ Head(s) = s[1]
         /\ Len(Tail(s)) = Len(s) - 1
         /\ Tail(s) = [i \in 1..Len(Tail(s)) |-> Tail(s)[i]]
         /\ \A i \in 1..(Len(s) - 1) : Tail(s)[i] = s[i + 1]
  <1>1. /\ Len(s) \in Nat \ {0} /\ Head(s) = s[1] /\ Tail(s) \in Seq(T)
        /\ Len(Tail(s)) = Len(s) - 1
    OBVIOUS
  <1>2. \A i \in 1..(Len(s) - 1) : Tail(s)[i] = s[i + 1]
    BY <1>1
  <1>3. Tail(s) = [i \in 1..Len(Tail(s)) |-> Tail(s)[i]]
    BY <1>1, SequenceIsFunction
  <1> QED BY <1>1, <1>2, <1>3

LEMMA AppendTo ==
  ASSUME NEW T, NEW s \in Seq(T), NEW e
  PROVE  /\ Len(s) \in Nat
         /\ Len(Append(s, e)) = Len(s) + 1
         /\ Append(s, e) = [i \in 1..Len(Append(s, e)) |-> Append(s, e)[i]]
         /\ Append(s, e)[Len(s) + 1] = e
         /\ \A i \in 1..Len(s) : Append(s, e)[i] = s[i]
  <1>1. s \in Seq(T \cup {e})
    OBVIOUS
  <1>2. Append(s, e) \in Seq(T \cup {e}) /\ Len(s) \in Nat /\ Len(Append(s, e)) = Len(s) + 1
    BY <1>1
  <1>3. Append(s, e) = [i \in 1..Len(Append(s, e)) |-> Append(s, e)[i]]
    BY <1>2, SequenceIsFunction
  <1>4. Append(s, e)[Len(s) + 1] = e /\ \A i \in 1..Len(s) : Append(s, e)[i] = s[i]
    BY <1>1
  <1> QED BY <1>2, <1>3, <1>4

LEMMA LogApplied ==
  ASSUME Typed, NEW op, Applying(op)
  PROVE  /\ Len(log) \in Nat \ {0} /\ Head(log) = log[1] /\ log[1].op = op
         /\ IsEntry(log[1]) /\ applied' = applied + 1
         /\ Len(log') = Len(log) - 1
         /\ log' = [i \in 1..Len(log') |-> log'[i]]
         /\ \A i \in 1..(Len(log) - 1) : log'[i] = log[i + 1]
  <1>1. log \in Seq({log[i] : i \in 1..Len(log)}) /\ log # <<>> /\ log' = Tail(log)
    BY FunctionIsSequence DEF Typed, Applying
  <1>2. /\ Len(log) \in Nat \ {0} /\ Head(log) = log[1]
        /\ Len(log') = Len(log) - 1
        /\ log' = [i \in 1..Len(log') |-> log'[i]]
        /\ \A i \in 1..(Len(log) - 1) : log'[i] = log[i + 1]
    BY <1>1, TailOf
  <1> QED BY <1>2 DEF Typed, Applying

LEMMA LogAppended ==
  ASSUME Typed, NEW e, Append1(e)
  PROVE  /\ Len(log) \in Nat /\ Len(log') = Len(log) + 1 /\ Len(log') <= MaxPending
         /\ applied + Len(log') <= MaxLogIndex
         /\ log' = [i \in 1..Len(log') |-> log'[i]]
         /\ log'[Len(log) + 1] = e
         /\ \A i \in 1..Len(log) : log'[i] = log[i]
         /\ UNCHANGED <<membership, nodes, used_node_ids, transition, placement, applied>>
  <1>1. log \in Seq({log[i] : i \in 1..Len(log)}) /\ log' = Append(log, e)
    BY FunctionIsSequence DEF Typed, Append1
  <1>2. /\ Len(log) \in Nat /\ Len(log') = Len(log) + 1
        /\ log' = [i \in 1..Len(log') |-> log'[i]]
        /\ log'[Len(log) + 1] = e
        /\ \A i \in 1..Len(log) : log'[i] = log[i]
    BY <1>1, AppendTo
  <1>3. Len(log) < MaxPending /\ applied + Len(log) < MaxLogIndex
    BY DEF Append1
  <1> QED BY <1>2, <1>3, MembershipConstants DEF Append1, control, Typed, ControlTyped, MembershipConstants

(* Where the memberships of the log were before an entry was applied.      *)
Before(i) == IF i = 0 /\ log[1].op # "raft" THEN 0 ELSE i + 1

LEMMA PositionsApplied ==
  ASSUME Typed, NEW op, Applying(op),
         membership' = IF op = "raft" THEN log[1].membership ELSE membership
  PROVE  /\ \A i \in Positions' : /\ Before(i) \in Positions /\ Mem(i)' = Mem(Before(i))
                                  /\ i \in Nat
         /\ \A i, j \in Positions' : i <= j => Before(i) <= Before(j)
         /\ op # "raft" => Before(0) = 0
         /\ op = "raft" => Before(0) = 1
         /\ HasLast'
  <1>1. /\ Len(log) \in Nat \ {0} /\ log[1].op = op
        /\ Len(log') = Len(log) - 1
        /\ \A i \in 1..(Len(log) - 1) : log'[i] = log[i + 1]
    BY LogApplied
  <1>2. ASSUME NEW i \in Positions'
        PROVE  i \in Nat /\ Before(i) \in Positions /\ Mem(i)' = Mem(Before(i))
    <2>1. CASE i = 0
      BY <1>1, <2>1 DEF Before, Positions, Mem
    <2>2. CASE i # 0
      <3>1. i \in 1..(Len(log) - 1) /\ log[i + 1].op = "raft"
        BY <1>1, <1>2, <2>2 DEF Positions
      <3> QED BY <1>1, <3>1 DEF Before, Positions, Mem
    <2> QED BY <2>1, <2>2
  <1>3. \A i, j \in Positions' : i <= j => Before(i) <= Before(j)
    BY <1>2 DEF Before
  <1>4. /\ op # "raft" => Before(0) = 0
        /\ op = "raft" => Before(0) = 1
    BY <1>1 DEF Before
  <1>5. HasLast'
    <2>1. PICK e \in Positions : \A j \in Positions : j <= e
      BY DEF Typed, HasLast
    <2>2. e \in 0..Len(log) /\ 0 \in Positions'
      BY <1>1, <2>1 DEF Positions
    <2>3. CASE e <= 1
      <3>1. \A j \in Positions' : j <= 0
        BY <1>2, <2>1, <2>2, <2>3 DEF Before
      <3> QED BY <2>2, <3>1 DEF HasLast
    <2>4. CASE e > 1
      <3>1. e - 1 \in Positions'
        BY <1>1, <2>1, <2>2, <2>4 DEF Positions
      <3>2. \A j \in Positions' : j <= e - 1
        BY <1>2, <2>1, <2>2, <2>4 DEF Before
      <3> QED BY <3>1, <3>2 DEF HasLast
    <2> QED BY <2>2, <2>3, <2>4
  <1> QED BY <1>2, <1>3, <1>4, <1>5

LEMMA PositionsAppended ==
  ASSUME Typed, NEW e, Append1(e)
  PROVE  /\ e.op # "raft" => Positions' = Positions
         /\ e.op = "raft" => /\ Positions' = Positions \cup {Len(log) + 1}
                             /\ \A k : k = Len(log) + 1 => Mem(k)' = e.membership
         /\ \A i \in Positions : Mem(i)' = Mem(i) /\ i \in 0..Len(log)
         /\ HasLast'
  <1>1. /\ Len(log) \in Nat /\ Len(log') = Len(log) + 1 /\ log'[Len(log) + 1] = e
        /\ \A i \in 1..Len(log) : log'[i] = log[i]
        /\ membership' = membership
    BY LogAppended
  <1>2. \A i \in Positions : Mem(i)' = Mem(i) /\ i \in 0..Len(log)
    BY <1>1 DEF Positions, Mem
  <1>3. e.op # "raft" => Positions' = Positions
    BY <1>1 DEF Positions
  <1>4. e.op = "raft" => /\ Positions' = Positions \cup {Len(log) + 1}
                         /\ \A k : k = Len(log) + 1 => Mem(k)' = e.membership
    BY <1>1 DEF Positions, Mem
  <1>5. HasLast'
    <2>1. CASE e.op = "raft"
      <3>1. \A j \in Positions' : j <= Len(log) + 1
        BY <1>1, <1>2, <1>4, <2>1
      <3> QED BY <1>4, <2>1, <3>1 DEF HasLast
    <2>2. CASE e.op # "raft"
      BY <1>3, <2>2 DEF Typed, HasLast
    <2> QED BY <2>1, <2>2
  <1> QED BY <1>2, <1>3, <1>4, <1>5

(* The effective membership is the last one of the log.                    *)
LEMMA EffectiveIsLast ==
  ASSUME Typed
  PROVE  \E e \in Positions : Effective = Mem(e) /\ \A j \in Positions : j <= e
  <1> DEFINE at == {i \in DOMAIN log : log[i].op = "raft"}
  <1>1. PICK e \in Positions : \A j \in Positions : j <= e
    BY DEF Typed, HasLast
  <1>2. DOMAIN log = 1..Len(log) /\ Len(log) \in Nat
    BY DEF Typed
  <1>3. Positions = {0} \cup at /\ \A i \in Positions : i \in Nat
    BY <1>2 DEF Positions
  <1>4. CASE at = {}
    <2>1. Effective = Mem(0) /\ e = 0
      BY <1>1, <1>3, <1>4 DEF Effective, Mem
    <2> QED BY <1>1, <2>1
  <1>5. CASE at # {}
    <2>1. e \in at /\ \A j \in at : j <= e
      BY <1>1, <1>2, <1>3, <1>5
    <2> DEFINE c == CHOOSE i \in at : \A j \in at : j <= i
    <2>2. c \in at /\ \A j \in at : j <= c
      BY <2>1
    <2>3. c = e /\ e # 0
      BY <1>2, <2>1, <2>2
    <2>4. Effective = log[c].membership
      BY <1>5 DEF Effective
    <2> HIDE DEF c
    <2> QED BY <1>1, <2>3, <2>4 DEF Mem
  <1> QED BY <1>4, <1>5

LEMMA MemIs ==
  ASSUME Typed
  PROVE  /\ \A i \in Positions : IsMembership(Mem(i)) /\ i \in Nat
         /\ 0 \in Positions /\ Mem(0) = membership
         /\ IsMembership(Effective)
  <1>1. \A i \in Positions : IsMembership(Mem(i)) /\ i \in Nat
    BY DEF Typed, Positions, Mem, IsEntry
  <1> QED BY <1>1, EffectiveIsLast DEF Positions, Mem

(***************************************************************************)
(* Changes of a membership.                                                *)
(***************************************************************************)
LEMMA VotersOfOne == ASSUME NEW c PROVE UNION {<<c>>[i] : i \in DOMAIN <<c>>} = c
  OBVIOUS

LEMMA VotersOfTwo ==
  ASSUME NEW c, NEW d PROVE UNION {<<c, d>>[i] : i \in DOMAIN <<c, d>>} = c \cup d
  OBVIOUS

LEMMA LastConfigVotes ==
  ASSUME NEW m, IsMembership(m)
  PROVE  LastConfig(m) \subseteq Voters(m) /\ LastConfig(m) \subseteq Nodes
  <1> DEFINE c == m.configs
  <1>1. c \in Seq(SUBSET Nodes) /\ Len(c) \in 1..2
    BY DEF IsMembership
  <1> HIDE DEF c
  <1>2. Len(c) \in DOMAIN c /\ c[Len(c)] \subseteq Nodes
    BY <1>1
  <1> QED BY <1>2 DEF LastConfig, Voters, c

LEMMA AddMemberIs ==
  ASSUME NEW m, IsMembership(m), NEW n \in Nodes, NEW a
  PROVE  LET r == AddMember(m, n, a)
         IN  /\ IsMembership(r)
             /\ Members(r) = Members(m) \cup {n}
             /\ Voters(r) = Voters(m) /\ LastConfig(r) = LastConfig(m)
             /\ \A k \in Members(m) : r.addr[k] = m.addr[k]
             /\ n \notin Members(m) => r.addr[n] = a
             /\ n \in Members(m) => r = m
  <1> DEFINE new == [k \in Members(m) \cup {n} |-> IF k \in Members(m) THEN m.addr[k] ELSE a]
             r == AddMember(m, n, a)
  <1>1. m = [configs |-> m.configs, addr |-> m.addr]
    BY DEF IsMembership
  <1> HIDE DEF new
  <1>2. r.configs = m.configs /\ r.addr = new /\ r = [configs |-> r.configs, addr |-> r.addr]
    BY <1>1 DEF AddMember, new
  <1>3. Members(r) = Members(m) \cup {n}
    BY <1>2 DEF Members, new
  <1>4. Voters(r) = Voters(m) /\ LastConfig(r) = LastConfig(m)
    BY <1>2 DEF Voters, LastConfig
  <1>5. /\ \A k \in Members(m) : r.addr[k] = m.addr[k]
        /\ n \notin Members(m) => r.addr[n] = a
        /\ r.addr = [k \in Members(r) |-> r.addr[k]]
    BY <1>2, <1>3 DEF new
  <1>6. n \in Members(m) => r = m
    <2> SUFFICES ASSUME n \in Members(m) PROVE r = m
      OBVIOUS
    <2>1. m.addr = [k \in Members(m) |-> m.addr[k]]
      BY DEF IsMembership
    <2>2. new = m.addr
      BY <2>1 DEF new
    <2> QED BY <1>1, <1>2, <2>2
  <1> HIDE DEF r
  <1>7. IsMembership(r)
    BY <1>2, <1>3, <1>4, <1>5 DEF IsMembership
  <1> QED BY <1>3, <1>4, <1>5, <1>6, <1>7 DEF r

LEMMA RemoveMemberIs ==
  ASSUME NEW m, IsMembership(m), NEW n, n \notin Voters(m)
  PROVE  LET r == RemoveMember(m, n)
         IN  /\ IsMembership(r)
             /\ Members(r) = Members(m) \ {n}
             /\ Voters(r) = Voters(m) /\ LastConfig(r) = LastConfig(m)
             /\ \A k \in Members(r) : r.addr[k] = m.addr[k]
  <1> DEFINE new == [k \in Members(m) \ {n} |-> m.addr[k]]
             r == RemoveMember(m, n)
  <1>1. m = [configs |-> m.configs, addr |-> m.addr]
    BY DEF IsMembership
  <1> HIDE DEF new
  <1>2. r.configs = m.configs /\ r.addr = new /\ r = [configs |-> r.configs, addr |-> r.addr]
    BY <1>1 DEF RemoveMember, new
  <1>3. Members(r) = Members(m) \ {n}
    BY <1>2 DEF Members, new
  <1>4. Voters(r) = Voters(m) /\ LastConfig(r) = LastConfig(m)
    BY <1>2 DEF Voters, LastConfig
  <1>5. /\ \A k \in Members(r) : r.addr[k] = m.addr[k]
        /\ r.addr = [k \in Members(r) |-> r.addr[k]]
    BY <1>2, <1>3 DEF new
  <1> HIDE DEF r
  <1>6. IsMembership(r)
    BY <1>2, <1>3, <1>4, <1>5 DEF IsMembership
  <1> QED BY <1>3, <1>4, <1>5, <1>6 DEF r

LEMMA ReplaceVotersIs ==
  ASSUME NEW m, IsMembership(m), NEW goal, goal \subseteq Members(m)
  PROVE  LET r == ReplaceVoters(m, goal)
         IN  /\ IsMembership(r)
             /\ LastConfig(r) = goal
             /\ Voters(r) \in {goal, LastConfig(m) \cup goal}
             /\ Members(r) = Members(m) \ (Voters(m) \ Voters(r))
             /\ \A k \in Members(r) : r.addr[k] = m.addr[k]
  <1> DEFINE r == ReplaceVoters(m, goal)
             configs == IF \E i \in DOMAIN m.configs : m.configs[i] = goal
                        THEN <<goal>> ELSE <<LastConfig(m), goal>>
             dropped == Voters(m) \ UNION {configs[i] : i \in DOMAIN configs}
             new == [k \in Members(m) \ dropped |-> m.addr[k]]
  <1>1. r = [configs |-> configs, addr |-> new]
    BY DEF ReplaceVoters
  <1>2. LastConfig(m) \subseteq Voters(m) /\ Members(m) \subseteq Nodes /\ Voters(m) \subseteq Members(m)
    BY LastConfigVotes DEF IsMembership
  <1>3. /\ configs \in Seq(SUBSET Nodes) /\ Len(configs) \in 1..2
        /\ configs[Len(configs)] = goal
        /\ UNION {configs[i] : i \in DOMAIN configs} \in {goal, LastConfig(m) \cup goal}
    <2>0. configs = <<goal>> \/ configs = <<LastConfig(m), goal>>
      OBVIOUS
    <2> HIDE DEF configs
    <2>1. CASE configs = <<goal>>
      BY <1>2, <2>1, VotersOfOne
    <2>2. CASE configs = <<LastConfig(m), goal>>
      <3>1. UNION {configs[i] : i \in DOMAIN configs} = LastConfig(m) \cup goal
        BY <2>2, VotersOfTwo
      <3> QED BY <1>2, <2>2, <3>1
    <2> QED BY <2>0, <2>1, <2>2
  <1> HIDE DEF configs
  <1>4. Voters(r) = UNION {configs[i] : i \in DOMAIN configs} /\ LastConfig(r) = goal
    BY <1>1, <1>3 DEF Voters, LastConfig
  <1>5. Members(r) = Members(m) \ (Voters(m) \ Voters(r))
    BY <1>1, <1>4 DEF Members
  <1>6. /\ \A k \in Members(r) : r.addr[k] = m.addr[k]
        /\ r.addr = [k \in Members(r) |-> r.addr[k]]
    BY <1>1, <1>4, <1>5
  <1>7. r = [configs |-> r.configs, addr |-> r.addr] /\ r.configs = configs
    BY <1>1
  <1> HIDE DEF r
  <1>8. IsMembership(r)
    BY <1>2, <1>3, <1>4, <1>5, <1>6, <1>7 DEF IsMembership
  <1> QED BY <1>3, <1>4, <1>5, <1>6, <1>8 DEF r

(***************************************************************************)
(* What applying an entry may do to the control state.                     *)
(***************************************************************************)
Adds(d) ==
    /\ d \in Candidates /\ AddAccepted(d)
    /\ used_node_ids' = used_node_ids \cup {d.node_id}
    /\ nodes' = [n \in Admitted \cup {d.node_id} |-> IF n = d.node_id THEN d ELSE nodes[n]]
    /\ transition' = [kind |-> "ADD", node_id |-> d.node_id, started |-> applied',
                      weight |-> d.weight]
    /\ placement' = placement

Starts(kind, n, w) ==
    /\ transition = None /\ Active(n)
    /\ \/ kind = "REMOVE" /\ w = None /\ Cardinality(ActiveNodes) # 1
       \/ kind = "REWEIGHT" /\ w \in Weights /\ nodes[n].weight # w
    /\ transition' = [kind |-> kind, node_id |-> n, started |-> applied', weight |-> w]
    /\ UNCHANGED <<nodes, used_node_ids, placement>>

\* The transition of this kind advances.
Ready(kind) == transition # None /\ transition.kind = kind /\ MembershipReady

Activates(n) ==
    /\ Ready("ADD") /\ n = transition.node_id /\ nodes[n].state = "JOINING"
    /\ nodes' = [nodes EXCEPT ![n].state = "ACTIVE", ![n].join_capability = None]
    /\ placement' = applied'
    /\ UNCHANGED <<used_node_ids, transition>>

Closes ==
    /\ Ready("ADD") /\ nodes[transition.node_id].state # "JOINING"
    /\ transition' = None
    /\ UNCHANGED <<nodes, used_node_ids, placement>>

Removes == Ready("REMOVE") /\ CompleteRemove

Reweights == Ready("REWEIGHT") /\ CompleteReweight

\* A node's keys or capability change, and nothing else of it.
Rekeys(n, d) ==
    /\ n \in Admitted /\ d \in Descriptors /\ ValidDescriptor(n, d)
    /\ nodes' = [nodes EXCEPT ![n] = d]
    /\ d.state = nodes[n].state /\ d.weight = nodes[n].weight
    /\ d.peer_address = nodes[n].peer_address
    /\ \A p \in PinsOf(d) : p \in PinsOf(nodes[n]) \/ ensure_pin_unique(n, p)
    /\ UNCHANGED <<used_node_ids, transition, placement>>

ControlStep ==
    \/ UNCHANGED control
    \/ \E d \in Candidates : Adds(d)
    \/ \E kind, n, w : Starts(kind, n, w)
    \/ \E n : Activates(n)
    \/ Closes
    \/ Removes
    \/ Reweights
    \/ \E n, d : Rekeys(n, d)

LEMMA TransitionIs ==
  ASSUME ControlTyped, transition # None
  PROVE  /\ transition.kind \in {"ADD", "REMOVE", "REWEIGHT"}
         /\ transition.node_id \in Nodes /\ transition.started \in 1..applied
         /\ transition.kind = "REWEIGHT" => transition.weight \in Weights
         /\ Kind = transition.kind
  BY DEF ControlTyped, IsTransition, Kind

LEMMA NoneIsNoPin == None \notin AllPins /\ None \notin AllCapabilities
  BY MembershipConstants

LEMMA PinsTyped == Pins \subseteq AllPins /\ Capabilities \subseteq AllCapabilities
  BY DEF AllPins, AllCapabilities

LEMMA RefreshSteps ==
  ASSUME ControlInv, RefreshJoiningNodePreparation
  PROVE  ControlStep
  <1> DEFINE e == log[1]
             n == e.node_id
             d == [nodes[n] EXCEPT !.current_pin = e.pin, !.join_capability = e.new_capability]
  <1>1. /\ Head(log) = e /\ IsEntry(e) /\ e.op = "refresh"
    BY LogApplied DEF RefreshJoiningNodePreparation, ControlInv
  <1>2. CASE RefreshAccepted(e)
    <2>1. nodes' = [nodes EXCEPT ![n].current_pin = e.pin, ![n].join_capability = e.new_capability]
      BY <1>1, <1>2 DEF RefreshJoiningNodePreparation
    <2>2. UNCHANGED <<used_node_ids, transition, placement>>
      BY DEF RefreshJoiningNodePreparation
    <2>3. /\ n \in Admitted /\ nodes[n] \in Descriptors /\ ValidDescriptor(n, nodes[n])
          /\ nodes = [k \in Admitted |-> nodes[k]]
      BY <1>2 DEF RefreshAccepted, ControlInv, Typed, ControlTyped, TransitionOK
    <2>4. nodes' = [nodes EXCEPT ![n] = d]
      BY <2>1, <2>3
    <2>5. e.pin \in AllPins /\ e.new_capability \in AllCapabilities
      BY <1>1, PinsTyped DEF IsEntry
    <2>6. /\ d \in Descriptors /\ d.current_pin = e.pin /\ d.join_capability = e.new_capability
          /\ d.overlap_pin = nodes[n].overlap_pin /\ d.state = nodes[n].state
          /\ d.weight = nodes[n].weight /\ d.node_id = nodes[n].node_id
          /\ d.peer_address = nodes[n].peer_address
      BY <2>3, <2>5 DEF Descriptors
    <2>7. nodes[n].state = "JOINING" /\ nodes[n].overlap_pin = None /\ ensure_pin_unique(n, e.pin)
      BY <1>2, <2>3 DEF RefreshAccepted, ValidDescriptor
    <2> HIDE DEF d, n
    <2>8. ValidDescriptor(n, d)
      BY <2>3, <2>5, <2>6, <2>7, NoneIsNoPin DEF ValidDescriptor
    <2>9. \A p \in PinsOf(d) : p \in PinsOf(nodes[n]) \/ ensure_pin_unique(n, p)
      BY <2>6, <2>7 DEF PinsOf
    <2>10. Rekeys(n, d)
      BY <2>2, <2>3, <2>4, <2>6, <2>8, <2>9 DEF Rekeys
    <2> QED BY <2>10 DEF ControlStep
  <1>3. CASE ~RefreshAccepted(e)
    BY <1>1, <1>3 DEF RefreshJoiningNodePreparation, ControlStep, control
  <1> QED BY <1>2, <1>3

(* Each of the three steps of a rotation, given what it makes of the       *)
(* descriptor.                                                             *)
LEMMA RotationSteps ==
  ASSUME ControlInv, NEW e, MayRotate(e), NEW d \in Descriptors,
         nodes' = [nodes EXCEPT ![e.node_id] = d],
         UNCHANGED <<used_node_ids, transition, placement>>,
         d.state = nodes[e.node_id].state, d.weight = nodes[e.node_id].weight,
         d.node_id = nodes[e.node_id].node_id,
         d.peer_address = nodes[e.node_id].peer_address,
         d.join_capability = nodes[e.node_id].join_capability,
         d.current_pin # d.overlap_pin,
         \A p \in PinsOf(d) : p \in PinsOf(nodes[e.node_id]) \/ ensure_pin_unique(e.node_id, p)
  PROVE  ControlStep
  <1> DEFINE n == e.node_id
  <1>1. /\ n \in Admitted /\ nodes[n].state = "ACTIVE" /\ ValidDescriptor(n, nodes[n])
    BY DEF MayRotate, Active, ControlInv, Typed, ControlTyped
  <1>2. ValidDescriptor(n, d)
    BY <1>1 DEF ValidDescriptor
  <1>3. Rekeys(n, d)
    BY <1>1, <1>2 DEF Rekeys
  <1> QED BY <1>3 DEF ControlStep

LEMMA Rotating ==
  ASSUME ControlInv, NEW e, MayRotate(e)
  PROVE  /\ e.node_id \in Admitted /\ nodes[e.node_id] \in Descriptors
         /\ nodes[e.node_id].current_pin = e.current /\ e.current \in AllPins
         /\ nodes[e.node_id].overlap_pin # e.current
         /\ nodes = [k \in Admitted |-> nodes[k]]
  <1>1. /\ e.node_id \in Admitted /\ nodes[e.node_id] \in Descriptors
        /\ nodes[e.node_id].current_pin = e.current
        /\ nodes = [k \in Admitted |-> nodes[k]]
        /\ ValidDescriptor(e.node_id, nodes[e.node_id])
    BY DEF MayRotate, Active, ControlInv, Typed, ControlTyped
  <1> QED BY <1>1 DEF Descriptors, ValidDescriptor

LEMMA StageSteps ==
  ASSUME ControlInv, StagePeerSpkiOverlap
  PROVE  ControlStep
  <1> DEFINE e == log[1]
             n == e.node_id
             d == [nodes[n] EXCEPT !.overlap_pin = e.overlap]
  <1>1. /\ Head(log) = e /\ IsEntry(e) /\ e.op = "stage"
    BY LogApplied DEF StagePeerSpkiOverlap, ControlInv
  <1>2. CASE StageAccepted(e)
    <2>1. nodes' = [nodes EXCEPT ![n].overlap_pin = e.overlap]
      BY <1>1, <1>2 DEF StagePeerSpkiOverlap
    <2>2. UNCHANGED <<used_node_ids, transition, placement>>
      BY DEF StagePeerSpkiOverlap
    <2>3. /\ MayRotate(e) /\ e.current # e.overlap /\ ensure_pin_unique(n, e.overlap)
          /\ nodes[n].overlap_pin = None
      BY <1>2 DEF StageAccepted
    <2>4. /\ n \in Admitted /\ nodes[n] \in Descriptors /\ nodes[n].current_pin = e.current
          /\ nodes = [k \in Admitted |-> nodes[k]]
      BY <2>3, Rotating
    <2>5. nodes' = [nodes EXCEPT ![n] = d]
      BY <2>1, <2>4
    <2>6. e.overlap \in AllPins
      BY <1>1, PinsTyped DEF IsEntry
    <2>7. /\ d \in Descriptors /\ d.overlap_pin = e.overlap /\ d.current_pin = nodes[n].current_pin
          /\ d.state = nodes[n].state /\ d.weight = nodes[n].weight
          /\ d.node_id = nodes[n].node_id /\ d.peer_address = nodes[n].peer_address
          /\ d.join_capability = nodes[n].join_capability
      BY <2>4, <2>6 DEF Descriptors
    <2> HIDE DEF d
    <2>8. \A p \in PinsOf(d) : p \in PinsOf(nodes[n]) \/ ensure_pin_unique(n, p)
      BY <2>3, <2>7 DEF PinsOf
    <2> QED BY <2>2, <2>3, <2>4, <2>5, <2>7, <2>8, RotationSteps
  <1>3. CASE ~StageAccepted(e)
    BY <1>1, <1>3 DEF StagePeerSpkiOverlap, ControlStep, control
  <1> QED BY <1>2, <1>3

LEMMA PromoteSteps ==
  ASSUME ControlInv, PromotePeerSpkiOverlap
  PROVE  ControlStep
  <1> DEFINE e == log[1]
             n == e.node_id
             d == [nodes[n] EXCEPT !.current_pin = e.overlap, !.overlap_pin = e.current]
  <1>1. /\ Head(log) = e /\ IsEntry(e) /\ e.op = "promote"
    BY LogApplied DEF PromotePeerSpkiOverlap, ControlInv
  <1>2. CASE OverlapMatches(e)
    <2>1. nodes' = [nodes EXCEPT ![n].current_pin = e.overlap, ![n].overlap_pin = e.current]
      BY <1>1, <1>2 DEF PromotePeerSpkiOverlap
    <2>2. UNCHANGED <<used_node_ids, transition, placement>>
      BY DEF PromotePeerSpkiOverlap
    <2>3. MayRotate(e) /\ nodes[n].overlap_pin = e.overlap
      BY <1>2 DEF OverlapMatches
    <2>4. /\ n \in Admitted /\ nodes[n] \in Descriptors /\ nodes[n].current_pin = e.current
          /\ nodes = [k \in Admitted |-> nodes[k]] /\ e.current \in AllPins
          /\ e.overlap # e.current
      BY <2>3, Rotating
    <2>5. nodes' = [nodes EXCEPT ![n] = d]
      BY <2>1, <2>4
    <2>6. e.overlap \in AllPins
      BY <1>1 DEF IsEntry
    <2>7. /\ d \in Descriptors /\ d.overlap_pin = e.current /\ d.current_pin = e.overlap
          /\ d.state = nodes[n].state /\ d.weight = nodes[n].weight
          /\ d.node_id = nodes[n].node_id /\ d.peer_address = nodes[n].peer_address
          /\ d.join_capability = nodes[n].join_capability
      BY <2>4, <2>6 DEF Descriptors
    <2> HIDE DEF d
    <2>8. \A p \in PinsOf(d) : p \in PinsOf(nodes[n]) \/ ensure_pin_unique(n, p)
      BY <2>3, <2>4, <2>6, <2>7, NoneIsNoPin DEF PinsOf
    <2> QED BY <2>2, <2>3, <2>4, <2>5, <2>7, <2>8, RotationSteps
  <1>3. CASE ~OverlapMatches(e)
    BY <1>1, <1>3 DEF PromotePeerSpkiOverlap, ControlStep, control
  <1> QED BY <1>2, <1>3

LEMMA ClearSteps ==
  ASSUME ControlInv, ClearPeerSpkiOverlap
  PROVE  ControlStep
  <1> DEFINE e == log[1]
             n == e.node_id
             d == [nodes[n] EXCEPT !.overlap_pin = None]
  <1>1. /\ Head(log) = e /\ IsEntry(e) /\ e.op = "clear"
    BY LogApplied DEF ClearPeerSpkiOverlap, ControlInv
  <1>2. CASE OverlapMatches(e)
    <2>1. nodes' = [nodes EXCEPT ![n].overlap_pin = None]
      BY <1>1, <1>2 DEF ClearPeerSpkiOverlap
    <2>2. UNCHANGED <<used_node_ids, transition, placement>>
      BY DEF ClearPeerSpkiOverlap
    <2>3. MayRotate(e)
      BY <1>2 DEF OverlapMatches
    <2>4. /\ n \in Admitted /\ nodes[n] \in Descriptors /\ nodes[n].current_pin = e.current
          /\ nodes = [k \in Admitted |-> nodes[k]] /\ e.current \in AllPins
      BY <2>3, Rotating
    <2>5. nodes' = [nodes EXCEPT ![n] = d]
      BY <2>1, <2>4
    <2>7. /\ d \in Descriptors /\ d.overlap_pin = None /\ d.current_pin = e.current
          /\ d.state = nodes[n].state /\ d.weight = nodes[n].weight
          /\ d.node_id = nodes[n].node_id /\ d.peer_address = nodes[n].peer_address
          /\ d.join_capability = nodes[n].join_capability
      BY <2>4 DEF Descriptors
    <2> HIDE DEF d
    <2>8. \A p \in PinsOf(d) : p \in PinsOf(nodes[n]) \/ ensure_pin_unique(n, p)
      BY <2>4, <2>7 DEF PinsOf
    <2> QED BY <2>2, <2>3, <2>4, <2>5, <2>7, <2>8, NoneIsNoPin, RotationSteps
  <1>3. CASE ~OverlapMatches(e)
    BY <1>1, <1>3 DEF ClearPeerSpkiOverlap, ControlStep, control
  <1> QED BY <1>2, <1>3

LEMMA BeginSteps ==
  ASSUME ControlInv, BeginAddNode \/ BeginRemoveNode \/ BeginReweightNode
  PROVE  ControlStep
  <1>1. CASE BeginAddNode
    <2>1. Head(log) = log[1] /\ log[1].descriptor \in Candidates
      BY <1>1, LogApplied DEF BeginAddNode, ControlInv, IsEntry
    <2> DEFINE d == log[1].descriptor
    <2>2. CASE AddAccepted(d)
      <3>1. Adds(d)
        BY <1>1, <2>1, <2>2 DEF BeginAddNode, Adds
      <3> QED BY <2>1, <3>1 DEF ControlStep
    <2>3. CASE ~AddAccepted(d)
      BY <1>1, <2>1, <2>3 DEF BeginAddNode, ControlStep
    <2> QED BY <2>2, <2>3
  <1>2. CASE BeginRemoveNode
    <2>1. CASE RemoveAccepted(Head(log).node_id)
      <3>1. Starts("REMOVE", Head(log).node_id, None)
        BY <1>2, <2>1 DEF BeginRemoveNode, RemoveAccepted, Starts
      <3> QED BY <3>1 DEF ControlStep
    <2>2. CASE ~RemoveAccepted(Head(log).node_id)
      BY <1>2, <2>2 DEF BeginRemoveNode, ControlStep
    <2> QED BY <2>1, <2>2
  <1>3. CASE BeginReweightNode
    <2> DEFINE e == Head(log)
    <2>1. e.weight \in Weights
      BY <1>3, LogApplied DEF BeginReweightNode, ControlInv, IsEntry
    <2>2. CASE transition = None /\ Active(e.node_id) /\ nodes[e.node_id].weight # e.weight
      <3>1. Starts("REWEIGHT", e.node_id, e.weight)
        BY <1>3, <2>1, <2>2 DEF BeginReweightNode, Starts
      <3> QED BY <3>1 DEF ControlStep
    <2>3. CASE ~(transition = None /\ Active(e.node_id) /\ nodes[e.node_id].weight # e.weight)
      BY <1>3, <2>3 DEF BeginReweightNode, ControlStep
    <2> QED BY <2>2, <2>3
  <1> QED BY <1>1, <1>2, <1>3

LEMMA CompleteSteps ==
  ASSUME ControlInv, CompleteMembershipTransition
  PROVE  ControlStep
  <1>1. CASE UNCHANGED control
    BY <1>1 DEF ControlStep
  <1>2. CASE transition.kind = "ADD" /\ CompleteAdd /\ transition # None /\ MembershipReady
    <2>1. CASE UNCHANGED control
      BY <2>1 DEF ControlStep
    <2>2. CASE nodes[transition.node_id].state = "JOINING" /\ ~(UNCHANGED control)
      <3>1. Activates(transition.node_id)
        BY <1>2, <2>2 DEF CompleteAdd, Activates, Ready
      <3> QED BY <3>1 DEF ControlStep
    <2>3. CASE nodes[transition.node_id].state # "JOINING"
      BY <1>2, <2>3 DEF CompleteAdd, Closes, Ready, ControlStep
    <2> QED BY <2>1, <2>2, <2>3
  <1>3. CASE transition.kind = "REMOVE" /\ CompleteRemove /\ transition # None /\ MembershipReady
    BY <1>3 DEF Removes, Ready, ControlStep
  <1>4. CASE transition.kind = "REWEIGHT" /\ CompleteReweight /\ transition # None /\ MembershipReady
    BY <1>4 DEF Reweights, Ready, ControlStep
  <1> QED BY <1>1, <1>2, <1>3, <1>4 DEF CompleteMembershipTransition

(* An applied entry replaces the membership or takes a control step.       *)
LEMMA ApplySteps ==
  ASSUME ControlInv, Apply
  PROVE  \E op : /\ Applying(op)
                 /\ membership' = IF op = "raft" THEN log[1].membership ELSE membership
                 /\ op = "raft" => UNCHANGED control
                 /\ ControlStep
  <1>1. CASE ApplyMembership
    <2>1. Applying("raft") /\ membership' = log[1].membership /\ UNCHANGED control
      BY <1>1, LogApplied DEF ApplyMembership, ControlInv
    <2> QED BY <2>1 DEF ControlStep
  <1>2. CASE BeginAddNode \/ BeginRemoveNode \/ BeginReweightNode
    <2>1. ControlStep
      BY <1>2, BeginSteps
    <2>2. membership' = membership /\ (Applying("add") \/ Applying("remove") \/ Applying("reweight"))
      BY <1>2 DEF BeginAddNode, BeginRemoveNode, BeginReweightNode
    <2> QED BY <2>1, <2>2
  <1>3. CASE CompleteMembershipTransition
    <2>1. ControlStep /\ membership' = membership /\ Applying("complete")
      BY <1>3, CompleteSteps DEF CompleteMembershipTransition
    <2> QED BY <2>1
  <1>4. CASE \/ RefreshJoiningNodePreparation \/ StagePeerSpkiOverlap
             \/ PromotePeerSpkiOverlap \/ ClearPeerSpkiOverlap
    <2>1. ControlStep
      BY <1>4, RefreshSteps, StageSteps, PromoteSteps, ClearSteps
    <2>2. /\ membership' = membership
          /\ \/ Applying("refresh") \/ Applying("stage") \/ Applying("promote")
             \/ Applying("clear")
      BY <1>4 DEF RefreshJoiningNodePreparation, StagePeerSpkiOverlap, PromotePeerSpkiOverlap,
                  ClearPeerSpkiOverlap
    <2> QED BY <2>1, <2>2
  <1> QED BY <1>1, <1>2, <1>3, <1>4 DEF Apply

(***************************************************************************)
(* Types and pins.                                                         *)
(***************************************************************************)
LEMMA ActiveSubset ==
  ASSUME ControlTyped
  PROVE  /\ IsFiniteSet(Admitted) /\ IsFiniteSet(ActiveNodes)
         /\ Cardinality(ActiveNodes) \in Nat
         /\ ActiveNodes \subseteq Admitted /\ ActiveNodes \subseteq Nodes
         /\ ActiveNodes = {n \in Admitted : nodes[n].state = "ACTIVE"}
  <1>1. /\ ActiveNodes \subseteq Admitted /\ Admitted \subseteq Nodes
        /\ ActiveNodes = {n \in Admitted : nodes[n].state = "ACTIVE"}
    BY DEF ActiveNodes, Active, ControlTyped
  <1>2. IsFiniteSet(Nodes)
    BY MembershipConstants
  <1>3. IsFiniteSet(Admitted) /\ IsFiniteSet(ActiveNodes)
    BY <1>1, <1>2, FS_Subset
  <1> QED BY <1>1, <1>3, FS_CardinalityType

(* A transition has other fields than None.                                *)
LEMMA TransitionNotNone ==
  ASSUME NEW k, NEW n, NEW a, NEW w
  PROVE  [kind |-> k, node_id |-> n, started |-> a, weight |-> w] # None
  BY DEF None

LEMMA ControlTypedStep ==
  ASSUME ControlInv, applied' = applied + 1, ControlStep
  PROVE  ControlTyped'
  <1>1. ControlTyped /\ TransitionOK
    BY DEF ControlInv, Typed
  <1>2. applied \in Nat /\ placement \in 0..applied /\ applied' \in Nat
    BY <1>1 DEF ControlTyped
  <1>3. IsTransition(transition)' \/ transition' # transition
    BY <1>1, <1>2 DEF ControlTyped, IsTransition
  <1>4. CASE UNCHANGED control
    BY <1>1, <1>2, <1>3, <1>4 DEF ControlTyped, control, Admitted
  <1>5. ASSUME NEW d \in Candidates, Adds(d) PROVE ControlTyped'
    <2>1. /\ d \in Descriptors /\ d.state = "JOINING" /\ d.overlap_pin = None /\ d.node_id \in Nodes
          /\ d.join_capability \in AllCapabilities /\ d.current_pin \in AllPins
      BY MembershipConstants DEF Descriptors, AllCapabilities, AllPins
    <2>2. ValidDescriptor(d.node_id, d)
      BY <2>1, NoneIsNoPin DEF ValidDescriptor
    <2>3. IsTransition(transition)'
      BY <1>2, <1>5, <2>1 DEF Adds, IsTransition
    <2>4. /\ Admitted' = Admitted \cup {d.node_id}
          /\ \A n \in Admitted' : nodes'[n] = IF n = d.node_id THEN d ELSE nodes[n]
          /\ nodes' = [n \in Admitted' |-> nodes'[n]]
      BY <1>5 DEF Adds, Admitted
    <2> QED BY <1>1, <1>2, <1>5, <2>1, <2>2, <2>3, <2>4 DEF Adds, ControlTyped
  <1>6. ASSUME NEW kind, NEW n, NEW w, Starts(kind, n, w) PROVE ControlTyped'
    <2>1. IsTransition(transition)'
      BY <1>1, <1>2, <1>6 DEF Starts, IsTransition, Active, ControlTyped
    <2> QED BY <1>1, <1>2, <1>6, <2>1 DEF Starts, ControlTyped, Admitted
  <1>7. ASSUME NEW n, Activates(n) PROVE ControlTyped'
    <2> DEFINE d == [nodes[n] EXCEPT !.state = "ACTIVE", !.join_capability = None]
    <2>1. /\ n \in Admitted /\ nodes[n] \in Descriptors /\ ValidDescriptor(n, nodes[n])
      BY <1>1, <1>7 DEF Activates, Ready, TransitionOK, ControlTyped
    <2>2. /\ Admitted' = Admitted /\ nodes' = [k \in Admitted' |-> nodes'[k]]
          /\ nodes'[n] = d /\ \A k \in Admitted \ {n} : nodes'[k] = nodes[k]
      BY <1>1, <1>7, <2>1 DEF Activates, ControlTyped, Admitted
    <2>3. /\ d \in Descriptors /\ d.state = "ACTIVE" /\ d.join_capability = None
          /\ d.node_id = nodes[n].node_id /\ d.current_pin = nodes[n].current_pin
          /\ d.overlap_pin = nodes[n].overlap_pin
      BY <2>1 DEF Descriptors
    <2> HIDE DEF d
    <2>4. ValidDescriptor(n, d)
      BY <2>1, <2>3 DEF ValidDescriptor
    <2>5. placement' = applied' /\ used_node_ids' = used_node_ids /\ transition' = transition
      BY <1>7 DEF Activates
    <2>6. IsTransition(transition)'
      BY <1>3, <2>5
    <2> QED BY <1>1, <1>2, <2>2, <2>3, <2>4, <2>5, <2>6 DEF ControlTyped
  <1>8. CASE Closes
    <2>1. IsTransition(transition)'
      BY <1>8 DEF Closes, IsTransition
    <2> QED BY <1>1, <1>2, <1>8, <2>1 DEF Closes, ControlTyped, Admitted
  <1>9. CASE Removes
    <2>1. IsTransition(transition)'
      BY <1>9 DEF Removes, CompleteRemove, IsTransition
    <2> QED BY <1>1, <1>2, <1>9, <2>1 DEF Removes, CompleteRemove, ControlTyped, Admitted
  <1>10. CASE Reweights
    <2> DEFINE n == transition.node_id
               d == [nodes[n] EXCEPT !.weight = transition.weight]
    <2>1. /\ n \in Admitted /\ nodes[n] \in Descriptors /\ ValidDescriptor(n, nodes[n])
          /\ transition.weight \in Weights
      BY <1>1, <1>10, TransitionIs DEF Reweights, Ready, TransitionOK, ControlTyped
    <2>2. /\ Admitted' = Admitted /\ nodes' = [k \in Admitted' |-> nodes'[k]]
          /\ nodes'[n] = d /\ \A k \in Admitted \ {n} : nodes'[k] = nodes[k]
      BY <1>1, <1>10, <2>1 DEF Reweights, CompleteReweight, ControlTyped, Admitted
    <2>3. /\ d \in Descriptors /\ d.state = nodes[n].state
          /\ d.join_capability = nodes[n].join_capability
          /\ d.node_id = nodes[n].node_id /\ d.current_pin = nodes[n].current_pin
          /\ d.overlap_pin = nodes[n].overlap_pin
      BY <2>1 DEF Descriptors
    <2> HIDE DEF d
    <2>4. ValidDescriptor(n, d)
      BY <2>1, <2>3 DEF ValidDescriptor
    <2>5. IsTransition(transition)'
      BY <1>10 DEF Reweights, CompleteReweight, IsTransition
    <2>6. placement' = applied' /\ used_node_ids' = used_node_ids
      BY <1>10 DEF Reweights, CompleteReweight
    <2> HIDE DEF n
    <2> QED BY <1>1, <1>2, <2>2, <2>3, <2>4, <2>5, <2>6 DEF ControlTyped
  <1>11. ASSUME NEW n, NEW d, Rekeys(n, d) PROVE ControlTyped'
    <2>1. /\ Admitted' = Admitted /\ nodes' = [k \in Admitted' |-> nodes'[k]]
          /\ nodes'[n] = d /\ \A k \in Admitted \ {n} : nodes'[k] = nodes[k]
      BY <1>1, <1>11 DEF Rekeys, ControlTyped, Admitted
    <2> QED BY <1>1, <1>2, <1>3, <1>11, <2>1 DEF Rekeys, ControlTyped
  <1> QED BY <1>4, <1>5, <1>6, <1>7, <1>8, <1>9, <1>10, <1>11 DEF ControlStep

(* The nodes a control step leaves ACTIVE.                                 *)
LEMMA TransitionOKStep ==
  ASSUME ControlInv, ControlTyped', applied' = applied + 1, ControlStep
  PROVE  TransitionOK'
  <1>1. ControlTyped /\ TransitionOK
    BY DEF ControlInv, Typed
  <1>2. \A n \in Admitted : nodes[n].state \in {"JOINING", "ACTIVE"}
    BY <1>1 DEF ControlTyped, ValidDescriptor
  <1>4. CASE UNCHANGED control
    BY <1>1, <1>4 DEF control, TransitionOK, Admitted, Transitioning, Kind, ActiveNodes, Active
  <1>5. ASSUME NEW d \in Candidates, Adds(d) PROVE TransitionOK'
    <2>1. /\ Admitted' = Admitted \cup {d.node_id}
          /\ \A n \in Admitted' : nodes'[n] = IF n = d.node_id THEN d ELSE nodes[n]
          /\ used_node_ids' = used_node_ids \cup {d.node_id} /\ transition = None
      BY <1>5 DEF Adds, Admitted, AddAccepted
    <2>2. transition' # None /\ transition'.kind = "ADD" /\ transition'.node_id = d.node_id
      BY <1>5, TransitionNotNone DEF Adds
    <2>3. Kind' = "ADD" /\ Kind = "NONE"
      BY <2>1, <2>2 DEF Kind
    <2> QED BY <1>1, <2>1, <2>2, <2>3 DEF TransitionOK, Transitioning
  <1>6. ASSUME NEW kind, NEW n, NEW w, Starts(kind, n, w) PROVE TransitionOK'
    <2>1. /\ nodes' = nodes /\ used_node_ids' = used_node_ids /\ transition = None
          /\ n \in Admitted /\ nodes[n].state = "ACTIVE"
          /\ \/ kind = "REMOVE" /\ Cardinality(ActiveNodes) # 1
             \/ kind = "REWEIGHT" /\ nodes[n].weight # w
      BY <1>6 DEF Starts, Active
    <2>2. /\ transition' # None /\ transition'.kind = kind /\ transition'.node_id = n
          /\ transition'.weight = w
      BY <1>6, TransitionNotNone DEF Starts
    <2>3. Kind' = kind /\ Kind = "NONE"
      BY <2>1, <2>2 DEF Kind
    <2>4. \A k \in Admitted : nodes[k].state = "ACTIVE"
      BY <1>1, <1>2, <2>1 DEF TransitionOK, Transitioning
    <2>5. kind = "REMOVE" => ActiveNodes \ {n} # {}
      <3> SUFFICES ASSUME kind = "REMOVE", ActiveNodes \ {n} = {} PROVE FALSE
        OBVIOUS
      <3>1. ActiveNodes = {n} /\ Cardinality(ActiveNodes) # 1
        BY <1>1, <2>1, ActiveSubset
      <3> QED BY <3>1, FS_Singleton
    <2>6. ActiveNodes' = ActiveNodes /\ Admitted' = Admitted
      BY <2>1 DEF ActiveNodes, Active, Admitted
    <2> QED BY <1>1, <2>1, <2>2, <2>3, <2>4, <2>5, <2>6 DEF TransitionOK, Transitioning
  <1>7. ASSUME NEW n, Activates(n) PROVE TransitionOK'
    <2>1. n \in Admitted /\ n = transition.node_id /\ Kind = "ADD" /\ transition # None
      BY <1>1, <1>7 DEF Activates, Ready, TransitionOK, Kind
    <2>2. /\ Admitted' = Admitted /\ \A k \in Admitted \ {n} : nodes'[k] = nodes[k]
          /\ transition' = transition /\ used_node_ids' = used_node_ids
      BY <1>1, <1>7, <2>1 DEF Activates, ControlTyped, Admitted
    <2>3. nodes'[n].state = "ACTIVE"
      BY <1>1, <1>7, <2>1 DEF Activates, ControlTyped, Descriptors
    <2>4. Kind' = "ADD"
      BY <2>1, <2>2 DEF Kind
    <2> QED BY <1>1, <2>1, <2>2, <2>3, <2>4 DEF TransitionOK, Transitioning
  <1>8. CASE Closes
    <2>1. /\ nodes' = nodes /\ used_node_ids' = used_node_ids /\ transition' = None
          /\ nodes[transition.node_id].state # "JOINING"
      BY <1>8 DEF Closes
    <2>2. Kind' = "NONE" /\ Admitted' = Admitted
      BY <2>1 DEF Kind, Admitted
    <2> QED BY <1>1, <2>1, <2>2 DEF TransitionOK, Transitioning
  <1>9. CASE Removes
    <2>1. /\ Admitted' = Admitted \ {transition.node_id}
          /\ \A k \in Admitted' : nodes'[k] = nodes[k]
          /\ transition' = None /\ used_node_ids' = used_node_ids
          /\ transition.kind = "REMOVE" /\ transition # None
      BY <1>9 DEF Removes, Ready, CompleteRemove, Admitted
    <2>2. Kind' = "NONE" /\ Kind = "REMOVE"
      BY <2>1 DEF Kind
    <2> QED BY <1>1, <2>1, <2>2 DEF TransitionOK, Transitioning
  <1>10. CASE Reweights
    <2>1. /\ Admitted' = Admitted /\ transition' = None /\ used_node_ids' = used_node_ids
          /\ Kind = "REWEIGHT"
      BY <1>1, <1>10 DEF Reweights, Ready, CompleteReweight, Admitted, Kind
    <2>2. \A k \in Admitted : nodes[k].state = "ACTIVE"
      BY <1>1, <1>2, <2>1 DEF TransitionOK
    <2>3. \A k \in Admitted : nodes'[k].state = nodes[k].state
      BY <1>1, <1>10 DEF Reweights, CompleteReweight, ControlTyped, Descriptors
    <2>4. Kind' = "NONE"
      BY <2>1 DEF Kind
    <2> QED BY <1>1, <2>1, <2>2, <2>3, <2>4 DEF TransitionOK, Transitioning
  <1>11. ASSUME NEW n, NEW d, Rekeys(n, d) PROVE TransitionOK'
    <2>1. /\ Admitted' = Admitted /\ transition' = transition /\ used_node_ids' = used_node_ids
          /\ \A k \in Admitted : /\ nodes'[k].state = nodes[k].state
                                 /\ nodes'[k].weight = nodes[k].weight
      BY <1>1, <1>11 DEF Rekeys, ControlTyped, Admitted
    <2>2. Kind' = Kind /\ ActiveNodes' = ActiveNodes
      BY <2>1 DEF Kind, ActiveNodes, Active
    <2>3. Kind = "REWEIGHT" => transition.node_id \in Admitted
      BY <1>1 DEF TransitionOK, Kind
    <2> QED BY <1>1, <2>1, <2>2, <2>3 DEF TransitionOK, Transitioning
  <1> QED BY <1>4, <1>5, <1>6, <1>7, <1>8, <1>9, <1>10, <1>11 DEF ControlStep

LEMMA PinsStep ==
  ASSUME ControlInv, ControlStep
  PROVE  PinNamesOneNode'
  <1>1. ControlTyped /\ TransitionOK /\ PinNamesOneNode
    BY DEF ControlInv, Typed
  <1>2. CASE UNCHANGED nodes
    BY <1>1, <1>2 DEF PinNamesOneNode, Admitted, PinsOf
  <1>3. ASSUME NEW d \in Candidates, Adds(d) PROVE PinNamesOneNode'
    <2>1. /\ Admitted' = Admitted \cup {d.node_id}
          /\ \A n \in Admitted' : nodes'[n] = IF n = d.node_id THEN d ELSE nodes[n]
          /\ \A k \in Admitted : d.current_pin \notin PinsOf(nodes[k])
      BY <1>3 DEF Adds, Admitted, AddAccepted, ensure_descriptor_unique
    <2>2. PinsOf(d) = {d.current_pin}
      BY MembershipConstants DEF PinsOf
    <2> QED BY <1>1, <2>1, <2>2 DEF PinNamesOneNode
  <1>4. CASE Removes
    BY <1>1, <1>4 DEF Removes, CompleteRemove, PinNamesOneNode, Admitted
  <1>5. ASSUME Admitted' = Admitted, \A k \in Admitted : PinsOf(nodes'[k]) = PinsOf(nodes[k])
        PROVE  PinNamesOneNode'
    BY <1>1, <1>5 DEF PinNamesOneNode
  <1>6. ASSUME NEW n, Activates(n) PROVE PinNamesOneNode'
    <2>1. Admitted' = Admitted /\ \A k \in Admitted : PinsOf(nodes'[k]) = PinsOf(nodes[k])
      BY <1>1, <1>6 DEF Activates, ControlTyped, Admitted, Descriptors, PinsOf
    <2> QED BY <1>5, <2>1
  <1>7. CASE Reweights
    <2>1. Admitted' = Admitted /\ \A k \in Admitted : PinsOf(nodes'[k]) = PinsOf(nodes[k])
      BY <1>1, <1>7 DEF Reweights, CompleteReweight, ControlTyped, Admitted, Descriptors, PinsOf
    <2> QED BY <1>5, <2>1
  <1>8. ASSUME NEW n, NEW d, Rekeys(n, d) PROVE PinNamesOneNode'
    <2>1. /\ n \in Admitted /\ Admitted' = Admitted /\ nodes'[n] = d
          /\ \A k \in Admitted \ {n} : nodes'[k] = nodes[k]
          /\ \A p \in PinsOf(d) : p \in PinsOf(nodes[n]) \/ ensure_pin_unique(n, p)
      BY <1>1, <1>8 DEF Rekeys, ControlTyped, Admitted
    <2>2. \A k \in Admitted \ {n} : PinsOf(d) \cap PinsOf(nodes[k]) = {}
      BY <1>1, <2>1 DEF PinNamesOneNode, ensure_pin_unique
    <2> QED BY <1>1, <2>1, <2>2 DEF PinNamesOneNode
  <1> QED BY <1>2, <1>3, <1>4, <1>6, <1>7, <1>8
          DEF ControlStep, control, Starts, Closes

(* An applied step keeps the control state's invariant.                    *)
LEMMA ApplyTyped ==
  ASSUME ControlInv, Apply
  PROVE  ControlInv'
  <1>1. PICK op : /\ Applying(op)
                  /\ membership' = IF op = "raft" THEN log[1].membership ELSE membership
                  /\ ControlStep
    BY ApplySteps
  <1>2. Typed
    BY DEF ControlInv
  <1>3. /\ Len(log) \in Nat \ {0} /\ log[1].op = op
        /\ IsEntry(log[1]) /\ applied' = applied + 1
        /\ Len(log') = Len(log) - 1
        /\ log' = [i \in 1..Len(log') |-> log'[i]]
        /\ \A i \in 1..(Len(log) - 1) : log'[i] = log[i + 1]
    BY <1>1, <1>2, LogApplied
  <1>4. ControlTyped' /\ PinNamesOneNode'
    BY <1>1, <1>3, ControlTypedStep, PinsStep
  <1>5. TransitionOK'
    BY <1>1, <1>3, <1>4, TransitionOKStep
  <1>6. HasLast'
    BY <1>1, <1>2, PositionsApplied
  <1>7. IsMembership(membership')
    BY <1>1, <1>2, <1>3 DEF Typed, IsEntry
  <1>8. \A i \in 1..Len(log') : IsEntry(log'[i])
    BY <1>2, <1>3 DEF Typed
  <1>9. applied' + Len(log') <= MaxLogIndex /\ Len(log') <= MaxPending
    <2>1. /\ applied \in Nat /\ MaxLogIndex \in Nat /\ MaxPending \in Nat
          /\ applied + Len(log) <= MaxLogIndex /\ Len(log) <= MaxPending
      BY <1>2, MembershipConstants DEF Typed, ControlTyped
    <2> QED BY <1>3, <2>1
  <1>10. Typed'
    BY <1>3, <1>4, <1>6, <1>7, <1>8, <1>9 DEF Typed, IsMembership, IsEntry, Members, Voters
  <1> QED BY <1>4, <1>5, <1>10 DEF ControlInv

(* A step that appends an entry keeps it.                                  *)
LEMMA AppendTyped ==
  ASSUME ControlInv, NEW e, IsEntry(e), Append1(e)
  PROVE  ControlInv'
  <1>1. Typed /\ ControlTyped /\ TransitionOK /\ PinNamesOneNode
    BY DEF ControlInv, Typed
  <1>2. /\ Len(log) \in Nat /\ Len(log') = Len(log) + 1 /\ Len(log') <= MaxPending
        /\ applied + Len(log') <= MaxLogIndex
        /\ log' = [i \in 1..Len(log') |-> log'[i]]
        /\ log'[Len(log) + 1] = e
        /\ \A i \in 1..Len(log) : log'[i] = log[i]
        /\ UNCHANGED <<membership, nodes, used_node_ids, transition, placement, applied>>
    BY <1>1, LogAppended
  <1>3. HasLast'
    BY <1>1, PositionsAppended
  <1>4. \A i \in 1..Len(log') : IsEntry(log'[i])
    BY <1>1, <1>2 DEF Typed
  <1>5. ControlTyped'
    BY <1>1, <1>2 DEF ControlTyped, Admitted, IsTransition
  <1>6. TransitionOK'
    BY <1>1, <1>2 DEF TransitionOK, Admitted, Transitioning, Kind, ActiveNodes, Active
  <1>7. PinNamesOneNode'
    BY <1>1, <1>2 DEF PinNamesOneNode, Admitted
  <1>8. IsMembership(membership')
    BY <1>1, <1>2 DEF Typed
  <1>9. Typed'
    BY <1>2, <1>3, <1>4, <1>5, <1>8 DEF Typed, IsMembership, IsEntry, Members, Voters
  <1> QED BY <1>6, <1>7, <1>9 DEF ControlInv

(***************************************************************************)
(* What a coordinator appends.                                             *)
(***************************************************************************)
CatchesUp(m) ==
    /\ Kind = "ADD" /\ nodes[transition.node_id].state = "JOINING"
    /\ m = AddMember(Effective, transition.node_id, nodes[transition.node_id].peer_address)

Revotes(m) ==
    /\ VotersMayChange /\ Desired \subseteq Members(Effective)
    /\ m = ReplaceVoters(Effective, Desired)

Settles(m) == Joint(Effective) /\ m = ReplaceVoters(Effective, LastConfig(Effective))

Drops(m) ==
    /\ Kind = "REMOVE" /\ transition.node_id \notin Voters(Effective)
    /\ m = RemoveMember(Effective, transition.node_id)

RaftStep(m) == CatchesUp(m) \/ Revotes(m) \/ Settles(m) \/ Drops(m)

LEMMA RaftStepIs ==
  ASSUME ControlInv, NEW m, RaftStep(m)
  PROVE  IsMembership(m)
  <1>1. Typed /\ ControlTyped /\ IsMembership(Effective)
    BY MemIs DEF ControlInv, Typed
  <1>2. CASE CatchesUp(m)
    <2>1. transition.node_id \in Nodes
      BY <1>1, <1>2, TransitionIs DEF CatchesUp, Kind
    <2> QED BY <1>1, <1>2, <2>1, AddMemberIs DEF CatchesUp
  <1>3. CASE Revotes(m)
    BY <1>1, <1>3, ReplaceVotersIs DEF Revotes
  <1>4. CASE Settles(m)
    <2>1. LastConfig(Effective) \subseteq Members(Effective)
      BY <1>1, LastConfigVotes DEF IsMembership
    <2> QED BY <1>1, <1>4, <2>1, ReplaceVotersIs DEF Settles
  <1>5. CASE Drops(m)
    BY <1>1, <1>5, RemoveMemberIs DEF Drops
  <1> QED BY <1>2, <1>3, <1>4, <1>5 DEF RaftStep

LEMMA SubmitSteps ==
  ASSUME ControlInv, Submit
  PROVE  \E e : Append1(e) /\ IsEntry(e) /\ (e.op = "raft" => RaftStep(e.membership))
  <1>1. CASE SubmitBeginAdd
    <2>1. PICK d \in Candidates : Append1([op |-> "add", descriptor |-> d])
      BY <1>1 DEF SubmitBeginAdd
    <2>2. IsEntry([op |-> "add", descriptor |-> d])
      BY DEF IsEntry
    <2> QED BY <2>1, <2>2
  <1>2. CASE SubmitBeginRemove
    <2>1. PICK n \in Admitted : Append1([op |-> "remove", node_id |-> n])
      BY <1>2 DEF SubmitBeginRemove
    <2>2. IsEntry([op |-> "remove", node_id |-> n])
      BY DEF IsEntry
    <2> QED BY <2>1, <2>2
  <1>3. CASE SubmitBeginReweight
    <2>1. PICK n \in Admitted, w \in Weights :
              Append1([op |-> "reweight", node_id |-> n, weight |-> w])
      BY <1>3 DEF SubmitBeginReweight
    <2>2. IsEntry([op |-> "reweight", node_id |-> n, weight |-> w])
      BY DEF IsEntry
    <2> QED BY <2>1, <2>2
  <1>4. CASE SubmitComplete
    <2> DEFINE e == [op |-> "complete", started |-> transition.started]
    <2>1. Append1(e)
      BY <1>4 DEF SubmitComplete
    <2>2. IsEntry(e) /\ e.op = "complete"
      BY DEF IsEntry
    <2> QED BY <2>1, <2>2
  <1>5. CASE SubmitRefresh
    <2> DEFINE e(p, c) == [op |-> "refresh", node_id |-> transition.node_id,
                           started |-> transition.started,
                           current |-> nodes[transition.node_id].current_pin,
                           capability |-> nodes[transition.node_id].join_capability,
                           pin |-> p, new_capability |-> c]
    <2>1. PICK p \in Pins, c \in Capabilities : Append1(e(p, c))
      BY <1>5 DEF SubmitRefresh
    <2>2. IsEntry(e(p, c)) /\ e(p, c).op = "refresh"
      BY DEF IsEntry
    <2> QED BY <2>1, <2>2
  <1>6. CASE SubmitStage
    <2> DEFINE e(n, p) == [op |-> "stage", node_id |-> n,
                           current |-> nodes[n].current_pin, overlap |-> p]
    <2>1. PICK n \in ActiveNodes, p \in Pins : Append1(e(n, p))
      BY <1>6 DEF SubmitStage
    <2>2. IsEntry(e(n, p)) /\ e(n, p).op = "stage"
      BY DEF IsEntry
    <2> QED BY <2>1, <2>2
  <1>7. CASE SubmitPromoteOrClear
    <2> DEFINE e(n, op) == [op |-> op, node_id |-> n, current |-> nodes[n].current_pin,
                            overlap |-> nodes[n].overlap_pin]
    <2>1. PICK n \in ActiveNodes, op \in {"promote", "clear"} :
              nodes[n].overlap_pin # None /\ Append1(e(n, op))
      BY <1>7 DEF SubmitPromoteOrClear
    <2>2. nodes[n] \in Descriptors
      BY DEF ActiveNodes, ControlInv, Typed, ControlTyped
    <2>3. nodes[n].overlap_pin \in AllPins
      BY <2>1, <2>2 DEF Descriptors
    <2>4. IsEntry(e(n, op)) /\ e(n, op).op # "raft"
      BY <2>3 DEF IsEntry
    <2> QED BY <2>1, <2>4
  <1>8. ASSUME NEW m, AppendMembership(m), RaftStep(m)
        PROVE  \E e : Append1(e) /\ IsEntry(e) /\ (e.op = "raft" => RaftStep(e.membership))
    <2> DEFINE e == [op |-> "raft", membership |-> m]
    <2>1. IsEntry(e) /\ e.op = "raft" /\ e.membership = m
      BY <1>8, RaftStepIs DEF IsEntry
    <2>2. Append1(e)
      BY <1>8 DEF AppendMembership
    <2> QED BY <1>8, <2>1, <2>2
  <1>9. CASE CatchUpJoiningLearner
    <2> DEFINE m == AddMember(Effective, transition.node_id, nodes[transition.node_id].peer_address)
    <2>1. RaftStep(m) /\ AppendMembership(m)
      BY <1>9 DEF CatchUpJoiningLearner, RaftStep, CatchesUp
    <2> QED BY <1>8, <2>1
  <1>10. CASE ApplyFixedVoters
    <2> DEFINE m == ReplaceVoters(Effective, Desired)
    <2>1. RaftStep(m) /\ AppendMembership(m)
      BY <1>10 DEF ApplyFixedVoters, RaftStep, Revotes
    <2> QED BY <1>8, <2>1
  <1>11. CASE LeaveJoint
    <2> DEFINE m == ReplaceVoters(Effective, LastConfig(Effective))
    <2>1. RaftStep(m) /\ AppendMembership(m)
      BY <1>11 DEF LeaveJoint, RaftStep, Settles
    <2> QED BY <1>8, <2>1
  <1>12. CASE RemoveLearner
    <2> DEFINE m == RemoveMember(Effective, transition.node_id)
    <2>1. RaftStep(m) /\ AppendMembership(m)
      BY <1>12 DEF RemoveLearner, RaftStep, Drops
    <2> QED BY <1>8, <2>1
  <1> QED BY <1>1, <1>2, <1>3, <1>4, <1>5, <1>6, <1>7, <1>9, <1>10, <1>11, <1>12 DEF Submit

LEMMA GenesisIs ==
  /\ IsMembership(GenesisMembership) /\ Voters(GenesisMembership) = {Genesis}
  /\ Members(GenesisMembership) = {Genesis} /\ LastConfig(GenesisMembership) = {Genesis}
  /\ ~Joint(GenesisMembership)
  <1> DEFINE m == GenesisMembership
  <1>1. /\ m.configs = <<{Genesis}>> /\ m.addr = [n \in {Genesis} |-> CandidateAddress(Genesis)]
        /\ m = [configs |-> m.configs, addr |-> m.addr]
    BY DEF GenesisMembership
  <1>2. Genesis \in Nodes
    BY MembershipConstants
  <1> HIDE DEF m
  <1>3. Members(m) = {Genesis} /\ Voters(m) = {Genesis}
    BY <1>1, VotersOfOne DEF Members, Voters
  <1>4. LastConfig(m) = {Genesis} /\ ~Joint(m)
    BY <1>1 DEF LastConfig, Joint
  <1>5. m.configs \in Seq(SUBSET Nodes) /\ Len(m.configs) \in 1..2
    BY <1>1, <1>2
  <1>6. IsMembership(m)
    BY <1>1, <1>2, <1>3, <1>5 DEF IsMembership
  <1> QED BY <1>3, <1>4, <1>6 DEF m

LEMMA InitControl ==
  ASSUME Init
  PROVE  ControlInv /\ GenesisOK /\ Admitted = {} /\ ActiveNodes = {}
  <1>1. /\ membership = GenesisMembership /\ Admitted = {} /\ used_node_ids = {}
        /\ transition = None /\ placement = 0 /\ applied = 0 /\ log = <<>>
        /\ nodes = [n \in Admitted |-> nodes[n]]
    BY DEF Init, GenesisMembership, Admitted
  <1>2. Len(log) = 0 /\ log = [i \in 1..Len(log) |-> log[i]]
    BY <1>1
  <1>3. Positions = {0} /\ Mem(0) = GenesisMembership
    BY <1>1, <1>2 DEF Positions, Mem
  <1>4. HasLast
    BY <1>3 DEF HasLast
  <1>5. ControlTyped
    BY <1>1 DEF ControlTyped, IsTransition
  <1>6. Typed
    <2>1. MaxLogIndex \in Nat /\ MaxPending \in Nat
      BY MembershipConstants
    <2> QED BY <1>1, <1>2, <1>4, <1>5, <2>1, GenesisIs DEF Typed
  <1>7. ActiveNodes = {} /\ Kind = "NONE"
    BY <1>1 DEF ActiveNodes, Kind
  <1>8. TransitionOK /\ PinNamesOneNode
    BY <1>1, <1>7 DEF TransitionOK, PinNamesOneNode
  <1>9. GenesisOK
    BY <1>1, <1>3 DEF GenesisOK
  <1> QED BY <1>1, <1>6, <1>7, <1>8, <1>9 DEF ControlInv

LEMMA ControlNext ==
  ASSUME ControlInv, [Next]_vars
  PROVE  ControlInv'
  <1>1. CASE Apply
    BY <1>1, ApplyTyped
  <1>2. CASE Submit
    <2>1. PICK e : Append1(e) /\ IsEntry(e)
      BY <1>2, SubmitSteps
    <2> QED BY <2>1, AppendTyped
  <1>3. CASE UNCHANGED vars
    <2>1. UNCHANGED <<membership, nodes, used_node_ids, transition, placement, applied, log>>
      BY <1>3 DEF vars, control
    <2>2. ControlTyped'
      BY <2>1 DEF ControlInv, Typed, ControlTyped, Admitted, IsTransition
    <2>3. Typed'
      BY <2>1, <2>2 DEF ControlInv, Typed, IsMembership, IsEntry, Members, Voters, HasLast, Positions
    <2>4. TransitionOK' /\ PinNamesOneNode'
      BY <2>1 DEF ControlInv, TransitionOK, PinNamesOneNode, Admitted, Transitioning, Kind,
                  ActiveNodes, Active
    <2> QED BY <2>3, <2>4 DEF ControlInv
  <1> QED BY <1>1, <1>2, <1>3 DEF Next

LEMMA ControlTypes == ControlInv => TypeOK
  <1> SUFFICES ASSUME ControlInv PROVE TypeOK
    OBVIOUS
  <1>1. Typed /\ ControlTyped
    BY DEF ControlInv, Typed
  <1>2. /\ Len(membership.configs) \in 1..2 /\ Members(membership) \subseteq Nodes
        /\ Voters(membership) \subseteq Members(membership)
    BY <1>1 DEF Typed, IsMembership
  <1>3. applied \in 0..MaxLogIndex /\ Len(log) <= MaxPending
    <2>1. /\ applied \in Nat /\ MaxLogIndex \in Nat /\ Len(log) \in Nat
          /\ applied + Len(log) <= MaxLogIndex /\ Len(log) <= MaxPending
      BY <1>1, MembershipConstants DEF Typed, ControlTyped
    <2> QED BY <2>1
  <1>4. transition = None \/ transition.started \in 1..applied
    BY <1>1, TransitionIs
  <1> QED BY <1>1, <1>2, <1>3, <1>4 DEF TypeOK, ControlTyped

(* Every control step that changes the weighted ACTIVE set moves the       *)
(* placement index, and no other step does.                                *)
LEMMA PlacementStep ==
  ASSUME ControlInv, [Next]_vars
  PROVE  (ActiveWeights' # ActiveWeights) <=> (placement' > placement)
  <1>1. ControlTyped /\ TransitionOK
    BY DEF ControlInv, Typed
  <1>2. applied \in Nat /\ placement \in 0..applied
    BY <1>1 DEF ControlTyped
  <1>3. ASSUME Admitted' = Admitted, placement' = placement,
               \A n \in Admitted : /\ nodes'[n].state = nodes[n].state
                                   /\ nodes'[n].weight = nodes[n].weight
        PROVE  (ActiveWeights' # ActiveWeights) <=> (placement' > placement)
    <2>1. ActiveNodes' = ActiveNodes
      BY <1>3 DEF ActiveNodes, Active
    <2>2. ActiveNodes \subseteq Admitted
      BY DEF ActiveNodes
    <2>3. ActiveWeights' = ActiveWeights
      BY <1>3, <2>1, <2>2 DEF ActiveWeights
    <2> QED BY <1>2, <1>3, <2>3
  <1>4. CASE nodes' = nodes /\ placement' = placement
    BY <1>3, <1>4 DEF Admitted
  <1>5. CASE UNCHANGED vars
    BY <1>4, <1>5 DEF vars, control
  <1>6. CASE Submit
    <2>1. PICK e : Append1(e)
      BY <1>6, SubmitSteps
    <2> QED BY <1>4, <2>1 DEF Append1, control
  <1>7. CASE Apply
    <2>1. ControlStep /\ applied' = applied + 1
      BY <1>7, ApplySteps DEF Applying
    <2>2. applied' > placement
      BY <1>2, <2>1
    <2>3. CASE UNCHANGED control
      BY <1>4, <2>3 DEF control
    <2>4. ASSUME NEW d \in Candidates, Adds(d)
          PROVE  (ActiveWeights' # ActiveWeights) <=> (placement' > placement)
      <3>1. /\ Admitted' = Admitted \cup {d.node_id} /\ d.node_id \notin Admitted
            /\ \A n \in Admitted' : nodes'[n] = IF n = d.node_id THEN d ELSE nodes[n]
            /\ placement' = placement
        BY <1>1, <2>4 DEF Adds, Admitted, AddAccepted, TransitionOK
      <3>2. d.state = "JOINING"
        BY MembershipConstants
      <3>3. ActiveNodes' = ActiveNodes /\ ActiveNodes \subseteq Admitted
        BY <3>1, <3>2 DEF ActiveNodes, Active
      <3>4. ActiveWeights' = ActiveWeights
        BY <3>1, <3>3 DEF ActiveWeights
      <3> QED BY <1>2, <3>1, <3>4
    <2>5. ASSUME NEW kind, NEW n, NEW w, Starts(kind, n, w)
          PROVE  (ActiveWeights' # ActiveWeights) <=> (placement' > placement)
      BY <1>4, <2>5 DEF Starts
    <2>6. ASSUME NEW n, Activates(n)
          PROVE  (ActiveWeights' # ActiveWeights) <=> (placement' > placement)
      <3>1. n \in Admitted /\ nodes[n].state = "JOINING" /\ placement' = applied'
        BY <1>1, <2>6 DEF Activates, Ready, TransitionOK
      <3>2. n \in Admitted' /\ nodes'[n].state = "ACTIVE"
        BY <1>1, <2>6, <3>1 DEF Activates, ControlTyped, Admitted, Descriptors
      <3>3. n \notin ActiveNodes /\ n \in ActiveNodes'
        BY <3>1, <3>2 DEF ActiveNodes, Active
      <3>4. DOMAIN ActiveWeights = ActiveNodes /\ DOMAIN ActiveWeights' = ActiveNodes'
        BY DEF ActiveWeights
      <3> QED BY <2>2, <3>1, <3>3, <3>4
    <2>7. CASE Closes
      BY <1>4, <2>7 DEF Closes
    <2>8. CASE Removes
      <3> DEFINE n == transition.node_id
      <3>1. n \in Admitted /\ n \notin Admitted' /\ placement' = applied' /\ Kind = "REMOVE"
        BY <1>1, <2>8 DEF Removes, CompleteRemove, Ready, TransitionOK, Admitted, Kind
      <3>2. nodes[n].state = "ACTIVE"
        BY <1>1, <3>1 DEF TransitionOK, ControlTyped, ValidDescriptor
      <3>3. n \in ActiveNodes /\ n \notin ActiveNodes'
        BY <3>1, <3>2 DEF ActiveNodes, Active
      <3>4. DOMAIN ActiveWeights = ActiveNodes /\ DOMAIN ActiveWeights' = ActiveNodes'
        BY DEF ActiveWeights
      <3> QED BY <2>2, <3>1, <3>3, <3>4
    <2>9. CASE Reweights
      <3> DEFINE n == transition.node_id
      <3>1. /\ n \in Admitted /\ placement' = applied' /\ Kind = "REWEIGHT"
            /\ transition.weight # nodes[n].weight
        BY <1>1, <2>9 DEF Reweights, CompleteReweight, Ready, TransitionOK, Kind
      <3>2. nodes[n].state = "ACTIVE"
        BY <1>1, <3>1 DEF TransitionOK, ControlTyped, ValidDescriptor
      <3>3. n \in Admitted' /\ nodes'[n].state = "ACTIVE" /\ nodes'[n].weight = transition.weight
        BY <1>1, <2>9, <3>1, <3>2 DEF Reweights, CompleteReweight, ControlTyped, Admitted, Descriptors
      <3>4. n \in ActiveNodes /\ n \in ActiveNodes'
        BY <3>1, <3>2, <3>3 DEF ActiveNodes, Active
      <3>5. ActiveWeights[n] = nodes[n].weight /\ ActiveWeights'[n] = nodes'[n].weight
        BY <3>4 DEF ActiveWeights
      <3> QED BY <2>2, <3>1, <3>3, <3>5
    <2>10. ASSUME NEW n, NEW d, Rekeys(n, d)
           PROVE  (ActiveWeights' # ActiveWeights) <=> (placement' > placement)
      <3>1. /\ Admitted' = Admitted /\ placement' = placement
            /\ \A k \in Admitted : /\ nodes'[k].state = nodes[k].state
                                   /\ nodes'[k].weight = nodes[k].weight
        BY <1>1, <2>10 DEF Rekeys, ControlTyped, Admitted
      <3> QED BY <1>3, <3>1
    <2> QED BY <2>1, <2>3, <2>4, <2>5, <2>6, <2>7, <2>8, <2>9, <2>10 DEF ControlStep
  <1> QED BY <1>5, <1>6, <1>7 DEF Next

(* Types: every descriptor keeps what validate_descriptor asked of it.     *)
THEOREM TypesHold == Spec => []TypeOK
  <1>1. Init => ControlInv
    BY InitControl
  <1>2. ControlInv /\ [Next]_vars => ControlInv'
    BY ControlNext
  <1> QED BY <1>1, <1>2, ControlTypes, PTL DEF Spec

(* A peer key authenticates as at most one node, whatever joins, refreshes *)
(* and rotations are in the log at once.                                   *)
THEOREM PinsNameOneNode == Spec => []PinNamesOneNode
  <1>1. Init => ControlInv
    BY InitControl
  <1>2. ControlInv /\ [Next]_vars => ControlInv'
    BY ControlNext
  <1>3. ControlInv => PinNamesOneNode
    BY DEF ControlInv
  <1> QED BY <1>1, <1>2, <1>3, PTL DEF Spec

(* The placement log index that leases are fenced by moves exactly when    *)
(* the weighted ACTIVE set does.                                           *)
THEOREM PlacementIsNamed == Spec => PlacementNamesActiveSet
  <1>1. Init => ControlInv
    BY InitControl
  <1>2. ControlInv /\ [Next]_vars => ControlInv'
    BY ControlNext
  <1>3. ControlInv /\ [Next]_vars =>
            [(ActiveWeights' # ActiveWeights) <=> (placement' > placement)]_vars
    BY PlacementStep
  <1> QED BY <1>1, <1>2, <1>3, PTL DEF Spec, PlacementNamesActiveSet

(***************************************************************************)
(* The electorate of the memberships in the log.                           *)
(***************************************************************************)
LEMMA MayIs ==
  ASSUME ControlTyped
  PROVE  /\ May \subseteq ActiveNodes /\ May \subseteq Nodes /\ IsFiniteSet(May)
         /\ Cardinality(May) \in Nat /\ Target \in Nat
         /\ Kind # "REMOVE" => May = ActiveNodes /\ Target = voter_target
         /\ Kind = "REMOVE" => May = ActiveNodes \ {transition.node_id}
  <1>1. May \subseteq ActiveNodes
    BY DEF May
  <1>2. May \subseteq Nodes /\ IsFiniteSet(May) /\ Cardinality(May) \in Nat
    BY <1>1, ActiveSubset, FS_Subset, FS_CardinalityType
  <1>3. VoterTarget \in Nat
    BY MembershipConstants
  <1> QED BY <1>1, <1>2, <1>3 DEF Target, AtMost, May, voter_target

(* An electorate that is full gets no new voter.                           *)
LEMMA FullElectorate ==
  ASSUME ControlTyped, Cardinality(VotersAt(0)) = Target
  PROVE  Wanted = VotersAt(0)
  <1>1. May \subseteq Nodes /\ IsFiniteSet(May) /\ Target \in Nat
    BY MayIs
  <1>2. Nodes \subseteq Nat
    BY MembershipConstants
  <1> DEFINE S == May \ VotersAt(0)
             upto(n) == {k \in S : k <= n}
  <1>3. ASSUME NEW n \in S PROVE ~(Cardinality(upto(n)) <= 0)
    <2>1. n \in upto(n) /\ upto(n) \subseteq May
      BY <1>1, <1>2
    <2>2. IsFiniteSet(upto(n))
      BY <1>1, <2>1, FS_Subset
    <2> HIDE DEF upto
    <2>3. Cardinality(upto(n)) \in Nat /\ Cardinality(upto(n)) # 0
      BY <2>1, <2>2, FS_CardinalityType, FS_EmptySet
    <2> QED BY <2>3
  <1>4. Target - Cardinality(VotersAt(0)) = 0
    BY <1>1
  <1>5. Wanted = VotersAt(0) \cup {n \in S : Cardinality(upto(n)) <= 0}
    BY <1>4 DEF Wanted
  <1> HIDE DEF upto
  <1> QED BY <1>3, <1>5

LEMMA DesiredIsWanted ==
  ASSUME ControlTyped, transition # None
  PROVE  Eligible = May /\ Desired = Wanted /\ AtMost(Cardinality(Eligible), VoterTarget) = Target
  <1>1. Kind = transition.kind
    BY DEF Kind
  <1>2. Eligible = May
    BY <1>1 DEF Eligible, May
  <1>3. Voters(membership) \cap Eligible = VotersAt(0)
    BY <1>2 DEF VotersAt, Mem
  <1> QED BY <1>2, <1>3 DEF Desired, Wanted, Target

LEMMA OneElectorate ==
  ASSUME ControlTyped, VotersOK, Cardinality(VotersAt(0)) = Target
  PROVE  \A i \in Positions : VotersAt(i) = VotersAt(0)
  BY FullElectorate DEF VotersOK

(* The memberships of the log after an entry was applied.                  *)
Shifts ==
    /\ \A i \in Positions' : Before(i) \in Positions /\ Mem(i)' = Mem(Before(i)) /\ i \in Nat
    /\ \A i, j \in Positions' : i <= j => Before(i) <= Before(j)
    /\ 0 \in Positions'

LEMMA Shifted ==
  ASSUME Shifts, NEW i \in Positions'
  PROVE  /\ Before(i) \in Positions
         /\ Voters(Mem(i))' = Voters(Mem(Before(i)))
         /\ LastConfig(Mem(i))' = LastConfig(Mem(Before(i)))
         /\ Members(Mem(i))' = Members(Mem(Before(i)))
         /\ Mem(i).addr' = Mem(Before(i)).addr
         /\ VotersAt(i)' = Voters(Mem(Before(i))) \cap May'
  BY DEF Shifts, Voters, LastConfig, Members, VotersAt

LEMMA MembersCarry ==
  ASSUME MembersOK, Shifts,
         \A i \in Positions : \A n \in Members(Mem(i)) :
            n \in Admitted' /\ nodes'[n].peer_address = nodes[n].peer_address,
         \A i \in Positions : \A n \in Admitted' \ Members(Mem(i)) :
            Joining(n)' \/ (Transitioning(n)' /\ Kind' = "REMOVE"),
         \A i, j \in Positions : i <= j =>
            /\ \A n \in Members(Mem(j)) \ Members(Mem(i)) : Joining(n)'
            /\ \A n \in Members(Mem(i)) \ Members(Mem(j)) : ~Joining(n)'
  PROVE  MembersOK'
  <1>1. ASSUME NEW i \in Positions', NEW n \in Members(Mem(i))'
        PROVE  n \in Admitted' /\ (Mem(i).addr[n])' = nodes'[n].peer_address
    BY <1>1, Shifted DEF MembersOK
  <1>2. ASSUME NEW i \in Positions', NEW n \in Admitted' \ Members(Mem(i))'
        PROVE  Joining(n)' \/ (Transitioning(n)' /\ Kind' = "REMOVE")
    BY <1>2, Shifted
  <1>3. ASSUME NEW i \in Positions', NEW j \in Positions', i <= j
        PROVE  /\ \A n \in Members(Mem(j))' \ Members(Mem(i))' : Joining(n)'
               /\ \A n \in Members(Mem(i))' \ Members(Mem(j))' : ~Joining(n)'
    <2>1. Before(i) \in Positions /\ Before(j) \in Positions /\ Before(i) <= Before(j)
      BY <1>3 DEF Shifts
    <2>2. Members(Mem(i))' = Members(Mem(Before(i))) /\ Members(Mem(j))' = Members(Mem(Before(j)))
      BY Shifted
    <2> QED BY <2>1, <2>2
  <1> QED BY <1>1, <1>2, <1>3 DEF MembersOK

(* The step leaves the electorate alone.                                   *)
LEMMA VotersCarry ==
  ASSUME VotersOK, Shifts, Before(0) = 0, May' = May,
         \A i \in Positions : Voters(Mem(i)) \subseteq ActiveNodes',
         Kind' \in {"NONE", "REWEIGHT"} => Cardinality(VotersAt(0)) = Target,
         transition' # None /\ Joining(transition.node_id)' => Cardinality(VotersAt(0)) = Target
  PROVE  VotersOK'
  <1>1. \A i \in Positions' : VotersAt(i)' = VotersAt(Before(i))
    BY Shifted DEF VotersAt
  <1>2. VotersAt(0)' = VotersAt(0) /\ Target' = Target /\ Wanted' = Wanted
    <2>1. VotersAt(0)' = VotersAt(0) /\ Target' = Target
      BY <1>1 DEF Shifts, Target
    <2> QED BY <2>1 DEF Wanted
  <1>3. \A i \in Positions' : Voters(Mem(i))' \subseteq ActiveNodes'
    BY Shifted
  <1>4. \A i \in Positions' : LastConfig(Mem(i))' \cap May' = VotersAt(i)'
    BY <1>1, Shifted DEF VotersOK
  <1>5. \A i \in Positions' : \/ VotersAt(i)' = VotersAt(0)'
                              \/ VotersAt(i)' = Wanted' /\ Cardinality(Wanted') = Target'
    BY <1>1, <1>2, Shifted DEF VotersOK
  <1>6. ASSUME NEW i \in Positions', NEW j \in Positions', i <= j, VotersAt(i)' # VotersAt(0)'
        PROVE  VotersAt(j)' = VotersAt(i)'
    <2>1. Before(i) \in Positions /\ Before(j) \in Positions /\ Before(i) <= Before(j)
      BY <1>6 DEF Shifts
    <2> QED BY <1>1, <1>2, <1>6, <2>1 DEF VotersOK
  <1>7. Cardinality(VotersAt(0))' = Cardinality(VotersAt(0))
    BY <1>2
  <1> QED BY <1>2, <1>3, <1>4, <1>5, <1>6, <1>7 DEF VotersOK

(* The step leaves one electorate throughout the log.                      *)
LEMMA VotersAlike ==
  ASSUME Shifts, Before(0) = 0,
         \A i \in Positions : Voters(Mem(i)) \subseteq ActiveNodes',
         \A i \in Positions : LastConfig(Mem(i)) \cap May' = Voters(Mem(i)) \cap May',
         \A i \in Positions : Voters(Mem(i)) \cap May' = Voters(Mem(0)) \cap May',
         Kind' \in {"NONE", "REWEIGHT"} => Cardinality(VotersAt(0))' = Target',
         transition' # None /\ Joining(transition.node_id)' => Cardinality(VotersAt(0))' = Target'
  PROVE  VotersOK'
  <1>1. \A i \in Positions' : VotersAt(i)' = VotersAt(0)'
    BY Shifted DEF Shifts
  <1>2. \A i \in Positions' : Voters(Mem(i))' \subseteq ActiveNodes'
    BY Shifted
  <1>3. \A i \in Positions' : LastConfig(Mem(i))' \cap May' = VotersAt(i)'
    BY Shifted
  <1> QED BY <1>1, <1>2, <1>3 DEF VotersOK

(* A membership is applied.                                                *)
LEMMA VotersAdvance ==
  ASSUME ControlTyped, VotersOK, Shifts, Before(0) = 1, UNCHANGED control
  PROVE  VotersOK'
  <1>0. /\ May' = May /\ Target' = Target /\ ActiveNodes' = ActiveNodes /\ Kind' = Kind
        /\ transition' = transition /\ (transition # None => Joining(transition.node_id)' = Joining(transition.node_id))
    BY DEF control, May, Target, ActiveNodes, Active, Kind, Admitted, Joining, Transitioning
  <1>1. \A i \in Positions' : VotersAt(i)' = VotersAt(Before(i))
    BY <1>0, Shifted DEF VotersAt
  <1>2. 1 \in Positions /\ 0 \in Positions /\ VotersAt(0)' = VotersAt(1)
    BY <1>1 DEF Shifts, Positions
  <1>3. \A i \in Positions' : Voters(Mem(i))' \subseteq ActiveNodes'
    BY <1>0, Shifted DEF VotersOK
  <1>4. \A i \in Positions' : LastConfig(Mem(i))' \cap May' = VotersAt(i)'
    BY <1>0, <1>1, Shifted DEF VotersOK
  <1>5. CASE VotersAt(1) = VotersAt(0)
    <2>1. VotersAt(0)' = VotersAt(0)
      BY <1>2, <1>5
    <2>2. Wanted' = Wanted
      BY <1>0, <2>1 DEF Wanted
    <2>3. \A i \in Positions' : \/ VotersAt(i)' = VotersAt(0)'
                                \/ VotersAt(i)' = Wanted' /\ Cardinality(Wanted') = Target'
      BY <1>0, <1>1, <2>1, <2>2, Shifted DEF VotersOK
    <2>4. ASSUME NEW i \in Positions', NEW j \in Positions', i <= j, VotersAt(i)' # VotersAt(0)'
          PROVE  VotersAt(j)' = VotersAt(i)'
      <3>1. Before(i) \in Positions /\ Before(j) \in Positions /\ Before(i) <= Before(j)
        BY <2>4 DEF Shifts
      <3> QED BY <1>1, <2>1, <2>4, <3>1 DEF VotersOK
    <2>5. Cardinality(VotersAt(0))' = Cardinality(VotersAt(0))
      BY <2>1
    <2> QED BY <1>0, <1>3, <1>4, <2>3, <2>4, <2>5 DEF VotersOK
  <1>6. CASE VotersAt(1) # VotersAt(0)
    <2>1. VotersAt(1) = Wanted /\ Cardinality(Wanted) = Target
      BY <1>2, <1>6 DEF VotersOK
    <2>2. ASSUME NEW i \in Positions' PROVE VotersAt(i)' = VotersAt(0)'
      <3>1. Before(i) \in Positions /\ 1 <= Before(i)
        <4>1. 0 <= i /\ Before(i) \in Positions
          BY <2>2 DEF Shifts
        <4> QED BY <4>1 DEF Shifts
      <3>2. VotersAt(Before(i)) = VotersAt(1)
        BY <1>2, <1>6, <3>1 DEF VotersOK
      <3> QED BY <1>1, <1>2, <3>2
    <2>3. Cardinality(VotersAt(0))' = Target'
      BY <1>0, <1>2, <2>1
    <2> QED BY <1>3, <1>4, <2>2, <2>3 DEF VotersOK
  <1> QED BY <1>5, <1>6

(***************************************************************************)
(* Control steps while the cluster has an ACTIVE node.                     *)
(***************************************************************************)
LEMMA NobodyJoins ==
  ASSUME Kind # "ADD"
  PROVE  \A n : ~Joining(n)
  BY DEF Joining

LEMMA AllAreMembers ==
  ASSUME MembersOK, Kind # "REMOVE", \A n : ~Joining(n)
  PROVE  \A i \in Positions : Members(Mem(i)) = Admitted
  BY DEF MembersOK

(* The step changes neither who is admitted or ACTIVE nor the transition.  *)
LEMMA ElectorsKept ==
  ASSUME ControlTyped, TransitionOK, MembersOK, VotersOK, Shifts, Before(0) \in {0, 1},
         Before(0) = 1 => UNCHANGED control,
         Admitted' = Admitted, transition' = transition,
         \A n \in Admitted : /\ nodes'[n].state = nodes[n].state
                             /\ nodes'[n].peer_address = nodes[n].peer_address
  PROVE  MembersOK' /\ VotersOK'
  <1>1. Kind' = Kind /\ ActiveNodes' = ActiveNodes
    BY DEF Kind, ActiveNodes, Active
  <1>2. \A n : Transitioning(n)' = Transitioning(n)
    BY DEF Transitioning
  <1>3. May' = May
    BY <1>1 DEF May
  <1>4. \A n \in Admitted : Joining(n)' = Joining(n)
    BY <1>1, <1>2 DEF Joining
  <1>5. \A i \in Positions : Members(Mem(i)) \subseteq Admitted
    BY DEF MembersOK
  <1>6. MembersOK'
    <2>1. \A i \in Positions : \A n \in Members(Mem(i)) :
            n \in Admitted' /\ nodes'[n].peer_address = nodes[n].peer_address
      BY <1>5
    <2>2. \A i \in Positions : \A n \in Admitted' \ Members(Mem(i)) :
            Joining(n)' \/ (Transitioning(n)' /\ Kind' = "REMOVE")
      BY <1>1, <1>2, <1>4 DEF MembersOK
    <2>3. \A i, j \in Positions : i <= j =>
            /\ \A n \in Members(Mem(j)) \ Members(Mem(i)) : Joining(n)'
            /\ \A n \in Members(Mem(i)) \ Members(Mem(j)) : ~Joining(n)'
      BY <1>4, <1>5 DEF MembersOK
    <2> QED BY <2>1, <2>2, <2>3, MembersCarry
  <1>7. VotersOK'
    <2>1. CASE Before(0) = 1
      BY <2>1, VotersAdvance
    <2>2. CASE Before(0) = 0
      <3>1. \A i \in Positions : Voters(Mem(i)) \subseteq ActiveNodes'
        BY <1>1 DEF VotersOK
      <3>2. Kind' \in {"NONE", "REWEIGHT"} => Cardinality(VotersAt(0)) = Target
        BY <1>1 DEF VotersOK
      <3>3. transition' # None /\ Joining(transition.node_id)' => Cardinality(VotersAt(0)) = Target
        <4>1. transition # None => Joining(transition.node_id)' = Joining(transition.node_id)
          BY <1>4 DEF TransitionOK
        <4> QED BY <4>1 DEF VotersOK
      <3> QED BY <1>3, <2>2, <3>1, <3>2, <3>3, VotersCarry
    <2> QED BY <2>1, <2>2
  <1> QED BY <1>6, <1>7

LEMMA AddsElectors ==
  ASSUME ControlInv, MembersOK, VotersOK, Shifts, Before(0) = 0, NEW d \in Candidates, Adds(d)
  PROVE  MembersOK' /\ VotersOK'
  <1> DEFINE n == d.node_id
  <1>1. /\ Admitted' = Admitted \cup {n} /\ n \notin Admitted /\ transition = None
        /\ \A k \in Admitted' : nodes'[k] = IF k = n THEN d ELSE nodes[k]
    BY DEF Adds, Admitted, AddAccepted, ControlInv, TransitionOK
  <1>2. transition' # None /\ transition'.kind = "ADD" /\ transition'.node_id = n
    BY TransitionNotNone DEF Adds
  <1>3. d.state = "JOINING"
    BY MembershipConstants
  <1>4. Kind = "NONE" /\ Kind' = "ADD"
    BY <1>1, <1>2 DEF Kind
  <1>5. ActiveNodes' = ActiveNodes
    BY <1>1, <1>3 DEF ActiveNodes, Active
  <1>6. May' = May
    BY <1>4, <1>5 DEF May
  <1>7. \A i \in Positions : Members(Mem(i)) = Admitted
    BY <1>4, AllAreMembers, NobodyJoins
  <1>8. Joining(n)'
    BY <1>1, <1>2, <1>3, <1>4 DEF Joining, Transitioning
  <1>9. MembersOK'
    <2>1. \A i \in Positions : \A k \in Members(Mem(i)) :
            k \in Admitted' /\ nodes'[k].peer_address = nodes[k].peer_address
      BY <1>1, <1>7
    <2>2. \A i \in Positions : \A k \in Admitted' \ Members(Mem(i)) :
            Joining(k)' \/ (Transitioning(k)' /\ Kind' = "REMOVE")
      BY <1>1, <1>7, <1>8
    <2>3. \A i, j \in Positions : i <= j =>
            /\ \A k \in Members(Mem(j)) \ Members(Mem(i)) : Joining(k)'
            /\ \A k \in Members(Mem(i)) \ Members(Mem(j)) : ~Joining(k)'
      BY <1>7
    <2> QED BY <2>1, <2>2, <2>3, MembersCarry
  <1>10. VotersOK'
    <2>1. Cardinality(VotersAt(0)) = Target
      BY <1>4 DEF VotersOK
    <2>2. \A i \in Positions : Voters(Mem(i)) \subseteq ActiveNodes'
      BY <1>5 DEF VotersOK
    <2> QED BY <1>6, <2>1, <2>2, VotersCarry
  <1> QED BY <1>9, <1>10

LEMMA StartsElectors ==
  ASSUME ControlInv, MembersOK, VotersOK, Shifts, Before(0) = 0,
         NEW kind, NEW n, NEW w, Starts(kind, n, w)
  PROVE  MembersOK' /\ VotersOK'
  <1>1. /\ nodes' = nodes /\ Admitted' = Admitted /\ transition = None /\ kind \in {"REMOVE", "REWEIGHT"}
    BY DEF Starts, Admitted
  <1>2. transition' # None /\ transition'.kind = kind /\ transition'.node_id = n
    BY TransitionNotNone DEF Starts
  <1>3. Kind = "NONE" /\ Kind' = kind
    BY <1>1, <1>2 DEF Kind
  <1>4. ActiveNodes' = ActiveNodes /\ \A k : ~Joining(k)'
    BY <1>1, <1>3 DEF ActiveNodes, Active, Joining
  <1>5. May = ActiveNodes /\ May' = IF kind = "REMOVE" THEN ActiveNodes \ {n} ELSE ActiveNodes
    BY <1>2, <1>3, <1>4 DEF May
  <1>6. \A i \in Positions : Members(Mem(i)) = Admitted
    BY <1>3, AllAreMembers, NobodyJoins
  <1>7. MembersOK'
    <2>1. \A i \in Positions : \A k \in Members(Mem(i)) :
            k \in Admitted' /\ nodes'[k].peer_address = nodes[k].peer_address
      BY <1>1, <1>6
    <2>2. \A i \in Positions : \A k \in Admitted' \ Members(Mem(i)) :
            Joining(k)' \/ (Transitioning(k)' /\ Kind' = "REMOVE")
      BY <1>1, <1>6
    <2>3. \A i, j \in Positions : i <= j =>
            /\ \A k \in Members(Mem(j)) \ Members(Mem(i)) : Joining(k)'
            /\ \A k \in Members(Mem(i)) \ Members(Mem(j)) : ~Joining(k)'
      BY <1>6
    <2> QED BY <2>1, <2>2, <2>3, MembersCarry
  <1>8. Cardinality(VotersAt(0)) = Target /\ \A i \in Positions : VotersAt(i) = VotersAt(0)
    BY <1>3, OneElectorate DEF VotersOK, ControlInv, Typed
  <1>9. \A i \in Positions : Voters(Mem(i)) \subseteq ActiveNodes'
    BY <1>4 DEF VotersOK
  <1>10. CASE kind = "REWEIGHT"
    <2>1. May' = May
      BY <1>5, <1>10
    <2> QED BY <1>7, <1>8, <1>9, <2>1, VotersCarry
  <1>11. CASE kind = "REMOVE"
    <2>1. \A i \in Positions : Voters(Mem(i)) \cap May = Voters(Mem(0)) \cap May
      BY <1>8 DEF VotersAt
    <2>2. \A i \in Positions : LastConfig(Mem(i)) \cap May = Voters(Mem(i)) \cap May
      BY DEF VotersAt, VotersOK
    <2>3. May' \subseteq May
      BY <1>5
    <2>4. \A i \in Positions : Voters(Mem(i)) \cap May' = Voters(Mem(0)) \cap May'
      BY <2>1, <2>3
    <2>5. \A i \in Positions : LastConfig(Mem(i)) \cap May' = Voters(Mem(i)) \cap May'
      BY <2>2, <2>3
    <2>6. ~(Kind' \in {"NONE", "REWEIGHT"}) /\ ~(Joining(transition.node_id)')
      BY <1>3, <1>11 DEF Joining
    <2> QED BY <1>7, <1>9, <2>4, <2>5, <2>6, VotersAlike
  <1> QED BY <1>1, <1>10, <1>11

LEMMA ActivatesElectors ==
  ASSUME ControlInv, MembersOK, VotersOK, Shifts, Before(0) = 0, NEW n, Activates(n)
  PROVE  MembersOK' /\ VotersOK'
  <1>0. Typed /\ ControlTyped /\ TransitionOK
    BY DEF ControlInv, Typed
  <1>1. /\ n \in Admitted /\ n = transition.node_id /\ transition # None /\ Kind = "ADD"
        /\ nodes[n].state = "JOINING" /\ transition' = transition
    BY <1>0 DEF Activates, Ready, Kind, TransitionOK
  <1>2. /\ Admitted' = Admitted /\ \A k \in Admitted \ {n} : nodes'[k] = nodes[k]
        /\ nodes'[n].state = "ACTIVE" /\ nodes'[n].peer_address = nodes[n].peer_address
    BY <1>0, <1>1 DEF Activates, ControlTyped, Admitted, Descriptors
  <1>3. Kind' = "ADD"
    BY <1>1 DEF Kind
  <1>4. \A k : ~Joining(k)'
    BY <1>1, <1>2 DEF Joining, Transitioning
  <1>5. /\ May = ActiveNodes /\ May' = ActiveNodes' /\ ActiveNodes' = ActiveNodes \cup {n}
        /\ n \notin ActiveNodes
    BY <1>1, <1>2, <1>3 DEF May, ActiveNodes, Active
  <1>6. 0 \in Positions /\ n \in Members(Mem(0)) /\ \A i \in Positions : 0 <= i
    <2>1. n \in Members(membership)
      BY <1>1 DEF Activates, Ready, MembershipReady
    <2> QED BY <1>0, <2>1, MemIs
  <1>7. ASSUME NEW i \in Positions PROVE Members(Mem(i)) = Admitted
    <2>1. Joining(n) /\ \A k : Joining(k) => k = n
      BY <1>1 DEF Joining, Transitioning
    <2>2. n \in Members(Mem(i))
      BY <1>6, <2>1 DEF MembersOK
    <2> QED BY <1>1, <2>1, <2>2 DEF MembersOK
  <1>8. MembersOK'
    <2>1. \A i \in Positions : \A k \in Members(Mem(i)) :
            k \in Admitted' /\ nodes'[k].peer_address = nodes[k].peer_address
      BY <1>2, <1>7
    <2>2. \A i \in Positions : \A k \in Admitted' \ Members(Mem(i)) :
            Joining(k)' \/ (Transitioning(k)' /\ Kind' = "REMOVE")
      BY <1>2, <1>7
    <2>3. \A i, j \in Positions : i <= j =>
            /\ \A k \in Members(Mem(j)) \ Members(Mem(i)) : Joining(k)'
            /\ \A k \in Members(Mem(i)) \ Members(Mem(j)) : ~Joining(k)'
      BY <1>7
    <2> QED BY <2>1, <2>2, <2>3, MembersCarry
  <1>9. VotersOK'
    <2>1. Joining(transition.node_id)
      BY <1>1 DEF Joining, Transitioning
    <2>2. \A i \in Positions : VotersAt(i) = VotersAt(0)
      BY <1>0, <1>1, <2>1, OneElectorate DEF VotersOK
    <2>3. \A i \in Positions : Voters(Mem(i)) \subseteq ActiveNodes
      BY DEF VotersOK
    <2>4. \A i \in Positions : LastConfig(Mem(i)) \subseteq Voters(Mem(i))
      BY <1>0, MemIs, LastConfigVotes
    <2>5. \A i \in Positions : Voters(Mem(i)) \cap May' = VotersAt(i)
      BY <1>5, <2>3 DEF VotersAt
    <2>6. \A i \in Positions : LastConfig(Mem(i)) \cap May' = VotersAt(i)
      BY <1>5, <2>3, <2>4 DEF VotersOK
    <2>7. \A i \in Positions : LastConfig(Mem(i)) \cap May' = Voters(Mem(i)) \cap May'
      BY <2>5, <2>6
    <2>8. \A i \in Positions : Voters(Mem(i)) \cap May' = Voters(Mem(0)) \cap May'
      BY <1>6, <2>2, <2>5
    <2>9. \A i \in Positions : Voters(Mem(i)) \subseteq ActiveNodes'
      BY <1>5, <2>3
    <2>10. ~(Kind' \in {"NONE", "REWEIGHT"}) /\ ~(Joining(transition.node_id)')
      BY <1>1, <1>2, <1>3 DEF Joining
    <2> QED BY <2>7, <2>8, <2>9, <2>10, VotersAlike
  <1> QED BY <1>8, <1>9

LEMMA ClosesElectors ==
  ASSUME ControlInv, MembersOK, VotersOK, Shifts, Before(0) = 0, Closes
  PROVE  MembersOK' /\ VotersOK'
  <1>0. Typed /\ ControlTyped /\ TransitionOK
    BY DEF ControlInv, Typed
  <1>1. /\ transition # None /\ Kind = "ADD" /\ transition.kind = "ADD" /\ transition' = None
        /\ nodes' = nodes /\ Admitted' = Admitted
        /\ transition.node_id \in Admitted /\ nodes[transition.node_id].state # "JOINING"
        /\ MembershipReady
    BY <1>0 DEF Closes, Ready, Kind, Admitted, TransitionOK
  <1>2. Kind' = "NONE" /\ \A k : ~Joining(k) /\ ~Joining(k)'
    BY <1>1 DEF Kind, Joining, Transitioning
  <1>3. ActiveNodes' = ActiveNodes /\ May = ActiveNodes /\ May' = ActiveNodes
    BY <1>1, <1>2 DEF ActiveNodes, Active, May
  <1>4. \A i \in Positions : Members(Mem(i)) = Admitted
    BY <1>1, <1>2, AllAreMembers
  <1>5. MembersOK'
    <2>1. \A i \in Positions : \A k \in Members(Mem(i)) :
            k \in Admitted' /\ nodes'[k].peer_address = nodes[k].peer_address
      BY <1>1, <1>4
    <2>2. \A i \in Positions : \A k \in Admitted' \ Members(Mem(i)) :
            Joining(k)' \/ (Transitioning(k)' /\ Kind' = "REMOVE")
      BY <1>1, <1>4
    <2>3. \A i, j \in Positions : i <= j =>
            /\ \A k \in Members(Mem(j)) \ Members(Mem(i)) : Joining(k)'
            /\ \A k \in Members(Mem(i)) \ Members(Mem(j)) : ~Joining(k)'
      BY <1>4
    <2> QED BY <2>1, <2>2, <2>3, MembersCarry
  <1>6. Cardinality(VotersAt(0)) = Target
    <2>1. Active(transition.node_id)
      BY <1>0, <1>1 DEF Active, ControlTyped, ValidDescriptor
    <2>2. validate_fixed_voters(membership)
      BY <1>1, <2>1 DEF MembershipReady
    <2>3. Cardinality(Voters(membership)) = voter_target /\ Voters(membership) \subseteq ActiveNodes
      BY <2>2 DEF validate_fixed_voters, validate_voters, ActiveNodes, Active
    <2>4. VotersAt(0) = Voters(membership)
      BY <1>3, <2>3 DEF VotersAt, Mem
    <2> QED BY <1>0, <1>1, <2>3, <2>4, MayIs
  <1>7. VotersOK'
    <2>1. \A i \in Positions : Voters(Mem(i)) \subseteq ActiveNodes'
      BY <1>3 DEF VotersOK
    <2> QED BY <1>3, <1>6, <2>1, VotersCarry
  <1> QED BY <1>5, <1>7

LEMMA RemovesElectors ==
  ASSUME ControlInv, MembersOK, VotersOK, Shifts, Before(0) = 0, Removes
  PROVE  MembersOK' /\ VotersOK'
  <1> DEFINE n == transition.node_id
  <1>0. Typed /\ ControlTyped /\ TransitionOK
    BY DEF ControlInv, Typed
  <1>1. /\ transition # None /\ Kind = "REMOVE" /\ transition.kind = "REMOVE" /\ transition' = None
        /\ n \in Admitted /\ MembershipReady
        /\ Admitted' = Admitted \ {n} /\ \A k \in Admitted' : nodes'[k] = nodes[k]
    BY <1>0 DEF Removes, CompleteRemove, Ready, Kind, Admitted, TransitionOK
  <1>2. Kind' = "NONE" /\ \A k : ~Joining(k) /\ ~Joining(k)'
    BY <1>1 DEF Kind, Joining, Transitioning
  <1>3. n \in ActiveNodes
    BY <1>0, <1>1 DEF ActiveNodes, Active, TransitionOK, ControlTyped, ValidDescriptor
  <1>4. ActiveNodes' = ActiveNodes \ {n} /\ May = ActiveNodes \ {n} /\ May' = ActiveNodes \ {n}
    BY <1>1, <1>2 DEF ActiveNodes, Active, May
  <1>5. /\ n \notin Members(membership)
        /\ Cardinality(Voters(membership)) = AtMost(Cardinality(ActiveNodes) - 1, VoterTarget)
    BY <1>1 DEF MembershipReady, validate_voters
  <1>6. 0 \in Positions /\ Mem(0) = membership /\ \A i \in Positions : 0 <= i
    BY <1>0, MemIs
  <1>7. ASSUME NEW i \in Positions
        PROVE  n \notin Members(Mem(i)) /\ Voters(Mem(i)) \subseteq Members(Mem(i))
    <2>1. n \notin Members(Mem(i))
      BY <1>2, <1>5, <1>6 DEF MembersOK
    <2> QED BY <1>0, <2>1, MemIs DEF IsMembership
  <1>8. MembersOK'
    <2>1. \A i \in Positions : \A k \in Members(Mem(i)) :
            k \in Admitted' /\ nodes'[k].peer_address = nodes[k].peer_address
      BY <1>1, <1>7 DEF MembersOK
    <2>2. \A i \in Positions : \A k \in Admitted' \ Members(Mem(i)) :
            Joining(k)' \/ (Transitioning(k)' /\ Kind' = "REMOVE")
      BY <1>1, <1>2 DEF MembersOK, Transitioning
    <2>3. \A i, j \in Positions : i <= j =>
            /\ \A k \in Members(Mem(j)) \ Members(Mem(i)) : Joining(k)'
            /\ \A k \in Members(Mem(i)) \ Members(Mem(j)) : ~Joining(k)'
      BY <1>2 DEF MembersOK
    <2> QED BY <2>1, <2>2, <2>3, MembersCarry
  <1>9. \A i \in Positions : Voters(Mem(i)) \subseteq ActiveNodes'
    BY <1>4, <1>7 DEF VotersOK
  <1>10. Cardinality(VotersAt(0)) = Target
    <2>1. VotersAt(0) = Voters(membership)
      BY <1>4, <1>6, <1>9 DEF VotersAt
    <2>2. Cardinality(May) = Cardinality(ActiveNodes) - 1
      BY <1>0, <1>3, <1>4, ActiveSubset, FS_RemoveElement
    <2> QED BY <1>5, <2>1, <2>2 DEF Target
  <1> QED BY <1>4, <1>8, <1>9, <1>10, VotersCarry

LEMMA ReweightsElectors ==
  ASSUME ControlInv, MembersOK, VotersOK, Shifts, Before(0) = 0, Reweights
  PROVE  MembersOK' /\ VotersOK'
  <1>0. Typed /\ ControlTyped /\ TransitionOK
    BY DEF ControlInv, Typed
  <1>1. /\ Kind = "REWEIGHT" /\ transition' = None /\ Admitted' = Admitted
    BY <1>0 DEF Reweights, CompleteReweight, Ready, Kind, Admitted
  <1>2. \A k \in Admitted : /\ nodes'[k].state = nodes[k].state
                            /\ nodes'[k].peer_address = nodes[k].peer_address
    BY <1>0 DEF Reweights, CompleteReweight, ControlTyped, Descriptors
  <1>3. Kind' = "NONE" /\ \A k : ~Joining(k) /\ ~Joining(k)'
    BY <1>1 DEF Kind, Joining
  <1>4. ActiveNodes' = ActiveNodes
    BY <1>1, <1>2 DEF ActiveNodes, Active
  <1>5. May' = May
    BY <1>1, <1>3, <1>4 DEF May
  <1>6. \A i \in Positions : Members(Mem(i)) = Admitted
    BY <1>1, <1>3, AllAreMembers
  <1>7. MembersOK'
    <2>1. \A i \in Positions : \A k \in Members(Mem(i)) :
            k \in Admitted' /\ nodes'[k].peer_address = nodes[k].peer_address
      BY <1>1, <1>2, <1>6
    <2>2. \A i \in Positions : \A k \in Admitted' \ Members(Mem(i)) :
            Joining(k)' \/ (Transitioning(k)' /\ Kind' = "REMOVE")
      BY <1>1, <1>6
    <2>3. \A i, j \in Positions : i <= j =>
            /\ \A k \in Members(Mem(j)) \ Members(Mem(i)) : Joining(k)'
            /\ \A k \in Members(Mem(i)) \ Members(Mem(j)) : ~Joining(k)'
      BY <1>6
    <2> QED BY <2>1, <2>2, <2>3, MembersCarry
  <1>8. \A i \in Positions : Voters(Mem(i)) \subseteq ActiveNodes'
    BY <1>4 DEF VotersOK
  <1>9. Cardinality(VotersAt(0)) = Target
    BY <1>1 DEF VotersOK
  <1> QED BY <1>5, <1>7, <1>8, <1>9, VotersCarry

LEMMA RekeysElectors ==
  ASSUME ControlInv, MembersOK, VotersOK, Shifts, Before(0) = 0, NEW n, NEW d, Rekeys(n, d)
  PROVE  MembersOK' /\ VotersOK'
  <1>0. ControlTyped /\ TransitionOK
    BY DEF ControlInv, Typed
  <1>1. /\ Admitted' = Admitted /\ transition' = transition
        /\ \A k \in Admitted : /\ nodes'[k].state = nodes[k].state
                               /\ nodes'[k].peer_address = nodes[k].peer_address
    BY <1>0 DEF Rekeys, ControlTyped, Admitted
  <1> QED BY <1>0, <1>1, ElectorsKept

LEMMA ElectorsStep ==
  ASSUME ControlInv, MembersOK, VotersOK, Shifts, Before(0) \in {0, 1},
         Before(0) = 1 => UNCHANGED control, ControlStep
  PROVE  MembersOK' /\ VotersOK'
  <1>1. CASE UNCHANGED control
    <2>1. ControlTyped /\ TransitionOK
      BY DEF ControlInv, Typed
    <2>2. nodes' = nodes /\ Admitted' = Admitted /\ transition' = transition
      BY <1>1 DEF control, Admitted
    <2> QED BY <1>1, <2>1, <2>2, ElectorsKept
  <1>2. CASE ~(UNCHANGED control)
    <2>1. Before(0) = 0
      BY <1>2
    <2> QED BY <1>2, <2>1, AddsElectors, StartsElectors, ActivatesElectors, ClosesElectors,
               RemovesElectors, ReweightsElectors, RekeysElectors DEF ControlStep
  <1> QED BY <1>1, <1>2

(***************************************************************************)
(* Control steps before there is an ACTIVE node.                           *)
(***************************************************************************)
LEMMA GenesisShifted ==
  ASSUME Shifts, GenesisOK
  PROVE  /\ \A i \in Positions' : Mem(i)' = GenesisMembership
         /\ \A i \in Positions : Mem(i) = GenesisMembership
  BY DEF Shifts, GenesisOK

LEMMA GenesisAdds ==
  ASSUME ControlInv, ActiveNodes = {}, GenesisOK, Shifts, Mem(0) = GenesisMembership,
         NEW d \in Candidates, Adds(d)
  PROVE  ActiveNodes' = {} /\ GenesisOK'
  <1> DEFINE n == d.node_id
  <1>1. /\ Admitted' = Admitted \cup {n} /\ transition = None
        /\ used_node_ids' = used_node_ids \cup {n}
        /\ \A k \in Admitted' : nodes'[k] = IF k = n THEN d ELSE nodes[k]
    BY DEF Adds, Admitted, AddAccepted
  <1>2. transition' # None /\ transition'.kind = "ADD" /\ transition'.node_id = n
    BY TransitionNotNone DEF Adds
  <1>3. d.state = "JOINING"
    BY MembershipConstants
  <1>4. Kind' = "ADD"
    BY <1>2 DEF Kind
  <1>5. Genesis \notin Admitted /\ Admitted = {}
    BY <1>1 DEF GenesisOK, Joining, Transitioning
  <1>6. /\ Members(membership) = {Genesis}
        /\ membership.addr = [k \in {Genesis} |-> CandidateAddress(Genesis)]
    <2>1. membership = GenesisMembership
      BY DEF Mem
    <2> QED BY <2>1, GenesisIs DEF GenesisMembership
  <1>7. n = Genesis /\ d.peer_address = CandidateAddress(Genesis)
    <2>1. \A k \in Members(membership) :
            IF k = n THEN membership.addr[k] = d.peer_address ELSE k \in Admitted
      BY DEF Adds, AddAccepted
    <2> QED BY <1>5, <1>6, <2>1
  <1>8. Joining(Genesis)'
    BY <1>1, <1>2, <1>3, <1>4, <1>7 DEF Joining, Transitioning
  <1>9. ActiveNodes' = {}
    BY <1>1, <1>3, <1>5 DEF ActiveNodes, Active
  <1>10. \A i \in Positions' : Mem(i)' = GenesisMembership
    BY GenesisShifted
  <1>11. used_node_ids' = Admitted'
    BY <1>1 DEF GenesisOK
  <1> QED BY <1>1, <1>5, <1>7, <1>8, <1>9, <1>10, <1>11 DEF GenesisOK, CandidateAddress

LEMMA GenesisActivates ==
  ASSUME ControlInv, ActiveNodes = {}, GenesisOK, Shifts, Mem(0) = GenesisMembership,
         NEW n, Activates(n)
  PROVE  ActiveNodes' # {} /\ MembersOK' /\ VotersOK'
  <1>0. ControlTyped /\ TransitionOK
    BY DEF ControlInv, Typed
  <1>1. /\ n \in Admitted /\ n = transition.node_id /\ transition # None /\ Kind = "ADD"
        /\ nodes[n].state = "JOINING" /\ transition' = transition
    BY <1>0 DEF Activates, Ready, Kind, TransitionOK
  <1>2. n = Genesis /\ Admitted = {Genesis} /\ nodes[n].peer_address = CandidateAddress(Genesis)
    BY <1>1 DEF GenesisOK
  <1>3. /\ Admitted' = Admitted
        /\ nodes'[n].state = "ACTIVE" /\ nodes'[n].peer_address = nodes[n].peer_address
    BY <1>0, <1>1 DEF Activates, ControlTyped, Admitted, Descriptors
  <1>4. Kind' = "ADD" /\ ActiveNodes' = {Genesis}
    BY <1>1, <1>2, <1>3 DEF Kind, ActiveNodes, Active
  <1>5. May' = {Genesis}
    BY <1>4 DEF May
  <1>6. \A k : ~Joining(k)'
    BY <1>1, <1>3 DEF Joining, Transitioning
  <1>7. ASSUME NEW i \in Positions'
        PROVE  /\ Members(Mem(i))' = {Genesis} /\ Voters(Mem(i))' = {Genesis}
               /\ LastConfig(Mem(i))' = {Genesis} /\ VotersAt(i)' = {Genesis}
               /\ (Mem(i).addr[Genesis])' = CandidateAddress(Genesis)
    <2>1. Mem(i)' = GenesisMembership
      BY <1>7, GenesisShifted
    <2>2. /\ Members(Mem(i)') = {Genesis} /\ Voters(Mem(i)') = {Genesis}
          /\ LastConfig(Mem(i)') = {Genesis}
          /\ (Mem(i)').addr[Genesis] = CandidateAddress(Genesis)
      BY <2>1, GenesisIs DEF GenesisMembership
    <2>3. VotersAt(i)' = {Genesis}
      BY <1>5, <2>2 DEF VotersAt, Voters
    <2> QED BY <2>2, <2>3 DEF Members, Voters, LastConfig
  <1>8. MembersOK'
    BY <1>2, <1>3, <1>6, <1>7 DEF MembersOK
  <1>9. 0 \in Positions' /\ VotersAt(0)' = {Genesis}
    BY <1>7 DEF Shifts
  <1>10. VotersOK'
    <2>1. \A i \in Positions' : VotersAt(i)' = VotersAt(0)'
      BY <1>7, <1>9
    <2>2. ~(Kind' \in {"NONE", "REWEIGHT"}) /\ ~(Joining(transition.node_id)')
      BY <1>1, <1>3, <1>4 DEF Joining
    <2> QED BY <1>4, <1>5, <1>7, <2>1, <2>2 DEF VotersOK
  <1> QED BY <1>4, <1>8, <1>10

LEMMA GenesisStep ==
  ASSUME ControlInv, ActiveNodes = {}, GenesisOK, Shifts, 0 \in Positions, ControlStep
  PROVE  \/ ActiveNodes' = {} /\ GenesisOK'
         \/ ActiveNodes' # {} /\ MembersOK' /\ VotersOK'
  <1>0. ControlTyped /\ TransitionOK
    BY DEF ControlInv, Typed
  <1>1. Mem(0) = GenesisMembership
    BY GenesisShifted
  <1>2. transition # None => Kind = "ADD" /\ nodes[transition.node_id].state = "JOINING"
    <2> SUFFICES ASSUME transition # None
                 PROVE  Kind = "ADD" /\ nodes[transition.node_id].state = "JOINING"
      OBVIOUS
    <2>1. transition.node_id = Genesis /\ Genesis \in Admitted
      BY <1>0 DEF TransitionOK, GenesisOK
    <2> QED BY <2>1 DEF GenesisOK, Joining
  <1>3. ASSUME Admitted' = Admitted, used_node_ids' = used_node_ids, transition' = transition,
               \A k \in Admitted : /\ nodes'[k].state = nodes[k].state
                                   /\ nodes'[k].peer_address = nodes[k].peer_address
        PROVE  ActiveNodes' = {} /\ GenesisOK'
    <2>1. ActiveNodes' = {}
      BY <1>3 DEF ActiveNodes, Active
    <2>2. Genesis \in Admitted => Joining(Genesis)'
      BY <1>3 DEF GenesisOK, Joining, Transitioning, Kind
    <2>3. \A i \in Positions' : Mem(i)' = GenesisMembership
      BY GenesisShifted
    <2> QED BY <1>3, <2>1, <2>2, <2>3 DEF GenesisOK, CandidateAddress
  <1>4. CASE UNCHANGED control
    BY <1>3, <1>4 DEF control, Admitted
  <1>5. ASSUME NEW n, NEW d, Rekeys(n, d) PROVE ActiveNodes' = {} /\ GenesisOK'
    <2>1. /\ Admitted' = Admitted /\ transition' = transition /\ used_node_ids' = used_node_ids
          /\ \A k \in Admitted : /\ nodes'[k].state = nodes[k].state
                                 /\ nodes'[k].peer_address = nodes[k].peer_address
      BY <1>0, <1>5 DEF Rekeys, ControlTyped, Admitted
    <2> QED BY <1>3, <2>1
  <1>6. ASSUME NEW kind, NEW n, NEW w, Starts(kind, n, w) PROVE FALSE
    BY <1>6 DEF Starts, ActiveNodes, Active
  <1>7. ~Closes /\ ~Removes /\ ~Reweights
    BY <1>2 DEF Closes, Removes, Reweights, Ready, Kind
  <1> QED BY <1>1, <1>4, <1>5, <1>6, <1>7, GenesisAdds, GenesisActivates DEF ControlStep

(***************************************************************************)
(* A membership is appended after the last one, which is l.                *)
(***************************************************************************)
Follows(m, l) ==
    /\ \A n \in Members(m) : n \in Admitted /\ m.addr[n] = nodes[n].peer_address
    /\ \A n \in Admitted \ Members(m) : Joining(n) \/ (Transitioning(n) /\ Kind = "REMOVE")
    /\ \A n \in Members(m) \ Members(l) : Joining(n)
    /\ \A n \in Members(l) \ Members(m) : ~Joining(n)
    /\ Voters(m) \subseteq ActiveNodes
    /\ LastConfig(m) \cap May = Voters(m) \cap May
    /\ \/ Voters(m) \cap May = Voters(l) \cap May
       \/ Voters(m) \cap May = Wanted /\ Cardinality(Wanted) = Target

(* Voters of the last membership that the new one drops stop being         *)
(* members; only the node that is being removed may be dropped.            *)
LEMMA ReplacedFollows ==
  ASSUME ControlInv, MembersOK, VotersOK, NEW e \in Positions, NEW goal,
         goal \subseteq Members(Mem(e)), goal \subseteq ActiveNodes,
         VotersAt(e) \subseteq goal,
         \/ goal \cap May = VotersAt(e)
         \/ goal \cap May = Wanted /\ Cardinality(Wanted) = Target
  PROVE  Follows(ReplaceVoters(Mem(e), goal), Mem(e))
  <1> DEFINE l == Mem(e)
             m == ReplaceVoters(l, goal)
  <1>0. ControlTyped /\ TransitionOK /\ IsMembership(l)
    BY MemIs DEF ControlInv, Typed
  <1>1. /\ LastConfig(m) = goal /\ Voters(m) \in {goal, LastConfig(l) \cup goal}
        /\ Members(m) = Members(l) \ (Voters(l) \ Voters(m))
        /\ \A k \in Members(m) : m.addr[k] = l.addr[k]
    BY <1>0, ReplaceVotersIs
  <1>2. /\ Voters(l) \subseteq ActiveNodes /\ LastConfig(l) \cap May = VotersAt(e)
        /\ VotersAt(e) = Voters(l) \cap May
    BY DEF VotersOK, VotersAt
  <1>3. LastConfig(l) \subseteq Voters(l)
    BY <1>0, LastConfigVotes
  <1> HIDE DEF m, l
  <1>4. Voters(m) \subseteq ActiveNodes
    BY <1>1, <1>2, <1>3
  <1>5. Voters(m) \cap May = goal \cap May
    BY <1>1, <1>2
  <1>6. \A k \in Voters(l) \ Voters(m) : Transitioning(k) /\ Kind = "REMOVE" /\ ~Joining(k)
    <2> SUFFICES ASSUME NEW k \in Voters(l) \ Voters(m)
                 PROVE  Transitioning(k) /\ Kind = "REMOVE" /\ ~Joining(k)
      OBVIOUS
    <2>1. k \in ActiveNodes /\ k \notin May
      BY <1>1, <1>2
    <2>2. Kind = "REMOVE" /\ k = transition.node_id
      BY <2>1 DEF May
    <2> QED BY <2>2 DEF Transitioning, Kind, Joining
  <1>7. \A k \in Members(l) : k \in Admitted /\ l.addr[k] = nodes[k].peer_address
    BY DEF MembersOK, l
  <1>8. \A k \in Admitted \ Members(l) : Joining(k) \/ (Transitioning(k) /\ Kind = "REMOVE")
    BY DEF MembersOK, l
  <1>9. \A k \in Members(m) : k \in Admitted /\ m.addr[k] = nodes[k].peer_address
    BY <1>1, <1>7
  <1>10. \A k \in Admitted \ Members(m) : Joining(k) \/ (Transitioning(k) /\ Kind = "REMOVE")
    BY <1>1, <1>6, <1>8
  <1>11. Follows(m, l)
    BY <1>1, <1>2, <1>4, <1>5, <1>6, <1>9, <1>10 DEF Follows
  <1> QED BY <1>11 DEF m, l

LEMMA RaftStepFollows ==
  ASSUME ControlInv, MembersOK, VotersOK, NEW e \in Positions, Effective = Mem(e),
         NEW m, RaftStep(m)
  PROVE  Follows(m, Mem(e))
  <1> DEFINE l == Mem(e)
             n == transition.node_id
  <1>0. Typed /\ ControlTyped /\ TransitionOK /\ IsMembership(l)
    BY MemIs DEF ControlInv, Typed
  <1>1. /\ \A k \in Members(l) : k \in Admitted /\ l.addr[k] = nodes[k].peer_address
        /\ \A k \in Admitted \ Members(l) : Joining(k) \/ (Transitioning(k) /\ Kind = "REMOVE")
    BY DEF MembersOK
  <1>2. /\ Voters(l) \subseteq ActiveNodes /\ LastConfig(l) \cap May = Voters(l) \cap May
        /\ VotersAt(e) = Voters(l) \cap May /\ LastConfig(l) \subseteq Voters(l)
        /\ Voters(l) \subseteq Members(l)
    BY <1>0, LastConfigVotes DEF VotersOK, VotersAt, IsMembership
  <1>3. CASE CatchesUp(m)
    <2>1. /\ transition # None /\ n \in Nodes /\ n \in Admitted /\ Joining(n)
          /\ m = AddMember(l, n, nodes[n].peer_address)
      BY <1>0, <1>3, TransitionIs DEF CatchesUp, Kind, TransitionOK, Joining, Transitioning
    <2>2. /\ Members(m) = Members(l) \cup {n}
          /\ Voters(m) = Voters(l) /\ LastConfig(m) = LastConfig(l)
          /\ \A k \in Members(l) : m.addr[k] = l.addr[k]
          /\ n \notin Members(l) => m.addr[n] = nodes[n].peer_address
      BY <1>0, <2>1, AddMemberIs
    <2> HIDE DEF l, n
    <2>3. Follows(m, l)
      BY <1>1, <1>2, <2>1, <2>2 DEF Follows
    <2> QED BY <2>3 DEF l
  <1>4. CASE Revotes(m)
    <2>1. transition # None
      BY <1>4 DEF Revotes, VotersMayChange, Kind
    <2>2. Eligible = May /\ Desired = Wanted /\ AtMost(Cardinality(Eligible), VoterTarget) = Target
      BY <1>0, <2>1, DesiredIsWanted
    <2>3. /\ Cardinality(Wanted) = Target /\ Wanted \subseteq Members(l)
          /\ m = ReplaceVoters(l, Wanted)
      BY <1>4, <2>2 DEF Revotes, VotersMayChange
    <2>4. Wanted \subseteq May /\ VotersAt(0) \subseteq Wanted
      BY DEF Wanted, VotersAt
    <2>5. VotersAt(e) \subseteq Wanted
      BY <2>4 DEF VotersOK
    <2>6. Wanted \subseteq ActiveNodes /\ Wanted \cap May = Wanted
      BY <1>0, <2>4, MayIs
    <2> QED BY <2>3, <2>5, <2>6, ReplacedFollows
  <1>5. CASE Settles(m)
    <2>1. m = ReplaceVoters(l, LastConfig(l))
      BY <1>5 DEF Settles
    <2>2. /\ LastConfig(l) \subseteq Members(l) /\ LastConfig(l) \subseteq ActiveNodes
          /\ VotersAt(e) \subseteq LastConfig(l) /\ LastConfig(l) \cap May = VotersAt(e)
      BY <1>2
    <2> QED BY <2>1, <2>2, ReplacedFollows
  <1>6. CASE Drops(m)
    <2>1. /\ Kind = "REMOVE" /\ transition # None /\ n \notin Voters(l) /\ m = RemoveMember(l, n)
      BY <1>6 DEF Drops, Kind
    <2>2. /\ Members(m) = Members(l) \ {n}
          /\ Voters(m) = Voters(l) /\ LastConfig(m) = LastConfig(l)
          /\ \A k \in Members(m) : m.addr[k] = l.addr[k]
      BY <1>0, <2>1, RemoveMemberIs
    <2>3. Transitioning(n) /\ \A k : ~Joining(k)
      BY <2>1 DEF Transitioning, Joining
    <2> HIDE DEF l, n
    <2>4. Follows(m, l)
      BY <1>1, <1>2, <2>1, <2>2, <2>3 DEF Follows
    <2> QED BY <2>4 DEF l
  <1> QED BY <1>3, <1>4, <1>5, <1>6 DEF RaftStep

LEMMA AppendedElectors ==
  ASSUME ControlInv, MembersOK, VotersOK,
         NEW e \in Positions, \A j \in Positions : j <= e,
         NEW m, Follows(m, Mem(e)), NEW p, p \in Nat, \A i \in Positions : i < p,
         Positions' = Positions \cup {p}, Mem(p)' = m,
         \A i \in Positions : Mem(i)' = Mem(i),
         UNCHANGED <<nodes, used_node_ids, transition, placement, applied>>
  PROVE  MembersOK' /\ VotersOK'
  <1>0. /\ Admitted' = Admitted /\ Kind' = Kind /\ ActiveNodes' = ActiveNodes
        /\ \A n : Transitioning(n)' = Transitioning(n)
    BY DEF Admitted, Kind, ActiveNodes, Active, Transitioning
  <1>1. /\ May' = May /\ Target' = Target /\ \A n : Joining(n)' = Joining(n)
    <2>1. \A n : Joining(n)' = Joining(n)
      BY <1>0 DEF Joining
    <2>2. May' = May
      BY <1>0 DEF May
    <2> QED BY <2>1, <2>2 DEF Target
  <1>2. /\ \A i \in Positions : /\ Members(Mem(i))' = Members(Mem(i))
                                /\ Voters(Mem(i))' = Voters(Mem(i))
                                /\ LastConfig(Mem(i))' = LastConfig(Mem(i))
                                /\ Mem(i).addr' = Mem(i).addr
                                /\ VotersAt(i)' = VotersAt(i)
        /\ Members(Mem(p))' = Members(m) /\ Voters(Mem(p))' = Voters(m)
        /\ LastConfig(Mem(p))' = LastConfig(m) /\ Mem(p).addr' = m.addr
        /\ VotersAt(p)' = Voters(m) \cap May
    BY <1>1 DEF Members, Voters, LastConfig, VotersAt
  <1>3. /\ 0 \in Positions /\ VotersAt(e) = Voters(Mem(e)) \cap May
        /\ \A i \in Positions : i \in Nat
    BY MemIs DEF ControlInv, VotersAt
  <1>4. Wanted' = Wanted /\ VotersAt(0)' = VotersAt(0)
    <2>1. VotersAt(0)' = VotersAt(0)
      BY <1>2, <1>3
    <2> QED BY <1>1, <2>1 DEF Wanted
  <1>5. MembersOK'
    <2>1. ASSUME NEW i \in Positions', NEW n \in Members(Mem(i))'
          PROVE  n \in Admitted' /\ (Mem(i).addr[n])' = nodes'[n].peer_address
      <3>1. CASE i = p
        BY <1>0, <1>2, <2>1, <3>1 DEF Follows
      <3>2. CASE i \in Positions
        BY <1>0, <1>2, <2>1, <3>2 DEF MembersOK
      <3> QED BY <3>1, <3>2
    <2>2. ASSUME NEW i \in Positions', NEW n \in Admitted' \ Members(Mem(i))'
          PROVE  Joining(n)' \/ (Transitioning(n)' /\ Kind' = "REMOVE")
      <3>1. CASE i = p
        BY <1>0, <1>1, <1>2, <2>2, <3>1 DEF Follows
      <3>2. CASE i \in Positions
        BY <1>0, <1>1, <1>2, <2>2, <3>2 DEF MembersOK
      <3> QED BY <3>1, <3>2
    <2>3. ASSUME NEW i \in Positions', NEW j \in Positions', i <= j
          PROVE  /\ \A n \in Members(Mem(j))' \ Members(Mem(i))' : Joining(n)'
                 /\ \A n \in Members(Mem(i))' \ Members(Mem(j))' : ~Joining(n)'
      <3>1. CASE i \in Positions /\ j \in Positions
        BY <1>1, <1>2, <2>3, <3>1 DEF MembersOK
      <3>2. CASE i \in Positions /\ j = p
        <4>1. /\ \A n \in Members(Mem(e)) \ Members(Mem(i)) : Joining(n)
              /\ \A n \in Members(Mem(i)) \ Members(Mem(e)) : ~Joining(n)
          BY <3>2 DEF MembersOK
        <4>2. /\ \A n \in Members(m) \ Members(Mem(e)) : Joining(n)
              /\ \A n \in Members(Mem(e)) \ Members(m) : ~Joining(n)
          BY DEF Follows
        <4> QED BY <1>1, <1>2, <3>2, <4>1, <4>2
      <3>3. CASE i = p
        <4>1. j = p
          BY <1>3, <2>3, <3>3
        <4> QED BY <3>3, <4>1
      <3> QED BY <3>1, <3>2, <3>3
    <2> QED BY <2>1, <2>2, <2>3 DEF MembersOK
  <1>6. VotersOK'
    <2>1. \A i \in Positions' : Voters(Mem(i))' \subseteq ActiveNodes'
      BY <1>0, <1>2 DEF VotersOK, Follows
    <2>2. \A i \in Positions' : LastConfig(Mem(i))' \cap May' = VotersAt(i)'
      BY <1>1, <1>2 DEF VotersOK, Follows
    <2>3. \A i \in Positions' : \/ VotersAt(i)' = VotersAt(0)'
                                \/ VotersAt(i)' = Wanted' /\ Cardinality(Wanted') = Target'
      BY <1>1, <1>2, <1>3, <1>4 DEF VotersOK, Follows
    <2>4. ASSUME NEW i \in Positions', NEW j \in Positions', i <= j, VotersAt(i)' # VotersAt(0)'
          PROVE  VotersAt(j)' = VotersAt(i)'
      <3>1. CASE i \in Positions /\ j \in Positions
        BY <1>2, <1>4, <2>4, <3>1 DEF VotersOK
      <3>2. CASE i \in Positions /\ j = p
        <4>1. VotersAt(i) # VotersAt(0)
          BY <1>2, <1>4, <2>4, <3>2
        <4>2. VotersAt(e) = VotersAt(i) /\ VotersAt(i) = Wanted
          BY <3>2, <4>1 DEF VotersOK
        <4> QED BY <1>2, <1>3, <3>2, <4>2 DEF Follows
      <3>3. CASE i = p
        <4>1. j = p
          BY <1>3, <2>4, <3>3
        <4> QED BY <3>3, <4>1
      <3> QED BY <3>1, <3>2, <3>3
    <2>5. transition # None => Joining(transition.node_id)' = Joining(transition.node_id)
      BY <1>0 DEF Joining
    <2>6. Cardinality(VotersAt(0))' = Cardinality(VotersAt(0))
      BY <1>4
    <2> QED BY <1>0, <1>1, <2>1, <2>2, <2>3, <2>4, <2>5, <2>6 DEF VotersOK
  <1> QED BY <1>5, <1>6

(* Nothing changes but entries of the log that are no memberships.         *)
LEMMA QuietStep ==
  ASSUME MembershipInv, ControlInv', Positions' = Positions,
         \A i \in Positions : Mem(i)' = Mem(i),
         UNCHANGED <<nodes, used_node_ids, transition>>
  PROVE  MembershipInv'
  <1>0. /\ Admitted' = Admitted /\ Kind' = Kind /\ ActiveNodes' = ActiveNodes
        /\ \A n : Transitioning(n)' = Transitioning(n)
    BY DEF Admitted, Kind, ActiveNodes, Active, Transitioning
  <1>1. May' = May /\ \A n : Joining(n)' = Joining(n)
    <2>1. \A n : Joining(n)' = Joining(n)
      BY <1>0 DEF Joining
    <2> QED BY <1>0, <2>1 DEF May
  <1>2. \A i \in Positions : VotersAt(i)' = VotersAt(i)
    BY <1>1 DEF VotersAt, Voters
  <1>3. 0 \in Positions
    BY DEF Positions
  <1>4. VotersAt(0)' = VotersAt(0) /\ Target' = Target
    BY <1>1, <1>2, <1>3 DEF Target
  <1>5. Wanted' = Wanted
    BY <1>1, <1>4 DEF Wanted
  <1>6. GenesisOK => GenesisOK'
    BY <1>0, <1>1 DEF GenesisOK, CandidateAddress
  <1>7. MembersOK => MembersOK'
    BY <1>0, <1>1 DEF MembersOK, Members
  <1>8. transition # None => Joining(transition.node_id)' = Joining(transition.node_id)
    BY <1>0 DEF Joining
  <1>9. VotersOK => VotersOK'
    <2> SUFFICES ASSUME VotersOK PROVE VotersOK'
      OBVIOUS
    <2>1. \A i \in Positions' : /\ Voters(Mem(i))' \subseteq ActiveNodes'
                                /\ LastConfig(Mem(i))' \cap May' = VotersAt(i)'
      BY <1>0, <1>1, <1>2 DEF VotersOK, Voters, LastConfig
    <2>2. \A i \in Positions' : \/ VotersAt(i)' = VotersAt(0)'
                                \/ VotersAt(i)' = Wanted' /\ Cardinality(Wanted') = Target'
      BY <1>2, <1>4, <1>5 DEF VotersOK
    <2>3. \A i, j \in Positions' :
            i <= j /\ VotersAt(i)' # VotersAt(0)' => VotersAt(j)' = VotersAt(i)'
      BY <1>2, <1>4 DEF VotersOK
    <2>4. Cardinality(VotersAt(0))' = Cardinality(VotersAt(0))
      BY <1>4
    <2> QED BY <1>0, <1>4, <1>8, <2>1, <2>2, <2>3, <2>4 DEF VotersOK
  <1> QED BY <1>0, <1>6, <1>7, <1>9 DEF MembershipInv

(* The last ACTIVE node is never removed.                                  *)
LEMMA StaysActive ==
  ASSUME ControlInv, ControlStep, ActiveNodes # {}
  PROVE  ActiveNodes' # {}
  <1>0. ControlTyped /\ TransitionOK
    BY DEF ControlInv, Typed
  <1>1. ASSUME Admitted \subseteq Admitted', \A k \in ActiveNodes : nodes'[k].state = "ACTIVE"
        PROVE  ActiveNodes' # {}
    <2>1. ActiveNodes \subseteq ActiveNodes'
      BY <1>1 DEF ActiveNodes, Active
    <2> QED BY <2>1
  <1>2. \A k \in ActiveNodes : k \in Admitted /\ nodes[k].state = "ACTIVE"
    BY DEF ActiveNodes, Active
  <1>3. CASE nodes' = nodes
    BY <1>1, <1>2, <1>3 DEF Admitted
  <1>4. ASSUME NEW d \in Candidates, Adds(d) PROVE ActiveNodes' # {}
    <2>1. /\ Admitted' = Admitted \cup {d.node_id} /\ d.node_id \notin Admitted
          /\ \A k \in Admitted' : nodes'[k] = IF k = d.node_id THEN d ELSE nodes[k]
      BY <1>0, <1>4 DEF Adds, Admitted, AddAccepted, TransitionOK
    <2> QED BY <1>1, <1>2, <2>1
  <1>5. ASSUME NEW n, Activates(n) PROVE ActiveNodes' # {}
    <2>1. Admitted' = Admitted /\ \A k \in Admitted : nodes[k].state = "ACTIVE" => nodes'[k].state = "ACTIVE"
      BY <1>0, <1>5 DEF Activates, ControlTyped, Admitted, Descriptors
    <2> QED BY <1>1, <1>2, <2>1
  <1>6. CASE Removes
    <2>1. /\ Kind = "REMOVE" /\ Admitted' = Admitted \ {transition.node_id}
          /\ \A k \in Admitted' : nodes'[k] = nodes[k]
      BY <1>6 DEF Removes, CompleteRemove, Ready, Kind, Admitted
    <2>2. PICK k \in ActiveNodes : k # transition.node_id
      BY <1>0, <2>1 DEF TransitionOK
    <2>3. k \in ActiveNodes'
      BY <1>2, <2>1, <2>2 DEF ActiveNodes, Active
    <2> QED BY <2>3
  <1>7. CASE Reweights
    <2>1. Admitted' = Admitted /\ \A k \in Admitted : nodes'[k].state = nodes[k].state
      BY <1>0, <1>7 DEF Reweights, CompleteReweight, ControlTyped, Admitted, Descriptors
    <2> QED BY <1>1, <1>2, <2>1
  <1>8. ASSUME NEW n, NEW d, Rekeys(n, d) PROVE ActiveNodes' # {}
    <2>1. Admitted' = Admitted /\ \A k \in Admitted : nodes'[k].state = nodes[k].state
      BY <1>0, <1>8 DEF Rekeys, ControlTyped, Admitted
    <2> QED BY <1>1, <1>2, <2>1
  <1>9. \A kind, n, w : Starts(kind, n, w) => nodes' = nodes
    BY DEF Starts
  <1>10. (UNCHANGED control) \/ Closes => nodes' = nodes
    BY DEF Closes, control
  <1> QED BY <1>3, <1>4, <1>5, <1>6, <1>7, <1>8, <1>9, <1>10 DEF ControlStep

(* No coordinator changes the genesis membership.                          *)
LEMMA GenesisRaft ==
  ASSUME ControlInv, GenesisOK, ActiveNodes = {}, NEW l \in Positions, Effective = Mem(l),
         NEW m, RaftStep(m)
  PROVE  m = GenesisMembership
  <1>0. ControlTyped /\ TransitionOK
    BY DEF ControlInv, Typed
  <1>1. Effective = GenesisMembership
    BY DEF GenesisOK
  <1>2. transition # None => transition.node_id = Genesis /\ Kind = "ADD"
    <2> SUFFICES ASSUME transition # None PROVE transition.node_id = Genesis /\ Kind = "ADD"
      OBVIOUS
    <2>1. transition.node_id = Genesis /\ Genesis \in Admitted
      BY <1>0 DEF TransitionOK, GenesisOK
    <2> QED BY <2>1 DEF GenesisOK, Joining
  <1>3. CASE CatchesUp(m)
    <2>1. transition # None /\ transition.node_id = Genesis
      BY <1>2, <1>3 DEF CatchesUp, Kind
    <2>2. Genesis \in Nodes
      BY MembershipConstants
    <2>3. m = AddMember(GenesisMembership, Genesis, nodes[Genesis].peer_address)
      BY <1>1, <1>3, <2>1 DEF CatchesUp
    <2> QED BY <2>2, <2>3, GenesisIs, AddMemberIs
  <1>4. ~Revotes(m) /\ ~Drops(m)
    BY <1>2 DEF Revotes, VotersMayChange, Drops, Kind, ActiveNodes, Active
  <1>5. ~Settles(m)
    BY <1>1, GenesisIs DEF Settles
  <1> QED BY <1>3, <1>4, <1>5 DEF RaftStep

(***************************************************************************)
(* The invariant, and what follows from it.                                *)
(***************************************************************************)
LEMMA MembershipNext ==
  ASSUME MembershipInv, [Next]_vars
  PROVE  MembershipInv'
  <1>0. ControlInv /\ Typed /\ ControlInv' /\ 0 \in Positions
    BY ControlNext, MemIs DEF MembershipInv, ControlInv
  <1>1. CASE Apply
    <2>1. PICK op : /\ Applying(op)
                    /\ membership' = IF op = "raft" THEN log[1].membership ELSE membership
                    /\ op = "raft" => UNCHANGED control
                    /\ ControlStep
      BY <1>0, <1>1, ApplySteps
    <2>2. Shifts /\ Before(0) \in {0, 1} /\ (Before(0) = 1 => UNCHANGED control)
      <3>1. 0 \in Positions'
        BY DEF Positions
      <3> QED BY <1>0, <2>1, <3>1, PositionsApplied DEF Shifts
    <2>3. CASE ActiveNodes = {}
      <3>1. \/ ActiveNodes' = {} /\ GenesisOK'
            \/ ActiveNodes' # {} /\ MembersOK' /\ VotersOK'
        BY <1>0, <2>1, <2>2, <2>3, GenesisStep DEF MembershipInv
      <3> QED BY <1>0, <3>1 DEF MembershipInv
    <2>4. CASE ActiveNodes # {}
      <3>1. MembersOK' /\ VotersOK'
        BY <1>0, <2>1, <2>2, <2>4, ElectorsStep DEF MembershipInv
      <3>2. ActiveNodes' # {}
        BY <1>0, <2>1, <2>4, StaysActive
      <3> QED BY <1>0, <3>1, <3>2 DEF MembershipInv
    <2> QED BY <2>3, <2>4
  <1>2. CASE Submit
    <2>1. PICK e : Append1(e) /\ IsEntry(e) /\ (e.op = "raft" => RaftStep(e.membership))
      BY <1>0, <1>2, SubmitSteps
    <2>2. /\ UNCHANGED <<membership, nodes, used_node_ids, transition, placement, applied>>
          /\ Len(log) \in Nat
      BY <1>0, <2>1, LogAppended
    <2>3. PICK p : p = Len(log) + 1
      OBVIOUS
    <2>4. /\ \A i \in Positions : Mem(i)' = Mem(i) /\ i < p
          /\ e.op # "raft" => Positions' = Positions
          /\ e.op = "raft" => Positions' = Positions \cup {p} /\ Mem(p)' = e.membership
      BY <1>0, <2>1, <2>2, <2>3, PositionsAppended
    <2>5. ActiveNodes' = ActiveNodes
      BY <2>2 DEF ActiveNodes, Active, Admitted
    <2>6. CASE e.op # "raft"
      BY <1>0, <2>2, <2>4, <2>6, QuietStep
    <2>7. CASE e.op = "raft"
      <3>1. PICK l \in Positions : Effective = Mem(l) /\ \A j \in Positions : j <= l
        BY <1>0, EffectiveIsLast
      <3>2. CASE ActiveNodes = {}
        <4>1. GenesisOK
          BY <3>2 DEF MembershipInv
        <4>2. e.membership = GenesisMembership
          BY <1>0, <2>1, <2>7, <3>1, <3>2, <4>1, GenesisRaft
        <4>3. GenesisOK'
          BY <2>2, <2>4, <2>7, <4>1, <4>2 DEF GenesisOK, Admitted, Joining, Transitioning, Kind,
                                              CandidateAddress
        <4> QED BY <1>0, <2>5, <3>2, <4>3 DEF MembershipInv
      <3>3. CASE ActiveNodes # {}
        <4>1. MembersOK /\ VotersOK
          BY <3>3 DEF MembershipInv
        <4>2. Follows(e.membership, Mem(l))
          BY <1>0, <2>1, <2>7, <3>1, <4>1, RaftStepFollows
        <4>3. MembersOK' /\ VotersOK'
          BY <1>0, <2>2, <2>3, <2>4, <2>7, <3>1, <4>1, <4>2, AppendedElectors
        <4> QED BY <1>0, <2>5, <3>3, <4>3 DEF MembershipInv
      <3> QED BY <3>2, <3>3
    <2> QED BY <2>6, <2>7
  <1>3. CASE UNCHANGED vars
    <2>1. UNCHANGED <<membership, nodes, used_node_ids, transition, placement, applied, log>>
      BY <1>3 DEF vars, control
    <2>2. Positions' = Positions /\ \A i \in Positions : Mem(i)' = Mem(i)
      BY <2>1 DEF Positions, Mem
    <2> QED BY <1>0, <2>1, <2>2, QuietStep
  <1> QED BY <1>1, <1>2, <1>3 DEF Next

LEMMA MembershipInit == Init => MembershipInv
  BY InitControl DEF MembershipInv

LEMMA InvariantLoads == MembershipInv => RestartSafe
  <1> SUFFICES ASSUME MembershipInv, ActiveNodes # {}
               PROVE  validate_cluster_membership
    BY DEF RestartSafe
  <1>0. Typed /\ ControlTyped /\ TransitionOK /\ MembersOK /\ VotersOK
    BY DEF MembershipInv, ControlInv, Typed
  <1>1. Admitted # {}
    BY DEF ActiveNodes
  <1>2. 0 \in Positions /\ Mem(0) = membership
    BY <1>0, MemIs
  <1>3. \A n \in Members(membership) : n \in Admitted /\ nodes[n].peer_address = membership.addr[n]
    BY <1>0, <1>2 DEF MembersOK
  <1>4. ASSUME NEW n \in Admitted
        PROVE  /\ nodes[n].node_id = n /\ n \in used_node_ids
               /\ \/ n \in Members(membership)
                  \/ Transitioning(n) /\ Kind = "ADD" /\ nodes[n].state = "JOINING"
                  \/ Transitioning(n) /\ Kind = "REMOVE" /\ nodes[n].state = "ACTIVE"
               /\ nodes[n].state = "JOINING" => Transitioning(n) /\ Kind = "ADD"
    <2>1. nodes[n].node_id = n /\ nodes[n].state \in {"JOINING", "ACTIVE"}
      BY <1>0 DEF ControlTyped, ValidDescriptor
    <2>2. n \in used_node_ids /\ (nodes[n].state = "JOINING" => Transitioning(n) /\ Kind = "ADD")
      BY <1>0 DEF TransitionOK
    <2>3. n \in Members(membership) \/ Joining(n) \/ (Transitioning(n) /\ Kind = "REMOVE")
      BY <1>0, <1>2 DEF MembersOK
    <2> QED BY <2>1, <2>2, <2>3 DEF Joining
  <1>5. \/ Kind = "REMOVE"
        \/ Kind = "ADD" /\ nodes[transition.node_id].state = "ACTIVE"
        \/ validate_fixed_voters(membership)
    <2> SUFFICES ASSUME Kind # "REMOVE",
                        ~(Kind = "ADD" /\ nodes[transition.node_id].state = "ACTIVE")
                 PROVE  validate_fixed_voters(membership)
      OBVIOUS
    <2>1. May = ActiveNodes /\ Target = voter_target
      BY <1>0, MayIs
    <2>2. Cardinality(VotersAt(0)) = Target
      <3>1. CASE transition = None \/ Kind = "REWEIGHT"
        BY <1>0, <3>1 DEF VotersOK, Kind
      <3>2. CASE transition # None /\ Kind # "REWEIGHT"
        <4>1. Kind = "ADD" /\ transition.node_id \in Admitted
          BY <1>0, <3>2, TransitionIs DEF TransitionOK
        <4>2. Joining(transition.node_id)
          BY <1>0, <3>2, <4>1 DEF Joining, Transitioning, ControlTyped, ValidDescriptor
        <4> QED BY <1>0, <3>2, <4>2 DEF VotersOK
      <3> QED BY <3>1, <3>2
    <2>3. Voters(membership) \subseteq ActiveNodes
      BY <1>0, <1>2 DEF VotersOK
    <2>4. VotersAt(0) = Voters(membership)
      BY <1>2, <2>1, <2>3 DEF VotersAt
    <2> QED BY <2>1, <2>2, <2>3, <2>4 DEF validate_fixed_voters, validate_voters, ActiveNodes
  <1>6. transition # None => transition.node_id \in Admitted
    BY <1>0 DEF TransitionOK
  <1> QED BY <1>1, <1>3, <1>4, <1>5, <1>6 DEF validate_cluster_membership

LEMMA RemovedStep ==
  ASSUME MembershipInv, [Next]_vars, NEW n \in used_node_ids \ Admitted
  PROVE  n \notin Admitted' /\ n \notin Members(membership)'
  <1>0. ControlInv /\ Typed /\ ControlTyped /\ TransitionOK
    BY DEF MembershipInv, ControlInv, Typed
  <1>1. 0 \in Positions /\ Mem(0) = membership
    BY <1>0, MemIs
  <1>2. \A i \in Positions : n \notin Members(Mem(i))
    <2>1. ActiveNodes # {}
      BY DEF MembershipInv, GenesisOK
    <2> QED BY <2>1 DEF MembershipInv, MembersOK
  <1>3. CASE nodes' = nodes /\ membership' = membership
    BY <1>1, <1>2, <1>3 DEF Admitted, Members
  <1>4. CASE Apply
    <2>1. PICK op : /\ Applying(op)
                    /\ membership' = IF op = "raft" THEN log[1].membership ELSE membership
                    /\ ControlStep
      BY <1>0, <1>4, ApplySteps
    <2>2. n \notin Admitted'
      <3>1. ASSUME NEW d \in Candidates, Adds(d) PROVE n \notin Admitted'
        <4>1. Admitted' = Admitted \cup {d.node_id} /\ d.node_id \notin used_node_ids
          BY <3>1 DEF Adds, Admitted, AddAccepted
        <4> QED BY <4>1
      <3>2. ASSUME NEW k, Activates(k) PROVE n \notin Admitted'
        BY <3>2 DEF Activates, Admitted
      <3>3. CASE Removes
        BY <3>3 DEF Removes, CompleteRemove, Admitted
      <3>4. CASE Reweights
        BY <3>4 DEF Reweights, CompleteReweight, Admitted
      <3>5. ASSUME NEW k, NEW d, Rekeys(k, d) PROVE n \notin Admitted'
        BY <3>5 DEF Rekeys, Admitted
      <3>6. CASE nodes' = nodes
        BY <3>6 DEF Admitted
      <3>7. \A kind, k, w : Starts(kind, k, w) => nodes' = nodes
        BY DEF Starts
      <3>8. (UNCHANGED control) \/ Closes => nodes' = nodes
        BY DEF Closes, control
      <3> QED BY <2>1, <3>1, <3>2, <3>3, <3>4, <3>5, <3>6, <3>7, <3>8 DEF ControlStep
    <2>3. membership' \in {membership, Mem(1)} /\ (op = "raft" => 1 \in Positions)
      <3>1. Len(log) \in Nat \ {0} /\ log[1].op = op
        BY <1>0, <2>1, LogApplied
      <3> QED BY <2>1, <3>1 DEF Mem, Positions
    <2>4. membership' = membership \/ (1 \in Positions /\ membership' = Mem(1))
      BY <2>1, <2>3
    <2>5. n \notin Members(membership')
      BY <1>1, <1>2, <2>4
    <2> QED BY <2>2, <2>5 DEF Members
  <1>5. CASE Submit
    <2>1. PICK e : Append1(e)
      BY <1>0, <1>5, SubmitSteps
    <2> QED BY <1>3, <2>1 DEF Append1, control
  <1>6. CASE UNCHANGED vars
    BY <1>3, <1>6 DEF vars, control
  <1> QED BY <1>4, <1>5, <1>6 DEF Next

(* Once the cluster has an ACTIVE node, every state that the log leads to  *)
(* passes the validation of a restart or a snapshot, whatever memberships  *)
(* and commands coordinators put in the log on what they had seen applied. *)
THEOREM EveryRestartLoads == Spec => []RestartSafe
  <1>1. MembershipInv /\ [Next]_vars => MembershipInv'
    BY MembershipNext
  <1> QED BY <1>1, MembershipInit, InvariantLoads, PTL DEF Spec

(* No command and no membership change that is late in the log brings back *)
(* a node whose descriptor was removed.                                    *)
THEOREM RemovedStaysOut == Spec => RemovedNodeStaysOut
  <1>1. MembershipInv /\ [Next]_vars => MembershipInv'
    BY MembershipNext
  <1>2. MembershipInv /\ [Next]_vars =>
            [\A n \in used_node_ids \ Admitted :
                n \notin Admitted' /\ n \notin Members(membership)']_vars
    BY RemovedStep
  <1> QED BY <1>1, <1>2, MembershipInit, PTL DEF Spec, RemovedNodeStaysOut
=============================================================================
