---------------------------- MODULE JoinHandoff ----------------------------
(***************************************************************************)
(* The cutover that adds one node to the ACTIVE set: the mutation gate of  *)
(* every node (mutation_admission.rs), the handoff the Raft leader drives  *)
(* when the joining node calls Activate (join_peer/handoff.rs, join_peer.rs)*)
(* and the ordinary traffic that goes on around it.                        *)
(*                                                                         *)
(* One ADD transition is in progress throughout, so every drain carries    *)
(* the same identity and a gate is open or closed.  A write stands for one *)
(* object path of its own whose new replica set holds the joining node; it *)
(* enters at some node, is coordinated by the path's coordinator and       *)
(* copied to the other ACTIVE nodes.  The inside of replication is the     *)
(* subject of ObjectReplication, that of leases of ServingLease and that   *)
(* of program batches of AtomicPrograms; here each is what the handoff     *)
(* relies on.                                                              *)
(***************************************************************************)
EXTENDS Naturals, FiniteSets

CONSTANTS
    Active,       \* the old ACTIVE nodes
    Joiner,       \* the JOINING node
    Coordinator,  \* the ACTIVE node that coordinates the modelled paths
    Origins,      \* the nodes clients send mutations to
    Writes,       \* mutations clients may send, each on its own path
    NoLeader,     \* no Raft leader
    MaxTerm,      \* bound on elections
    MaxFaults     \* bound on restarts, cancelled calls and lost answers

ASSUME ActiveAssumption ==
    /\ Coordinator \in Active
    /\ Joiner \notin Active
    /\ NoLeader \notin Active
    /\ Origins \subseteq Active \cup {Joiner}
    /\ IsFiniteSet(Active) /\ Cardinality(Active) \in 1..3
    /\ "none" \notin Active \cup {Joiner}
    /\ MaxTerm \in Nat \ {0} /\ MaxFaults \in Nat

Nodes == Active \cup {Joiner}

VARIABLES
    leader,     \* the Raft leader, or NoLeader
    term,       \* its term
    elected,    \* the last term each ACTIVE node was elected in
    knows,      \* the leader each node believes in
    activated,  \* the ADD has been advanced in the replicated state
    placed,     \* the nodes that have applied that
    gate,       \* gate[n]: mutation admission of n is closed
    monitored,  \* nodes on which a transition monitor runs
    attempt,    \* attempt[n]: the handoff n is driving
    lease,      \* the serving lease the coordinator holds
    write,      \* progress of each write
    copied,     \* writes on the joining node
    stuck,      \* why a record of a source journal holds up the rest for good
    unbroken,   \* the activating leader kept its term since it began
    faults      \* faults so far

vars == <<leader, term, elected, knows, activated, placed, gate, monitored,
          attempt, lease, write, copied, stuck, unbroken, faults>>

raft == <<leader, term, elected, knows, activated, placed, unbroken>>
gates == <<gate, monitored>>

NoAttempt == [pc |-> "idle", todo |-> {}, closed |-> {}, sample |-> {},
              term |-> 0]
NewWrite == [pc |-> "idle", kind |-> "object", origin |-> "none",
             fence |-> "none", receiving |-> {}, stored |-> {},
             confirmed |-> {}]

(* The placement fence in the applied state of n. *)
FenceAt(n) == IF n \in placed THEN "new" ELSE "old"

(* Replica groups of one, two and three nodes need one, two and two. *)
quorum(count) == IF count = 1 THEN 1 ELSE 2

---------------------------------------------------------------------------
(* The mutation gate *)

(* Permits counted by the gate of n: public calls that entered there,      *)
(* calls it coordinates, and replica applications it is serving.           *)
Coordinating(w) == write[w].pc \in {"admitted", "prepared", "replicating"}
Permits(n) ==
    {w \in Writes :
        \/ write[w].origin = n
        \/ n = Coordinator /\ Coordinating(w)
        \/ n \in write[w].receiving}

(* The monitor releases a drain once its node applied the activation. *)
MonitorReleases(n) ==
    /\ n \in monitored
    /\ n \in placed
    /\ gate' = [gate EXCEPT ![n] = FALSE]
    /\ monitored' = monitored \ {n}
    /\ UNCHANGED <<raft, stuck, attempt, lease, write, copied, faults>>

---------------------------------------------------------------------------
(* The source journals of the old nodes *)

(* Only the node that coordinates a mutation journals it. *)
JournalTails == {w \in Writes : Coordinator \in write[w].stored}

(* A record settles when a quorum holds its proof. *)
Unsettled(w) ==
    /\ w \in JournalTails
    /\ Cardinality(write[w].stored) < quorum(Cardinality(Active))

(* settled_through has reached the tail of every journal. *)
Settled == stuck # "unsettled" /\ \A w \in Writes : ~Unsettled(w)

(* Other traffic, admitted while the gate is open, leaves a record behind  *)
(* that can never settle (Overtaken of ObjectReplication) or whose effects *)
(* some destination can never apply (Undeliverable of ReferenceDelivery).  *)
(* Settlement and delivery both go strictly in journal order, so nothing   *)
(* after it settles, or is delivered.  What becomes of the journals after  *)
(* the activation is no longer the handoff's.                              *)
Strand(why) ==
    /\ stuck = "none" /\ ~activated /\ ~gate[Coordinator]
    /\ stuck' = why
    /\ UNCHANGED <<raft, gates, attempt, lease, write, copied, faults>>

---------------------------------------------------------------------------
(* Writes *)

(* The call of w ends: the permits taken where it entered and where it was *)
(* coordinated are dropped.                                                *)
Answer(w, outcome) ==
    write' = [write EXCEPT ![w].pc = outcome, ![w].origin = "none",
                           ![w].confirmed = {}]

(* A public mutation enters at node x, whose gate must be open. *)
Enter(w, x, kind) ==
    /\ write[w].pc = "idle"
    /\ ~gate[x]
    /\ write' = [write EXCEPT ![w].pc = "entered", ![w].kind = kind,
                              ![w].origin = x]
    /\ UNCHANGED <<raft, stuck, gates, attempt, lease, copied, faults>>

(* The coordinator takes it up.  An object mutation enters the gate again  *)
(* there and is refused when it has closed meanwhile; an invocation is a   *)
(* continuation and only counted.                                          *)
Admit(w) ==
    /\ write[w].pc = "entered"
    /\ \/ /\ write[w].kind = "program" \/ ~gate[Coordinator]
          /\ write' = [write EXCEPT ![w].pc = "admitted"]
       \/ /\ write[w].kind = "object" /\ gate[Coordinator]
          /\ Answer(w, "failed")
    /\ UNCHANGED <<raft, stuck, gates, attempt, lease, copied, faults>>

(* Mutant: the commit gate is taken before the drain. *)
GateBeforeDrain(n) == attempt[n].pc \notin {"idle", "releasing", "precopied"}

(* The commit gate of n is held from quiescence to the end of its permit. *)
CommitGateHeld(n) ==
    attempt[n].pc \in {"paused", "waited", "sampled", "delivered",
                       "transferred", "checked", "permitted", "opening"}

(* What was committed before a node had a log entry of its own committed,  *)
(* or its leadership confirmed, is applied there.                          *)
CaughtUp(n) == activated => n \in placed

(* An object mutation takes its fence from a valid lease and fails without *)
(* one, or if it cannot reconcile its path; an invocation waits for the    *)
(* commit gate, has its decision committed and takes the fence after it.   *)
Capture(w) ==
    /\ write[w].pc = "admitted"
    /\ \/ /\ CASE write[w].kind = "object" ->
                  lease = FenceAt(Coordinator)
               [] write[w].kind = "program" ->
                  ~CommitGateHeld(Coordinator) /\ CaughtUp(Coordinator)
          /\ write' = [write EXCEPT ![w].pc = "prepared",
                                    ![w].fence = FenceAt(Coordinator)]
       \/ /\ write[w].kind = "object"
          /\ Answer(w, "failed")
    /\ UNCHANGED <<raft, stuck, gates, attempt, lease, copied, faults>>

(* The coordinator writes locally, under the fence it captured. *)
StoreLocal(w) ==
    /\ write[w].pc = "prepared"
    /\ write' = [write EXCEPT ![w].pc = "replicating",
                              ![w].stored = @ \cup {Coordinator},
                              ![w].confirmed = {Coordinator}]
    /\ UNCHANGED <<raft, stuck, gates, attempt, lease, copied, faults>>

(* A replica admits the continuation if its own fence is the write's. *)
Receive(w, b) ==
    /\ write[w].pc = "replicating"
    /\ b \in Active \ (write[w].receiving \cup write[w].stored)
    /\ write[w].fence = FenceAt(b)
    /\ write' = [write EXCEPT ![w].receiving = @ \cup {b}]
    /\ UNCHANGED <<raft, stuck, gates, attempt, lease, copied, faults>>

(* It checks the fence, applies, and checks again before it confirms; with *)
(* the fence moved it may have stopped at either check.                    *)
ApplyReplica(w, b) ==
    /\ b \in write[w].receiving
    /\ \/ write' = [write EXCEPT
                      ![w].receiving = @ \ {b},
                      ![w].stored = @ \cup {b},
                      ![w].confirmed = IF write[w].fence = FenceAt(b)
                                       THEN @ \cup {b} ELSE @]
       \/ /\ write[w].fence # FenceAt(b)
          /\ write' = [write EXCEPT ![w].receiving = @ \ {b}]
    /\ UNCHANGED <<raft, stuck, gates, attempt, lease, copied, faults>>

(* With a quorum the client, if it is still there, is answered. *)
Finish(w) ==
    /\ write[w].pc = "replicating"
    /\ Cardinality(write[w].confirmed) >= quorum(Cardinality(Active))
    /\ Answer(w, IF write[w].origin = "none" THEN "failed" ELSE "acked")
    /\ UNCHANGED <<raft, stuck, gates, attempt, lease, copied, faults>>

(* Without one the coordinator gives up; an application may be under way. *)
Abandon(w) ==
    /\ write[w].pc = "replicating"
    /\ Answer(w, "failed")
    /\ UNCHANGED <<raft, stuck, gates, attempt, lease, copied, faults>>

(* Mutant: a redrive is refused where the gate is closed. *)
RedriveRefused(w, b) ==
    /\ write[w].pc = "failed" /\ Unsettled(w)
    /\ ~gate[Coordinator] /\ ~gate[b]
    /\ b \in Active \ (write[w].receiving \cup write[w].stored)
    /\ write[w].fence = FenceAt(Coordinator) /\ write[w].fence = FenceAt(b)
    /\ write' = [write EXCEPT ![w].receiving = @ \cup {b}]
    /\ UNCHANGED <<raft, stuck, gates, attempt, lease, copied, faults>>

(* A record its call left below a quorum is sent again, by the delivery of *)
(* the coordinator's source journal or, of a program, by the executor:     *)
(* a continuation that passes closed gates and needs no lease.  The permit *)
(* it holds at the coordinator meanwhile only prolongs a drain.            *)
Redrive(w, b) ==
    /\ write[w].pc = "failed" /\ Unsettled(w)
    /\ b \in Active \ (write[w].receiving \cup write[w].stored)
    /\ write[w].fence = FenceAt(Coordinator) /\ write[w].fence = FenceAt(b)
    /\ write' = [write EXCEPT ![w].receiving = @ \cup {b}]
    /\ UNCHANGED <<raft, stuck, gates, attempt, lease, copied, faults>>

(* The client disconnects: the permit of its call is dropped where it      *)
(* entered, while the coordinator's completion task goes on.               *)
Cancel(w) ==
    /\ faults < MaxFaults
    /\ write[w].origin # "none"
    /\ write' = [write EXCEPT ![w].origin = "none"]
    /\ faults' = faults + 1
    /\ UNCHANGED <<raft, stuck, gates, attempt, lease, copied>>

---------------------------------------------------------------------------
(* Serving leases of the coordinator *)

GrantsPaused(n) == CommitGateHeld(n)

(* The leader, once confirmed, grants while no attempt of its own pauses   *)
(* it, to a node with its placement.                                       *)
Grants(n) ==
    /\ n = leader /\ CaughtUp(n)
    /\ ~GrantsPaused(n) /\ FenceAt(n) = FenceAt(Coordinator)

Grant(n) ==
    /\ Grants(n)
    /\ lease # FenceAt(n)
    /\ lease' = FenceAt(n)
    /\ UNCHANGED <<raft, stuck, gates, attempt, write, copied, faults>>

(* A lease that no leader renews runs out. *)
Expire ==
    /\ lease # "none"
    /\ \A n \in Active : ~Grants(n)
    /\ lease' = "none"
    /\ UNCHANGED <<raft, stuck, gates, attempt, write, copied, faults>>

---------------------------------------------------------------------------
(* The handoff of leader n *)

Move(n, pc) == attempt' = [attempt EXCEPT ![n].pc = pc]

(* An error or a cancellation drops the single-flight lock, the commit     *)
(* gate and the lease pause of the attempt, and leaves the drains as they  *)
(* are.                                                                    *)
Stop(n) == attempt' = [attempt EXCEPT ![n] = NoAttempt]

(* Leadership is confirmed by a proof that may be half a second old, so by *)
(* what n believes; the transition is the one in its applied state.        *)
require_current(n) == knows[n] = n /\ n \notin placed

(* A peer serves handoff calls of the leader it knows while, in its own    *)
(* applied state, the ADD has not been advanced.                           *)
validate_facts(n, m) == knows[m] = n /\ m \notin placed
Served(n) == \A m \in Nodes : validate_facts(n, m)

(* A release is accepted from the leader the peer knows, before and after  *)
(* activation.                                                             *)
validate_mutation_drain_release(n, m) == knows[m] = n

(* The joining node calls Activate at n.  It has one call outstanding, but *)
(* one it lost may still be running on another node.  A new leader has     *)
(* caught up with the commands of earlier terms before it can confirm its  *)
(* leadership.  A local drain of an earlier attempt is released with no    *)
(* await in between.                                                       *)
Begin(n) ==
    /\ attempt[n].pc = "idle"
    /\ require_current(n)
    /\ n = leader => CaughtUp(n)
    /\ \/ /\ \A m \in Active : attempt[m].pc = "idle"
          /\ UNCHANGED faults
       \/ /\ \E m \in Active : attempt[m].pc # "idle"
          /\ faults < MaxFaults
          /\ faults' = faults + 1
    /\ gate' = [gate EXCEPT ![n] = FALSE]
    /\ attempt' = [attempt EXCEPT ![n].pc = "releasing",
                                  ![n].todo = Nodes \ {n},
                                  ![n].term = elected[n]]
    /\ UNCHANGED <<raft, stuck, monitored, lease, write, copied>>

(* Then the drains of the other nodes. *)
ReleaseStale(n, m) ==
    /\ attempt[n].pc = "releasing"
    /\ m \in attempt[n].todo
    /\ \/ /\ validate_mutation_drain_release(n, m)
          /\ gate' = [gate EXCEPT ![m] = FALSE]
          /\ attempt' = [attempt EXCEPT ![n].todo = @ \ {m}]
       \/ /\ ~validate_mutation_drain_release(n, m)
          /\ Stop(n)
          /\ UNCHANGED gate
    /\ UNCHANGED <<raft, stuck, monitored, lease, write, copied, faults>>

(* What the quorum of the old replicas says of each path: two replicas     *)
(* that differ are settled in favour of the successor.                     *)
Selected ==
    {w \in Writes :
        \/ Cardinality(write[w].stored) >= quorum(Cardinality(Active))
        \/ Cardinality(Active) = 2 /\ write[w].stored # {}}

(* A first copy while traffic goes on. *)
PreCopy(n) ==
    /\ attempt[n].pc = "releasing"
    /\ attempt[n].todo = {}
    /\ \/ /\ Served(n)
          /\ copied' = Selected
          /\ Move(n, "precopied")
       \/ /\ ~Served(n)
          /\ Stop(n)
          /\ UNCHANGED copied
    /\ UNCHANGED <<raft, stuck, gates, lease, write, faults>>

(* The local gate closes at once, the others on request. *)
CloseLocal(n) ==
    /\ attempt[n].pc = "precopied"
    /\ \/ /\ require_current(n)
          /\ gate' = [gate EXCEPT ![n] = TRUE]
          /\ attempt' = [attempt EXCEPT ![n].pc = "closing",
                                        ![n].todo = Nodes,
                                        ![n].closed = {n}]
       \/ /\ ~require_current(n)
          /\ Stop(n)
          /\ UNCHANGED gate
    /\ UNCHANGED <<raft, stuck, monitored, lease, write, copied, faults>>

(* Mutant: the peer closes its gate without starting a monitor. *)
DrainUnmonitored(n, m) ==
    /\ attempt[n].pc = "closing"
    /\ m \in Nodes \ attempt[n].closed
    /\ \/ /\ validate_facts(n, m)
          /\ gate' = [gate EXCEPT ![m] = TRUE]
          /\ attempt' = [attempt EXCEPT ![n].closed = @ \cup {m}]
       \/ /\ ~validate_facts(n, m)
          /\ Stop(n)
          /\ UNCHANGED gate
    /\ UNCHANGED <<raft, stuck, monitored, lease, write, copied, faults>>

(* A peer closes its gate and starts a monitor for the transition. *)
drain_mutations(n, m) ==
    /\ attempt[n].pc = "closing"
    /\ m \in Nodes \ attempt[n].closed
    /\ \/ /\ validate_facts(n, m)
          /\ gate' = [gate EXCEPT ![m] = TRUE]
          /\ monitored' = monitored \cup {m}
          /\ attempt' = [attempt EXCEPT ![n].closed = @ \cup {m}]
       \/ /\ ~validate_facts(n, m)
          /\ Stop(n)
          /\ UNCHANGED gates
    /\ UNCHANGED <<raft, stuck, lease, write, copied, faults>>

(* It answers when it counts no permit. *)
wait_until_drained(n, m) ==
    /\ attempt[n].pc = "closing"
    /\ m \in attempt[n].closed \cap attempt[n].todo
    /\ Permits(m) = {}
    /\ attempt' = [attempt EXCEPT ![n].todo = @ \ {m}]
    /\ UNCHANGED <<raft, stuck, gates, lease, write, copied, faults>>

(* Every node drained: take the commit gate of programs, which an          *)
(* invocation between its decision and its end holds, and pause grants.    *)
QuiesceAndPause(n) ==
    /\ attempt[n].pc = "closing"
    /\ attempt[n].todo = {}
    /\ n = Coordinator =>
         \A w \in Writes : write[w].kind = "program" =>
            write[w].pc \notin {"prepared", "replicating"}
    /\ \/ /\ require_current(n)
          /\ Move(n, "paused")
       \/ /\ ~require_current(n)
          /\ Stop(n)
    /\ UNCHANGED <<raft, stuck, gates, lease, write, copied, faults>>

(* After the cutover wait no lease is left, unless another leader grants   *)
(* them (PauseDrainsLeases of ServingLease).                               *)
CutoverWait(n) ==
    /\ attempt[n].pc = "paused"
    /\ lease = "none" \/ n # leader
    /\ \/ require_current(n) /\ Move(n, "waited")
       \/ ~require_current(n) /\ Stop(n)
    /\ UNCHANGED <<raft, stuck, gates, lease, write, copied, faults>>

(* The final tails of the source journals are taken once all of them are   *)
(* settled.  Meanwhile the attempt waits, with the gates closed, as long   *)
(* as its leader and its transition stand.                                 *)
SampleTails(n) ==
    /\ attempt[n].pc = "waited"
    /\ \/ /\ Served(n) /\ Settled
          /\ attempt' = [attempt EXCEPT ![n].pc = "sampled",
                                        ![n].sample = JournalTails]
       \/ /\ ~Served(n)
          /\ Stop(n)
    /\ UNCHANGED <<raft, stuck, gates, lease, write, copied, faults>>

(* Then it waits until every old node has applied the reference effects of *)
(* every journal up to that tail, which delivery brings about unless it    *)
(* has come to a record it cannot pass.                                    *)
AwaitReferenceCursors(n) ==
    /\ attempt[n].pc = "sampled"
    /\ \/ Served(n) /\ stuck = "none" /\ Move(n, "delivered")
       \/ ~Served(n) /\ Stop(n)
    /\ UNCHANGED <<raft, stuck, gates, lease, write, copied, faults>>

(* The authoritative copy, after the sample. *)
FinalCopy(n) ==
    /\ attempt[n].pc = "delivered"
    /\ \/ /\ Served(n)
          /\ copied' = Selected
          /\ Move(n, "transferred")
       \/ /\ ~Served(n)
          /\ Stop(n)
          /\ UNCHANGED copied
    /\ UNCHANGED <<raft, stuck, gates, lease, write, faults>>

(* Nothing with an effect was journalled since the sample. *)
SuffixEmpty(n) == JournalTails = attempt[n].sample

(* The tails are taken again, once they are settled again: any mutation in *)
(* between ends the attempt.                                               *)
CheckSuffix(n) ==
    /\ attempt[n].pc = "transferred"
    /\ \/ Served(n) /\ Settled /\ SuffixEmpty(n) /\ Move(n, "checked")
       \/ ~Served(n) /\ Stop(n)
       \/ Served(n) /\ Settled /\ ~SuffixEmpty(n) /\ Stop(n)
    /\ UNCHANGED <<raft, stuck, gates, lease, write, copied, faults>>

(* The last look at leadership, and the bootstrap record of the joiner. *)
Permit(n) ==
    /\ attempt[n].pc = "checked"
    /\ \/ require_current(n) /\ validate_facts(n, Joiner)
          /\ Move(n, "permitted")
       \/ ~(require_current(n) /\ validate_facts(n, Joiner)) /\ Stop(n)
    /\ UNCHANGED <<raft, stuck, gates, lease, write, copied, faults>>

(* The activation is submitted; only a leader can have it committed.  The  *)
(* answer may be lost with the command committed all the same.             *)
Advance(n) ==
    /\ leader = n /\ ~activated
    /\ activated' = TRUE
    /\ placed' = placed \cup {n}
    /\ unbroken' = (attempt[n].term = term)

Activate(n) ==
    /\ attempt[n].pc = "permitted"
    /\ \/ /\ Advance(n)
          /\ attempt' = [attempt EXCEPT ![n].pc = "opening",
                                        ![n].todo = Nodes \ {n}]
          /\ UNCHANGED faults
       \/ /\ Advance(n)
          /\ faults < MaxFaults
          /\ faults' = faults + 1
          /\ Stop(n)
       \/ /\ leader # n \/ activated
          /\ Stop(n)
          /\ UNCHANGED <<activated, placed, unbroken, faults>>
    /\ UNCHANGED <<leader, term, elected, knows, gates, lease, write, copied,
                   stuck>>

(* The permit releases the remote drains and, all answered, its own; the   *)
(* first refusal leaves the rest closed.                                   *)
ReleaseRemote(n, m) ==
    /\ attempt[n].pc = "opening"
    /\ m \in attempt[n].todo
    /\ \/ /\ validate_mutation_drain_release(n, m)
          /\ gate' = [gate EXCEPT ![m] = FALSE]
          /\ attempt' = [attempt EXCEPT ![n].todo = @ \ {m}]
       \/ /\ ~validate_mutation_drain_release(n, m)
          /\ Stop(n)
          /\ UNCHANGED gate
    /\ UNCHANGED <<raft, stuck, monitored, lease, write, copied, faults>>

ReleaseLocal(n) ==
    /\ attempt[n].pc = "opening"
    /\ attempt[n].todo = {}
    /\ gate' = [gate EXCEPT ![n] = FALSE]
    /\ Stop(n)
    /\ UNCHANGED <<raft, stuck, monitored, lease, write, copied, faults>>

(* A call of the attempt fails, or its request is cancelled. *)
Fail(n) ==
    /\ faults < MaxFaults
    /\ attempt[n].pc # "idle"
    /\ Stop(n)
    /\ faults' = faults + 1
    /\ UNCHANGED <<raft, stuck, gates, lease, write, copied>>

---------------------------------------------------------------------------
(* Raft and restarts *)

(* A node is elected; the leader it replaces does not know yet. *)
Elect(n) ==
    /\ term < MaxTerm
    /\ n # leader
    /\ leader' = n
    /\ term' = term + 1
    /\ elected' = [elected EXCEPT ![n] = term + 1]
    /\ knows' = [knows EXCEPT ![n] = n]
    /\ UNCHANGED <<activated, placed, unbroken, gates, attempt, lease,
                   write, copied, stuck, faults>>

Learn(n) ==
    /\ leader # NoLeader
    /\ knows[n] # leader
    /\ knows' = [knows EXCEPT ![n] = leader]
    /\ UNCHANGED <<leader, term, elected, activated, placed, unbroken, gates,
                   attempt, lease, write, copied, stuck, faults>>

(* Mutant: a node applies the activation before it is committed. *)
ApplyEarly(n) ==
    /\ leader # NoLeader
    /\ n \notin placed
    /\ placed' = placed \cup {n}
    /\ UNCHANGED <<leader, term, elected, knows, activated, unbroken, gates,
                   attempt, lease, write, copied, stuck, faults>>

(* A node applies the committed activation. *)
ApplyActivation(n) ==
    /\ activated
    /\ n \notin placed
    /\ placed' = placed \cup {n}
    /\ UNCHANGED <<leader, term, elected, knows, activated, unbroken, gates,
                   attempt, lease, write, copied, stuck, faults>>

(* Mutant: every node restarts with an open gate. *)
RestartsOpen(n) == n \notin Nodes

(* A node other than the joining one restarts closed, with a monitor,      *)
(* while its applied state has the ADD before activation.                  *)
initial_mutation_admission(n) == n # Joiner /\ n \notin placed

(* What is left of a write when n restarts. *)
WriteAfterRestart(w, n) ==
    LET lost == n = Coordinator /\ Coordinating(w)
    IN  [write[w] EXCEPT
            !.pc = IF lost THEN "failed" ELSE @,
            !.origin = IF lost \/ @ = n THEN "none" ELSE @,
            !.confirmed = IF lost THEN {} ELSE @,
            !.receiving = @ \ {n}]

(* Permits, leases, attempts and monitors live in the process.  A drain    *)
(* call the node had not answered fails, and with the joining node its     *)
(* Activate call is gone.                                                  *)
Restart(n) ==
    /\ faults < MaxFaults
    /\ n = leader => term < MaxTerm
    /\ leader' = IF n = leader THEN NoLeader ELSE leader
    /\ knows' = [knows EXCEPT ![n] = NoLeader]
    /\ gate' = [gate EXCEPT ![n] = initial_mutation_admission(n)]
    /\ monitored' = IF initial_mutation_admission(n) THEN monitored \cup {n}
                    ELSE monitored \ {n}
    /\ attempt' = [m \in Active |->
                     IF \/ m = n \/ n = Joiner
                        \/ n \in attempt[m].closed \cap attempt[m].todo
                     THEN NoAttempt ELSE attempt[m]]
    /\ lease' = IF n = Coordinator THEN "none" ELSE lease
    /\ write' = [w \in Writes |-> WriteAfterRestart(w, n)]
    /\ faults' = faults + 1
    /\ UNCHANGED <<term, elected, activated, placed, copied, stuck, unbroken>>

---------------------------------------------------------------------------
(* The joining node is a caught-up learner and no attempt has run. *)
Init ==
    /\ leader = Coordinator
    /\ term = 1
    /\ elected = [n \in Active |-> IF n = leader THEN 1 ELSE 0]
    /\ knows = [n \in Nodes |-> leader]
    /\ activated = FALSE
    /\ placed = {}
    /\ gate = [n \in Nodes |-> FALSE]
    /\ monitored = {}
    /\ attempt = [n \in Active |-> NoAttempt]
    /\ lease = "old"
    /\ write = [w \in Writes |-> NewWrite]
    /\ copied = {}
    /\ stuck = "none"
    /\ unbroken = TRUE
    /\ faults = 0

WriteStep(w) ==
    \/ Admit(w) \/ Capture(w) \/ StoreLocal(w) \/ Finish(w) \/ Abandon(w)
    \/ \E b \in Active : Receive(w, b) \/ ApplyReplica(w, b) \/ Redrive(w, b)

HandoffStep(n) ==
    \/ Begin(n) \/ PreCopy(n) \/ CloseLocal(n) \/ QuiesceAndPause(n)
    \/ CutoverWait(n) \/ SampleTails(n) \/ AwaitReferenceCursors(n)
    \/ FinalCopy(n) \/ CheckSuffix(n) \/ Permit(n) \/ Activate(n)
    \/ ReleaseLocal(n)
    \/ \E m \in Nodes :
         \/ ReleaseStale(n, m) \/ drain_mutations(n, m)
         \/ wait_until_drained(n, m) \/ ReleaseRemote(n, m)

Next ==
    \/ \E w \in Writes : WriteStep(w) \/ Cancel(w)
    \/ \E w \in Writes, x \in Origins, kind \in {"object", "program"} :
         Enter(w, x, kind)
    \/ \E n \in Active : HandoffStep(n) \/ Fail(n) \/ Elect(n) \/ Grant(n)
    \/ Expire
    \/ \E why \in {"unsettled", "undelivered"} : Strand(why)
    \/ \E n \in Nodes : MonitorReleases(n) \/ Learn(n) \/ ApplyActivation(n)
                        \/ Restart(n)

Spec == Init /\ [][Next]_vars

(* What happens by itself: admitted work ends, records below a quorum are  *)
(* sent again, a missing leader is elected, its followers learn of it and  *)
(* apply what it commits, monitors tick.                                   *)
Background ==
    \/ \E w \in Writes :
         \/ Admit(w) \/ Capture(w) \/ StoreLocal(w) \/ Finish(w) \/ Abandon(w)
         \/ \E b \in Active : ApplyReplica(w, b) \/ Redrive(w, b)
    \/ \E n \in Active : leader = NoLeader /\ Elect(n)
    \/ \E n \in Nodes : MonitorReleases(n) \/ Learn(n) \/ ApplyActivation(n)

(* Each of these steps can happen only so often under the bounds, so one   *)
(* condition serves them all.  The joining node keeps calling Activate and *)
(* calls are answered; a lease nobody renews runs out.  Clients, grants,   *)
(* a call's own deliveries, faults, stuck records and other elections are  *)
(* free.                                                                   *)
Fairness ==
    /\ WF_vars(Background)
    /\ \A n \in Active : WF_vars(HandoffStep(n))
    /\ WF_vars(Expire)

FairSpec == Spec /\ Fairness

---------------------------------------------------------------------------
Phases == {"idle", "releasing", "precopied", "closing", "paused", "waited",
           "sampled", "delivered", "transferred", "checked", "permitted",
           "opening"}

(* Every variable keeps its type, and no node has applied an activation    *)
(* that the leader has not committed.                                      *)
TypeOK ==
    /\ leader \in Active \cup {NoLeader}
    /\ term \in 1..MaxTerm
    /\ elected \in [Active -> 0..MaxTerm]
    /\ knows \in [Nodes -> Active \cup {NoLeader}]
    /\ activated \in BOOLEAN /\ unbroken \in BOOLEAN
    /\ placed \subseteq (IF activated THEN Nodes ELSE {})
    /\ monitored \subseteq Nodes
    /\ gate \in [Nodes -> BOOLEAN]
    /\ attempt \in [Active -> [pc : Phases, todo : SUBSET Nodes,
                               closed : SUBSET Nodes,
                               sample : SUBSET Writes,
                               term : 0..MaxTerm]]
    /\ lease \in {"none", "old", "new"}
    /\ write \in [Writes -> [pc : {"idle", "entered", "admitted", "prepared",
                                   "replicating", "acked", "failed"},
                             kind : {"object", "program"},
                             origin : Nodes \cup {"none"},
                             fence : {"none", "old", "new"},
                             receiving : SUBSET Active,
                             stored : SUBSET Active,
                             confirmed : SUBSET Active]]
    /\ copied \subseteq Writes
    /\ stuck \in {"none", "unsettled", "undelivered"}
    /\ faults \in 0..MaxFaults

(* Activation leaves nothing behind: every mutation a client was told of   *)
(* under the old placement is on the joining node, whatever was in flight  *)
(* when the gates closed, wherever it entered, and although gates reopen   *)
(* on nodes that have not applied the activation yet.  It is stated for a  *)
(* leader that kept its term since it began: require_current compares no   *)
(* terms, and a leader elected again after a successor has reopened the    *)
(* gates goes on with drains that no longer hold.                          *)
AckedCarried ==
    activated /\ unbroken =>
        \A w \in Writes :
            write[w].pc = "acked" /\ write[w].fence = "old" => w \in copied

(* The drain, the commit gate of programs, the lease pause and the waits   *)
(* for settled journals and reference cursors never wait for one another   *)
(* for good: records left below a quorum are redriven through the closed   *)
(* gates, and the joining node is activated once faults and elections end, *)
(* unless a journal holds a record that can never settle or be delivered:  *)
(* settled_journal_tails and await_reference_cursors have no limit of      *)
(* their own.                                                              *)
HandoffCompletes == <>(activated \/ stuck # "none")

(* In the end every gate is open, released by a later attempt, by the      *)
(* permit or by its monitor; except that of a node that was leader: its    *)
(* own attempt closes it without a monitor, and after activation nothing   *)
(* but its permit releases it.  With a stuck record there is no such end:  *)
(* the handoff waits with every gate closed, and so does the next one.     *)
GatesReopen ==
    <>[](stuck = "none" =>
            \A n \in Nodes : gate[n] => n \in Active /\ elected[n] > 0)
=============================================================================
