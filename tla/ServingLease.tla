---------------------------- MODULE ServingLease ----------------------------
(***************************************************************************)
(* Transient serving leases.  A node may serve public requests only while  *)
(* it holds a lease for the placement it has applied.  Leases never enter  *)
(* Raft: a leader hands one out on a recent quorum proof of leadership,    *)
(* the recipient counts its lifetime from the moment it asked, and a       *)
(* leader that sees a new (term, placement) first withholds every grant    *)
(* for CutoverWait.                                                        *)
(*                                                                         *)
(* Raft itself is external.  What the code relies on is modelled: terms    *)
(* have one leader, a deposed leader may not know it, only the leader of   *)
(* the newest term commits, nodes apply late, and a quorum round can       *)
(* succeed only if its leader was the newest one when the round started    *)
(* (a quorum that answers the round has not voted for a successor yet) and *)
(* after the leader applied what was committed when it started.            *)
(*                                                                         *)
(* The code compares elapsed CLOCK_BOOTTIME, never two nodes' clocks, so   *)
(* time is kept as ages and remaining times that every Tick moves alike:   *)
(* clocks are assumed to run at the same rate.  A timer that can no longer *)
(* matter is dropped, which is what each check of it amounts to.           *)
(***************************************************************************)
EXTENDS Integers

CONSTANTS
    Nodes,          \* every node may lead and every node asks for leases
    Coordinators,   \* nodes on which a membership handoff may run
    ProofAge,       \* LEADER_QUORUM_PROOF_MAX_AGE, in ticks
    Lifetime,       \* SERVING_LEASE_MAX_LIFETIME
    CutoverWait,    \* SERVING_LEASE_CUTOVER_WAIT
    MaxTerm,        \* bound: number of elections
    MaxPlacement    \* bound: number of placement changes

(* 500 ms + 2 s <= 3 s in the code.                                        *)
ASSUME LeaseTiming ==
    /\ Coordinators \subseteq Nodes
    /\ ProofAge \in Nat
    /\ Lifetime \in Nat \ {0}
    /\ CutoverWait \in Nat
    /\ ProofAge + Lifetime <= CutoverWait
    /\ MaxTerm \in Nat
    /\ MaxPlacement \in Nat

VARIABLES
    term,           \* the newest elected term
    belief,         \* belief[n]: the term n believes to lead, 0 for none
    committed,      \* the newest committed placement
    placement_term, \* the term whose leader committed each placement
    applied,        \* applied[n]: the placement n has applied
    round,          \* round[n]: the quorum round n is waiting for
    proof,          \* proof[n]: n's cached fresh leader quorum proof
    observed,       \* observed[n]: ServingLeaseCutover of n's issuer
    pause,          \* pause[n]: ServingLeaseGrantPause held on n's issuer
    placement,      \* placement[n]: ServingLeaseState.active_placement_log_id
    highest_term,   \* highest_term[n]: ServingLeaseState.highest_raft_term
    request,        \* request[n]: n's pending request and its grant
    lease           \* lease[n]: n's unexpired ServingLease

raftVars == <<term, belief, committed, placement_term, applied>>
issuerVars == <<round, proof, observed, pause>>
holderVars == <<placement, highest_term, request, lease>>
vars == <<raftVars, issuerVars, holderVars>>

None == [none |-> TRUE]

Terms == 0..MaxTerm
Placements == 0..MaxPlacement

Round == [term : Terms, age : 0..ProofAge, read : Placements]
Proof == [term : Terms, age : 0..ProofAge]
Cutover == [term : Terms, placement : Placements, wait : 0..CutoverWait]
Pause == [term : Terms, left : 0..CutoverWait]
Request == [placement : Placements, to : Nodes, age : 0..Lifetime,
            phase : {"sent", "formed", "granted"}, term : Terms]
Lease == [term : Terms, placement : Placements, remaining : 1..Lifetime]

(* Types.  Every age and every remaining time keeps within the duration it *)
(* is measured against; in particular no lease outlasts Lifetime.          *)
TypeOK ==
    /\ term \in Terms
    /\ belief \in [Nodes -> Terms]
    /\ committed \in Placements
    /\ placement_term \in [Placements -> Terms]
    /\ applied \in [Nodes -> Placements]
    /\ round \in [Nodes -> Round \cup {None}]
    /\ proof \in [Nodes -> Proof \cup {None}]
    /\ observed \in [Nodes -> Cutover \cup {None}]
    /\ pause \in [Nodes -> Pause \cup {None}]
    /\ placement \in [Nodes -> Placements]
    /\ highest_term \in [Nodes -> Terms]
    /\ request \in [Nodes -> Request \cup {None}]
    /\ lease \in [Nodes -> Lease \cup {None}]

Init ==
    /\ term = 0
    /\ belief = [n \in Nodes |-> 0]
    /\ committed = 0
    /\ placement_term = [p \in Placements |-> 0]
    /\ applied = [n \in Nodes |-> 0]
    /\ round = [n \in Nodes |-> None]
    /\ proof = [n \in Nodes |-> None]
    /\ observed = [n \in Nodes |-> None]
    /\ pause = [n \in Nodes |-> None]
    /\ placement = [n \in Nodes |-> 0]
    /\ highest_term = [n \in Nodes |-> 0]
    /\ request = [n \in Nodes |-> None]
    /\ lease = [n \in Nodes |-> None]
-----------------------------------------------------------------------------
(* Raft, as far as leases depend on it.                                    *)

Elect(n) ==
    /\ term < MaxTerm
    /\ term' = term + 1
    /\ belief' = [belief EXCEPT ![n] = term + 1]
    /\ UNCHANGED <<committed, placement_term, applied, issuerVars, holderVars>>

(* A deposed leader learns of the newer term.                              *)
StepDown(n) ==
    /\ belief[n] \in 1..(term - 1)
    /\ belief' = [belief EXCEPT ![n] = 0]
    /\ UNCHANGED <<term, committed, placement_term, applied, issuerVars, holderVars>>

(* CompleteMembershipTransition commits a new active placement.            *)
CommitPlacement(n) ==
    /\ belief[n] = term /\ term > 0
    /\ committed < MaxPlacement
    /\ committed' = committed + 1
    /\ placement_term' = [placement_term EXCEPT ![committed + 1] = term]
    /\ UNCHANGED <<term, belief, applied, issuerVars, holderVars>>

ApplyPlacement(n) ==
    /\ applied[n] < committed
    /\ applied' = [applied EXCEPT ![n] = @ + 1]
    /\ UNCHANGED <<term, belief, committed, placement_term, issuerVars, holderVars>>
-----------------------------------------------------------------------------
(* The leader: DecisionRaft::confirm_leadership and ServingLeaseIssuer.    *)

Usable(n) == proof[n] # None /\ proof[n].term = belief[n]

(* The proof is dated at the start of its quorum round.                    *)
StartRound(n) ==
    /\ belief[n] = term /\ term > 0
    /\ round[n] = None
    /\ ~Usable(n)
    /\ round' = [round EXCEPT ![n] = [term |-> term, age |-> 0, read |-> committed]]
    /\ proof' = [proof EXCEPT ![n] = None]
    /\ UNCHANGED <<raftVars, observed, pause, holderVars>>

(* Mutant: the proof is dated when the round returns.                      *)
ProofDatedAtEnd(r) == [term |-> r.term, age |-> 0]

ProofFrom(r) == [term |-> r.term, age |-> r.age]

FinishRound(n) ==
    /\ round[n] # None
    /\ belief[n] = round[n].term
    /\ applied[n] >= round[n].read
    /\ proof' = [proof EXCEPT ![n] = ProofFrom(round[n])]
    /\ round' = [round EXCEPT ![n] = None]
    /\ UNCHANGED <<raftVars, observed, pause, holderVars>>

FailRound(n) ==
    /\ round[n] # None
    /\ round' = [round EXCEPT ![n] = None]
    /\ UNCHANGED <<raftVars, proof, observed, pause, holderVars>>

InPhase(q, phase, t) ==
    [placement |-> q.placement, to |-> q.to, age |-> q.age, phase |-> phase, term |-> t]

(* n's issuer answers r's request: a fresh proof, then the applied         *)
(* placement must be the requested one.  Nothing the two reads depend on   *)
(* can change in between except for the better, so they are one step.      *)
FormGrant(n, r) ==
    /\ request[r] # None
    /\ request[r].to = n /\ request[r].phase = "sent"
    /\ pause[n] = None
    /\ Usable(n)
    /\ applied[n] = request[r].placement
    /\ request' = [request EXCEPT ![r] = InPhase(@, "formed", proof[n].term)]
    /\ UNCHANGED <<raftVars, issuerVars, placement, highest_term, lease>>

(* Mutant: every grant looks new to the cutover guard.                     *)
CutoverForgets(n, q) == FALSE

(* The issuer has already observed the identity this grant was formed for. *)
CutoverSeen(n, q) ==
    observed[n] # None /\ observed[n].term = q.term /\ observed[n].placement = q.placement

(* ServingLeaseCutover::permits: the first grant for an identity only      *)
(* starts its wait.  The grant fence is released either way.               *)
PermitGrant(n, r) ==
    /\ request[r] # None
    /\ request[r].to = n /\ request[r].phase = "formed"
    /\ \/ /\ CutoverSeen(n, request[r])
          /\ observed[n].wait = 0
          /\ request' = [request EXCEPT ![r] = InPhase(@, "granted", @.term)]
          /\ UNCHANGED observed
       \/ /\ CutoverSeen(n, request[r])
          /\ observed[n].wait > 0
          /\ request' = [request EXCEPT ![r] = None]
          /\ UNCHANGED observed
       \/ /\ ~CutoverSeen(n, request[r])
          /\ observed' = [observed EXCEPT ![n] = [term |-> request[r].term,
                                                  placement |-> request[r].placement,
                                                  wait |-> CutoverWait]]
          /\ request' = [request EXCEPT ![r] = None]
    /\ UNCHANGED <<raftVars, round, proof, pause, placement, highest_term, lease>>

(* pause_grants waits until no grant is being formed on n.                 *)
NoGrantForming(n) ==
    \A r \in Nodes : request[r] # None => ~(request[r].to = n /\ request[r].phase = "formed")

(* The membership handoff pauses the issuer of a leader, then sleeps for   *)
(* CutoverWait before it takes its final snapshot.                         *)
PauseGrants(n) ==
    /\ n \in Coordinators
    /\ belief[n] # 0
    /\ pause[n] = None
    /\ NoGrantForming(n)
    /\ pause' = [pause EXCEPT ![n] = [term |-> belief[n], left |-> CutoverWait]]
    /\ UNCHANGED <<raftVars, round, proof, observed, holderVars>>

ResumeGrants(n) ==
    /\ pause[n] # None
    /\ pause' = [pause EXCEPT ![n] = None]
    /\ UNCHANGED <<raftVars, round, proof, observed, holderVars>>
-----------------------------------------------------------------------------
(* The recipient: ServingLeaseState and the renewal loop.                  *)

MaxOf(a, b) == IF a >= b THEN a ELSE b

(* ServingLeaseState::set_active_placement: follow the applied placement   *)
(* and drop the authority of an older one.                                 *)
SetActivePlacement(r) ==
    IF placement[r] = applied[r]
    THEN UNCHANGED <<placement, highest_term, lease>>
    ELSE /\ placement' = [placement EXCEPT ![r] = applied[r]]
         /\ highest_term' = [highest_term EXCEPT ![r] = MaxOf(@, placement_term[applied[r]])]
         /\ lease' = [lease EXCEPT ![r] = None]

(* A public request reads the mutation context.                            *)
MutationContext(r) ==
    /\ placement[r] # applied[r]
    /\ SetActivePlacement(r)
    /\ UNCHANGED <<raftVars, issuerVars, request>>

(* renew_once up to the send: n is whoever r takes for the leader.  A node *)
(* that does not lead refuses at once, so only leaders, deposed ones       *)
(* included, are asked.                                                    *)
BeginRequest(r, n) ==
    /\ request[r] = None
    /\ belief[n] # 0
    /\ SetActivePlacement(r)
    /\ request' = [request EXCEPT ![r] = [placement |-> applied[r], to |-> n, age |-> 0,
                                          phase |-> "sent", term |-> 0]]
    /\ UNCHANGED <<raftVars, issuerVars>>

(* Refused, lost or timed out, at any stage.                               *)
DropRequest(r) ==
    /\ request[r] # None
    /\ request' = [request EXCEPT ![r] = None]
    /\ UNCHANGED <<raftVars, issuerVars, placement, highest_term, lease>>

(* Mutant: the tick in which the request was sent is not counted.          *)
LifetimeInclusive(q) == Lifetime - q.age + 1

(* Mutant: the lifetime is counted from the moment the grant arrives.      *)
LifetimeFromArrival(q) == Lifetime

RemainingOf(q) == Lifetime - q.age

TermNotRegressed(r, q) == q.term >= highest_term[r]

(* The longer of the unexpired current lease and the new grant, None when  *)
(* the grant arrived after its expiry; a new term voids the current lease. *)
AcceptedLease(r, q) ==
    LET current == IF highest_term[r] = q.term THEN lease[r] ELSE None
        left == RemainingOf(q)
    IN  IF left <= 0 \/ (current # None /\ current.remaining >= left) THEN current
        ELSE [term |-> q.term, placement |-> q.placement, remaining |-> left]

AcceptGrant(r) ==
    /\ request[r] # None
    /\ request[r].phase = "granted"
    /\ request[r].placement = placement[r]
    /\ TermNotRegressed(r, request[r])
    /\ highest_term' = [highest_term EXCEPT ![r] = request[r].term]
    /\ lease' = [lease EXCEPT ![r] = AcceptedLease(r, request[r])]
    /\ request' = [request EXCEPT ![r] = None]
    /\ UNCHANGED <<raftVars, issuerVars, placement>>
-----------------------------------------------------------------------------
(* A process restart loses every transient record of the node.             *)
Restart(n) ==
    /\ belief' = [belief EXCEPT ![n] = 0]
    /\ round' = [round EXCEPT ![n] = None]
    /\ proof' = [proof EXCEPT ![n] = None]
    /\ observed' = [observed EXCEPT ![n] = None]
    /\ pause' = [pause EXCEPT ![n] = None]
    /\ placement' = [placement EXCEPT ![n] = applied[n]]
    /\ highest_term' = [highest_term EXCEPT ![n] = placement_term[applied[n]]]
    /\ request' = [r \in Nodes |->
                     IF r = n \/ (request[r] # None /\ request[r].to = n
                                  /\ request[r].phase # "granted")
                     THEN None ELSE request[r]]
    /\ lease' = [lease EXCEPT ![n] = None]
    /\ UNCHANGED <<term, committed, placement_term, applied>>

(* One tick passes everywhere, host suspension included.                   *)
Tick ==
    /\ round' = [n \in Nodes |->
                   IF round[n] = None \/ round[n].age = ProofAge THEN None
                   ELSE [round[n] EXCEPT !.age = @ + 1]]
    /\ proof' = [n \in Nodes |->
                   IF proof[n] = None \/ proof[n].age = ProofAge THEN None
                   ELSE [proof[n] EXCEPT !.age = @ + 1]]
    /\ observed' = [n \in Nodes |->
                      IF observed[n] = None THEN None
                      ELSE [observed[n] EXCEPT !.wait = MaxOf(@ - 1, 0)]]
    /\ pause' = [n \in Nodes |->
                   IF pause[n] = None THEN None
                   ELSE [pause[n] EXCEPT !.left = MaxOf(@ - 1, 0)]]
    /\ request' = [r \in Nodes |->
                     IF request[r] = None THEN None
                     ELSE [request[r] EXCEPT !.age = IF @ = Lifetime THEN @ ELSE @ + 1]]
    /\ lease' = [r \in Nodes |->
                   IF lease[r] = None \/ lease[r].remaining = 1 THEN None
                   ELSE [lease[r] EXCEPT !.remaining = @ - 1]]
    /\ UNCHANGED <<raftVars, placement, highest_term>>

Next ==
    \/ Tick
    \/ \E n \in Nodes :
         \/ Elect(n) \/ StepDown(n) \/ CommitPlacement(n) \/ ApplyPlacement(n)
         \/ StartRound(n) \/ FinishRound(n) \/ FailRound(n)
         \/ PauseGrants(n) \/ ResumeGrants(n)
         \/ MutationContext(n) \/ DropRequest(n) \/ AcceptGrant(n)
         \/ Restart(n)
    \/ \E n, r \in Nodes :
         BeginRequest(r, n) \/ FormGrant(n, r) \/ PermitGrant(n, r)

Spec == Init /\ [][Next]_vars

(* The timely behaviours in which availability can be expected: no node    *)
(* crashes, an exchange is over by the second tick, a request fails only   *)
(* when refused, and a leader asked for a grant runs its round.            *)
Refused(r) ==
    LET q == request[r] IN
    /\ q # None
    /\ \/ belief[q.to] # term
       \/ q.phase = "sent" /\ Usable(q.to) /\ applied[q.to] # q.placement
       \/ q.phase = "granted" /\ ~(q.placement = placement[r] /\ TermNotRegressed(r, q))

TimelyTick ==
    /\ \A n \in Nodes : ~(request[n] # None /\ request[n].age > 0)
    /\ \A n \in Nodes : ~(round[n] # None /\ round[n].age > 0)
    /\ Tick

TimelyNext ==
    \/ TimelyTick
    \/ \E n \in Nodes :
         \/ Elect(n) \/ StepDown(n) \/ CommitPlacement(n) \/ ApplyPlacement(n)
         \/ StartRound(n) \/ FinishRound(n)
         \/ round[n] # None /\ belief[n] # round[n].term /\ FailRound(n)
         \/ MutationContext(n) \/ AcceptGrant(n)
         \/ PauseGrants(n) \/ ResumeGrants(n)
         \/ Refused(n) /\ DropRequest(n)
    \/ \E n, r \in Nodes :
         BeginRequest(r, n) \/ FormGrant(n, r) \/ PermitGrant(n, r)

(* The renewal loop never stops asking, Raft elects a leader and delivers  *)
(* committed entries, deposed leaders learn that they are, rounds and      *)
(* requests are answered, and time passes.                                 *)
TimelySpec ==
    /\ Init /\ [][TimelyNext]_vars
    /\ WF_vars(TimelyTick)
    /\ WF_vars(\E n \in Nodes : term = 0 /\ Elect(n))
    /\ \A n \in Nodes :
         /\ WF_vars(StepDown(n)) /\ WF_vars(ApplyPlacement(n))
         /\ WF_vars(StartRound(n)) /\ WF_vars(FinishRound(n))
         /\ WF_vars(round[n] # None /\ belief[n] # round[n].term /\ FailRound(n))
         /\ WF_vars(AcceptGrant(n)) /\ WF_vars(Refused(n) /\ DropRequest(n))
         /\ WF_vars(\E m \in Nodes : BeginRequest(n, m))
         /\ WF_vars(\E m \in Nodes : FormGrant(m, n) \/ PermitGrant(m, n))
-----------------------------------------------------------------------------
(* Properties                                                              *)

(* At any moment the whole cluster serves under at most one placement: a   *)
(* lease for a new placement never overlaps one for an old placement,      *)
(* across deposed leaders with a fresh proof, slow replies, late applies   *)
(* and restarts.                                                           *)
OnePlacementServes ==
    \A r, s \in Nodes :
        lease[r] # None /\ lease[s] # None => lease[r].placement = lease[s].placement

(* Once a leader that kept its term has held its pause for CutoverWait, no *)
(* node holds a lease, so the handoff's final snapshot is stable           *)
(* (ensure_handoff_complete, pause_grants).                                *)
PauseDrainsLeases ==
    \A n \in Nodes :
        /\ pause[n] # None
        /\ pause[n].left = 0
        /\ pause[n].term = term
        => \A r \in Nodes : lease[r] = None

(* Availability: however often leaders and placements changed, once they   *)
(* stop changing and no handoff holds its grant pause, every node gets a   *)
(* lease again and again; the cutover wait delays the first grant and      *)
(* cannot withhold grants for ever.  The run that checks this has no       *)
(* placement change.                                                       *)
EveryNodeServesAgain ==
    <>[](\A n \in Nodes : pause[n] = None) => \A r \in Nodes : []<>(lease[r] # None)
-----------------------------------------------------------------------------
(* The inductive invariant behind the theorems of ServingLeaseProofs.      *)

(* Within w ticks no authority for a placement below p is left, and no     *)
(* leader can create any: neither a proof it holds nor a round under way   *)
(* outlasts w together with the lease it could still hand out.             *)
QuietWithin(p, w) ==
    /\ \A r \in Nodes : lease[r] # None /\ lease[r].placement < p
                          => lease[r].remaining <= w
    /\ \A r \in Nodes : request[r] # None /\ request[r].phase # "sent"
                          /\ request[r].placement < p
                          => Lifetime - request[r].age <= w
    /\ \A m \in Nodes : proof[m] # None /\ applied[m] < p
                          => ProofAge - proof[m].age + Lifetime <= w
    /\ \A m \in Nodes : round[m] # None /\ round[m].read < p
                          => ProofAge - round[m].age + Lifetime <= w

(* Within w ticks all authority is gone unless n's issuer creates some.    *)
DrainedWithin(n, w) ==
    /\ \A r \in Nodes : lease[r] # None => lease[r].remaining <= w
    /\ \A r \in Nodes : request[r] # None /\ request[r].phase # "sent"
                          => Lifetime - request[r].age <= w
    /\ \A m \in Nodes \ {n} : proof[m] # None => ProofAge - proof[m].age + Lifetime <= w
    /\ \A m \in Nodes \ {n} : round[m] # None => ProofAge - round[m].age + Lifetime <= w

PlacementsCommitted ==
    /\ \A n \in Nodes : applied[n] <= committed /\ placement[n] <= committed
    /\ \A n \in Nodes : observed[n] # None => observed[n].placement <= committed
    /\ \A n \in Nodes : request[n] # None => request[n].placement <= committed
    /\ \A n \in Nodes : lease[n] # None => lease[n].placement <= committed

OneLeaderPerTerm ==
    /\ \A n \in Nodes : belief[n] <= term
    /\ \A m, n \in Nodes : belief[m] = belief[n] /\ belief[n] # 0 => m = n
    /\ \A n \in Nodes : pause[n] # None =>
         /\ pause[n].term \in 1..term
         /\ pause[n].term = term => belief[n] = term

CutoverQuiet ==
    /\ \A n \in Nodes : observed[n] # None =>
         QuietWithin(observed[n].placement, observed[n].wait)
    /\ \A r \in Nodes : request[r] # None /\ request[r].phase = "granted" =>
         QuietWithin(request[r].placement, 0)
    /\ \A r \in Nodes : lease[r] # None => QuietWithin(lease[r].placement, 0)

PauseDrains ==
    \A n \in Nodes : pause[n] # None /\ pause[n].term = term =>
        DrainedWithin(n, pause[n].left)

IInv == TypeOK /\ PlacementsCommitted /\ OneLeaderPerTerm /\ CutoverQuiet /\ PauseDrains
=============================================================================
