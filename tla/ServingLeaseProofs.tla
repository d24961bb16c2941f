------------------------- MODULE ServingLeaseProofs -------------------------
(***************************************************************************)
(* ServingLease for every set of nodes and every timing with               *)
(* ProofAge + Lifetime <= CutoverWait: leases of two placements never      *)
(* overlap, and a pause held for CutoverWait drains the cluster.           *)
(*                                                                         *)
(* Most steps create no authority: they only drop or keep leases, grants,  *)
(* proofs and rounds.  They preserve the two timing conjuncts of IInv by   *)
(* Shrinks below; the six steps that do create or age authority are proved *)
(* one by one.                                                             *)
(***************************************************************************)
EXTENDS ServingLease, TLAPS

USE DEF Terms, Placements

(* No lease, grant, proof or round is new.                                 *)
NoNewAuthority ==
    /\ \A r \in Nodes : lease'[r] = None \/ lease'[r] = lease[r]
    /\ \A r \in Nodes : \/ request'[r] = None
                        \/ request'[r] = request[r]
                        \/ request'[r].phase = "sent"
    /\ \A m \in Nodes : proof'[m] = None \/ proof'[m] = proof[m]
    /\ \A m \in Nodes : round'[m] = None \/ round'[m] = round[m]
    /\ \A m \in Nodes : applied'[m] >= applied[m]

(* The issuers' waits stay, and a pause of the newest leader is one it     *)
(* already held or starts with the whole wait.                             *)
NoNewWait ==
    /\ \A n \in Nodes : observed'[n] = None \/ observed'[n] = observed[n]
    /\ \A n \in Nodes : pause'[n] # None /\ pause'[n].term = term' =>
         \/ pause'[n] = pause[n] /\ term' = term
         \/ pause'[n].left = CutoverWait

(* What TypeOK says about the numbers, in the form arithmetic needs.       *)
Ranges ==
    /\ \A n \in Nodes : applied[n] \in Int /\ placement[n] \in Int /\ belief[n] \in Int
    /\ term \in Int /\ committed \in Int
    /\ \A n \in Nodes : lease[n] # None =>
         /\ lease[n].remaining \in Int /\ lease[n].placement \in Placements
         /\ 1 <= lease[n].remaining /\ lease[n].remaining <= Lifetime
    /\ \A n \in Nodes : request[n] # None =>
         /\ request[n].age \in Int /\ request[n].placement \in Placements
         /\ 0 <= request[n].age /\ request[n].age <= Lifetime
    /\ \A n \in Nodes : proof[n] # None =>
         proof[n].age \in Int /\ 0 <= proof[n].age /\ proof[n].age <= ProofAge
    /\ \A n \in Nodes : round[n] # None =>
         /\ round[n].age \in Int /\ round[n].read \in Placements
         /\ 0 <= round[n].age /\ round[n].age <= ProofAge
    /\ \A n \in Nodes : observed[n] # None =>
         observed[n].wait \in Nat /\ observed[n].placement \in Placements
    /\ \A n \in Nodes : pause[n] # None => pause[n].left \in Nat

LEMMA Numbers == Placements \subseteq Int /\ Terms \subseteq Int
  BY LeaseTiming

LEMMA TypeRanges == TypeOK => Ranges
  <1> SUFFICES ASSUME TypeOK PROVE Ranges
    OBVIOUS
  <1> HIDE DEF Terms, Placements
  <1>1. \A n \in Nodes : applied[n] \in Int /\ placement[n] \in Int /\ belief[n] \in Int
    BY Numbers DEF TypeOK
  <1>2. term \in Int /\ committed \in Int
    BY Numbers DEF TypeOK
  <1>3. \A n \in Nodes : lease[n] # None => lease[n] \in Lease
    BY DEF TypeOK
  <1>4. \A n \in Nodes : request[n] # None => request[n] \in Request
    BY DEF TypeOK
  <1>5. \A n \in Nodes : proof[n] # None => proof[n] \in Proof
    BY DEF TypeOK
  <1>6. \A n \in Nodes : round[n] # None => round[n] \in Round
    BY DEF TypeOK
  <1>7. \A n \in Nodes : observed[n] # None => observed[n] \in Cutover
    BY DEF TypeOK
  <1>8. \A n \in Nodes : pause[n] # None => pause[n] \in Pause
    BY DEF TypeOK
  <1>9. \A x \in Lease : /\ x.remaining \in Int /\ x.placement \in Placements
                         /\ 1 <= x.remaining /\ x.remaining <= Lifetime
    BY LeaseTiming DEF Lease
  <1>10. \A x \in Request : /\ x.age \in Int /\ x.placement \in Placements
                            /\ 0 <= x.age /\ x.age <= Lifetime
    BY LeaseTiming DEF Request
  <1>11. \A x \in Proof : x.age \in Int /\ 0 <= x.age /\ x.age <= ProofAge
    BY LeaseTiming DEF Proof
  <1>12. \A x \in Round : /\ x.age \in Int /\ x.read \in Placements
                          /\ 0 <= x.age /\ x.age <= ProofAge
    BY LeaseTiming DEF Round
  <1>13. \A x \in Cutover : x.wait \in Nat /\ x.placement \in Placements
    BY LeaseTiming DEF Cutover
  <1>14. \A x \in Pause : x.left \in Nat
    BY LeaseTiming DEF Pause
  <1> QED BY <1>1, <1>2, <1>3, <1>4, <1>5, <1>6, <1>7, <1>8, <1>9, <1>10, <1>11,
             <1>12, <1>13, <1>14 DEF Ranges

(* A step that creates no authority keeps the cluster as quiet as it was.  *)
LEMMA QuietShrinks ==
  ASSUME NEW p \in Placements, NEW w \in Nat, TypeOK, TypeOK',
         NoNewAuthority, QuietWithin(p, w)
  PROVE  QuietWithin(p, w)'
  <1>1. \A m \in Nodes : applied'[m] < p => applied[m] < p
    <2>1. applied \in [Nodes -> Placements] /\ applied' \in [Nodes -> Placements]
      BY DEF TypeOK
    <2>2. Placements \subseteq Int
      BY LeaseTiming
    <2>3. ASSUME NEW m \in Nodes PROVE applied'[m] < p => applied[m] < p
      <3>1. applied[m] \in Int /\ applied'[m] \in Int /\ p \in Int
        BY <2>1, <2>2
      <3>2. applied'[m] >= applied[m]
        BY DEF NoNewAuthority
      <3> QED BY <3>1, <3>2
    <2> QED BY <2>3
  <1>2. \A m \in Nodes : proof'[m] # None /\ applied'[m] < p
                          => ProofAge - proof'[m].age + Lifetime <= w
    BY <1>1 DEF NoNewAuthority, QuietWithin
  <1> QED BY <1>2 DEF NoNewAuthority, QuietWithin

LEMMA DrainedShrinks ==
  ASSUME NEW n \in Nodes, NEW w \in Nat, NoNewAuthority, DrainedWithin(n, w)
  PROVE  DrainedWithin(n, w)'
  BY DEF NoNewAuthority, DrainedWithin

(* Whatever the state, CutoverWait is long enough to quieten the cluster.  *)
QuietAfterWait ==
    /\ \A p \in Placements : QuietWithin(p, CutoverWait)
    /\ \A n \in Nodes : DrainedWithin(n, CutoverWait)

LEMMA WaitIsEnough == TypeOK => QuietAfterWait
  <1> SUFFICES ASSUME TypeOK PROVE QuietAfterWait
    OBVIOUS
  <1>1. Ranges BY TypeRanges
  <1>2. /\ \A r \in Nodes : lease[r] # None => lease[r].remaining <= CutoverWait
        /\ \A r \in Nodes : request[r] # None => Lifetime - request[r].age <= CutoverWait
        /\ \A m \in Nodes : proof[m] # None
                              => ProofAge - proof[m].age + Lifetime <= CutoverWait
        /\ \A m \in Nodes : round[m] # None
                              => ProofAge - round[m].age + Lifetime <= CutoverWait
    BY <1>1, LeaseTiming DEF Ranges
  <1> QED BY <1>2 DEF QuietAfterWait, QuietWithin, DrainedWithin

(* What is quiet, and what is draining under a current pause, stays so.    *)
QuietKept ==
    /\ \A p \in Placements, w \in Nat :
         p <= committed /\ QuietWithin(p, w) => QuietWithin(p, w)'
    /\ \A n \in Nodes, w \in Nat :
         pause[n] # None /\ pause[n].term = term /\ DrainedWithin(n, w)
           => DrainedWithin(n, w)'

(* Every lease and every permitted grant was there before the step.        *)
HoldersOld ==
    /\ \A r \in Nodes : lease'[r] = None \/ lease'[r] = lease[r]
    /\ \A r \in Nodes : request'[r] # None /\ request'[r].phase = "granted"
                          => request'[r] = request[r]

LEMMA Kept ==
  ASSUME IInv, TypeOK', QuietKept, HoldersOld, NoNewWait
  PROVE  CutoverQuiet' /\ PauseDrains'
  <1>a. TypeOK /\ Ranges /\ PlacementsCommitted
    BY TypeRanges DEF IInv
  <1>1. CutoverQuiet'
    <2>1. ASSUME NEW n \in Nodes, observed'[n] # None
          PROVE  QuietWithin(observed[n].placement, observed[n].wait)'
      <3>1. observed'[n] = observed[n]
        BY <2>1 DEF NoNewWait
      <3>2. /\ observed[n].placement \in Placements /\ observed[n].wait \in Nat
            /\ observed[n].placement <= committed
        BY <1>a, <2>1, <3>1 DEF Ranges, PlacementsCommitted
      <3> QED BY <2>1, <3>1, <3>2 DEF QuietKept, IInv, CutoverQuiet
    <2>2. ASSUME NEW r \in Nodes, request'[r] # None, request'[r].phase = "granted"
          PROVE  QuietWithin(request[r].placement, 0)'
      <3>1. request'[r] = request[r]
        BY <2>2 DEF HoldersOld
      <3>2. request[r].placement \in Placements /\ request[r].placement <= committed
        BY <1>a, <2>2, <3>1 DEF Ranges, PlacementsCommitted
      <3> QED BY <2>2, <3>1, <3>2 DEF QuietKept, IInv, CutoverQuiet
    <2>3. ASSUME NEW r \in Nodes, lease'[r] # None
          PROVE  QuietWithin(lease[r].placement, 0)'
      <3>1. lease'[r] = lease[r]
        BY <2>3 DEF HoldersOld
      <3>2. lease[r].placement \in Placements /\ lease[r].placement <= committed
        BY <1>a, <2>3, <3>1 DEF Ranges, PlacementsCommitted
      <3> QED BY <2>3, <3>1, <3>2 DEF QuietKept, IInv, CutoverQuiet
    <2> QED BY <2>1, <2>2, <2>3 DEF CutoverQuiet
  <1>2. PauseDrains'
    <2> SUFFICES ASSUME NEW n \in Nodes, pause'[n] # None, pause'[n].term = term'
                 PROVE  DrainedWithin(n, pause[n].left)'
      BY DEF PauseDrains
    <2>1. CASE pause'[n].left = CutoverWait
      <3>1. QuietAfterWait'
        BY WaitIsEnough, PTL
      <3> QED BY <2>1, <3>1 DEF QuietAfterWait
    <2>2. CASE pause'[n] = pause[n] /\ term' = term
      <3>1. pause[n].left \in Nat
        BY <1>a, <2>2 DEF Ranges
      <3> QED BY <2>2, <3>1 DEF QuietKept, IInv, PauseDrains
    <2> QED BY <2>1, <2>2 DEF NoNewWait
  <1> QED BY <1>1, <1>2

LEMMA Shrinks ==
  ASSUME IInv, TypeOK', NoNewAuthority, NoNewWait
  PROVE  CutoverQuiet' /\ PauseDrains'
  <1>1. TypeOK BY DEF IInv
  <1>2. QuietKept
    BY <1>1, QuietShrinks, DrainedShrinks DEF QuietKept
  <1>3. HoldersOld
    BY DEF NoNewAuthority, HoldersOld
  <1> QED BY <1>2, <1>3, Kept

-----------------------------------------------------------------------------
(* Type correctness.                                                       *)

LEMMA RaftType ==
  ASSUME TypeOK, NEW n \in Nodes,
         Elect(n) \/ StepDown(n) \/ CommitPlacement(n) \/ ApplyPlacement(n)
  PROVE  TypeOK'
  <1> USE LeaseTiming DEF TypeOK, issuerVars, holderVars
  <1>1. CASE Elect(n)
    <2>1. term + 1 \in Terms
      BY <1>1 DEF Elect
    <2> HIDE DEF Terms, Placements
    <2> QED BY <1>1, <2>1 DEF Elect
  <1>2. CASE StepDown(n)
    <2>1. 0 \in Terms
      OBVIOUS
    <2> HIDE DEF Terms, Placements
    <2> QED BY <1>2, <2>1 DEF StepDown
  <1>3. CASE CommitPlacement(n)
    <2>1. committed + 1 \in Placements
      BY <1>3 DEF CommitPlacement
    <2> HIDE DEF Terms, Placements
    <2> QED BY <1>3, <2>1 DEF CommitPlacement
  <1>4. CASE ApplyPlacement(n)
    <2>1. applied[n] + 1 \in Placements
      <3>1. applied[n] \in Placements /\ committed \in Placements
        OBVIOUS
      <3> QED BY <1>4, <3>1 DEF ApplyPlacement
    <2> HIDE DEF Terms, Placements
    <2> QED BY <1>4, <2>1 DEF ApplyPlacement
  <1> QED BY <1>1, <1>2, <1>3, <1>4

LEMMA IssuerType ==
  ASSUME TypeOK, NEW n \in Nodes,
         \/ StartRound(n) \/ FinishRound(n) \/ FailRound(n)
         \/ PauseGrants(n) \/ ResumeGrants(n)
  PROVE  TypeOK'
  <1> USE LeaseTiming DEF TypeOK, raftVars, holderVars
  <1>1. CASE StartRound(n)
    <2>1. [term |-> term, age |-> 0, read |-> committed] \in Round
      BY DEF Round
    <2> QED BY <1>1, <2>1 DEF StartRound
  <1>2. CASE FinishRound(n)
    <2>1. ProofFrom(round[n]) \in Proof
      BY <1>2 DEF FinishRound, ProofFrom, Proof, Round
    <2> QED BY <1>2, <2>1 DEF FinishRound
  <1>3. CASE FailRound(n) BY <1>3 DEF FailRound
  <1>4. CASE PauseGrants(n)
    <2>1. [term |-> belief[n], left |-> CutoverWait] \in Pause
      BY DEF Pause
    <2> QED BY <1>4, <2>1 DEF PauseGrants
  <1>5. CASE ResumeGrants(n) BY <1>5 DEF ResumeGrants
  <1> QED BY <1>1, <1>2, <1>3, <1>4, <1>5

LEMMA InPhaseType ==
  ASSUME NEW q \in Request, NEW ph \in {"sent", "formed", "granted"}, NEW t \in Terms
  PROVE  InPhase(q, ph, t) \in Request
  BY DEF InPhase, Request

LEMMA GrantType ==
  ASSUME TypeOK, NEW n \in Nodes, NEW r \in Nodes, FormGrant(n, r) \/ PermitGrant(n, r)
  PROVE  TypeOK'
  <1> HIDE DEF Terms, Placements
  <1>a. request[r] \in Request
    BY DEF TypeOK, FormGrant, PermitGrant
  <1>b. request[r].term \in Terms /\ request[r].placement \in Placements
    BY <1>a DEF Request
  <1>1. CASE FormGrant(n, r)
    <2>1. proof[n].term \in Terms
      BY <1>1 DEF FormGrant, Usable, TypeOK, Proof
    <2>2. InPhase(request[r], "formed", proof[n].term) \in Request
      BY <1>a, <2>1, InPhaseType
    <2> QED BY <1>1, <2>2 DEF FormGrant, TypeOK, raftVars, issuerVars
  <1>2. CASE PermitGrant(n, r)
    <2>1. InPhase(request[r], "granted", request[r].term) \in Request
      BY <1>a, <1>b, InPhaseType
    <2>2. [term |-> request[r].term, placement |-> request[r].placement,
           wait |-> CutoverWait] \in Cutover
      BY <1>b, LeaseTiming DEF Cutover
    <2>3. request' \in [Nodes -> Request \cup {None}]
      BY <1>2, <2>1 DEF PermitGrant, TypeOK
    <2>4. observed' \in [Nodes -> Cutover \cup {None}]
      BY <1>2, <2>2 DEF PermitGrant, TypeOK
    <2> QED BY <1>2, <2>3, <2>4 DEF PermitGrant, TypeOK, raftVars
  <1> QED BY <1>1, <1>2

(* set_active_placement.                                                   *)
LEMMA SetPlacementType ==
  ASSUME TypeOK, NEW r \in Nodes, SetActivePlacement(r)
  PROVE  /\ placement' \in [Nodes -> Placements]
         /\ highest_term' \in [Nodes -> Terms]
         /\ lease' \in [Nodes -> Lease \cup {None}]
         /\ \A s \in Nodes : lease'[s] = None \/ lease'[s] = lease[s]
         /\ \A s \in Nodes : placement'[s] = placement[s] \/ placement'[s] = applied[s]
  <1> HIDE DEF Terms, Placements
  <1>1. CASE placement[r] = applied[r]
    BY <1>1 DEF SetActivePlacement, TypeOK
  <1>2. CASE placement[r] # applied[r]
    <2>1. applied[r] \in Placements /\ placement_term[applied[r]] \in Terms
          /\ highest_term[r] \in Terms
      BY DEF TypeOK
    <2>2. MaxOf(highest_term[r], placement_term[applied[r]]) \in Terms
      BY <2>1 DEF MaxOf
    <2> QED BY <1>2, <2>1, <2>2 DEF SetActivePlacement, TypeOK
  <1> QED BY <1>1, <1>2

LEMMA HolderType ==
  ASSUME TypeOK, NEW r \in Nodes, NEW n \in Nodes,
         MutationContext(r) \/ BeginRequest(r, n) \/ DropRequest(r)
  PROVE  TypeOK'
  <1> HIDE DEF Terms, Placements
  <1>1. CASE MutationContext(r)
    BY <1>1, SetPlacementType DEF MutationContext, TypeOK, raftVars, issuerVars
  <1>2. CASE BeginRequest(r, n)
    <2>1. [placement |-> applied[r], to |-> n, age |-> 0, phase |-> "sent", term |-> 0]
            \in Request
      BY LeaseTiming DEF TypeOK, Request, Terms, Placements
    <2> QED BY <1>2, <2>1, SetPlacementType
            DEF BeginRequest, TypeOK, raftVars, issuerVars
  <1>3. CASE DropRequest(r)
    BY <1>3 DEF DropRequest, TypeOK, raftVars, issuerVars
  <1> QED BY <1>1, <1>2, <1>3

(* An accepted lease has no more left than its grant or than it had.       *)
LEMMA AcceptedLeaseIs ==
  ASSUME TypeOK, NEW r \in Nodes, request[r] # None
  PROVE  \/ AcceptedLease(r, request[r]) = None
         \/ AcceptedLease(r, request[r]) = lease[r]
         \/ /\ AcceptedLease(r, request[r]) =
                 [term |-> request[r].term, placement |-> request[r].placement,
                  remaining |-> Lifetime - request[r].age]
            /\ AcceptedLease(r, request[r]) \in Lease
  <1> DEFINE q == request[r]
             new == [term |-> q.term, placement |-> q.placement, remaining |-> Lifetime - q.age]
  <1>1. q \in Request
    BY DEF TypeOK
  <1>2. q.age \in 0..Lifetime /\ q.term \in Terms /\ q.placement \in Placements
    BY <1>1 DEF Request
  <1>3. ~(Lifetime - q.age <= 0) => new \in Lease
    <2> SUFFICES ASSUME ~(Lifetime - q.age <= 0) PROVE new \in Lease
      OBVIOUS
    <2>1. Lifetime - q.age \in 1..Lifetime
      BY <1>2, LeaseTiming
    <2> QED BY <1>2, <2>1 DEF Lease
  <1> QED BY <1>3 DEF AcceptedLease, RemainingOf

LEMMA AcceptType ==
  ASSUME TypeOK, NEW r \in Nodes, AcceptGrant(r)
  PROVE  TypeOK'
  <1> HIDE DEF Terms, Placements
  <1>1. request[r] \in Request /\ request[r].term \in Terms
    BY DEF AcceptGrant, TypeOK, Request
  <1>2. AcceptedLease(r, request[r]) \in Lease \cup {None}
    BY AcceptedLeaseIs DEF AcceptGrant, TypeOK
  <1> QED BY <1>1, <1>2 DEF AcceptGrant, TypeOK, raftVars, issuerVars

LEMMA RestartType ==
  ASSUME TypeOK, NEW n \in Nodes, Restart(n)
  PROVE  TypeOK'
  <1> HIDE DEF Placements
  <1>1. placement_term[applied[n]] \in Terms /\ 0 \in Terms
    BY LeaseTiming DEF TypeOK
  <1> HIDE DEF Terms
  <1> QED BY <1>1 DEF Restart, TypeOK

LEMMA TickType ==
  ASSUME TypeOK, Tick
  PROVE  TypeOK'
  <1> HIDE DEF Terms, Placements
  <1>1. round' \in [Nodes -> Round \cup {None}]
    <2>1. \A x \in Round : x.age # ProofAge => [x EXCEPT !.age = @ + 1] \in Round
      BY LeaseTiming DEF Round
    <2> QED BY <2>1 DEF Tick, TypeOK
  <1>2. proof' \in [Nodes -> Proof \cup {None}]
    <2>1. \A x \in Proof : x.age # ProofAge => [x EXCEPT !.age = @ + 1] \in Proof
      BY LeaseTiming DEF Proof
    <2> QED BY <2>1 DEF Tick, TypeOK
  <1>3. observed' \in [Nodes -> Cutover \cup {None}]
    BY LeaseTiming DEF Tick, TypeOK, Cutover, MaxOf
  <1>4. pause' \in [Nodes -> Pause \cup {None}]
    BY LeaseTiming DEF Tick, TypeOK, Pause, MaxOf
  <1>5. request' \in [Nodes -> Request \cup {None}]
    <2>1. \A x \in Request :
            [x EXCEPT !.age = IF @ = Lifetime THEN @ ELSE @ + 1] \in Request
      BY LeaseTiming DEF Request
    <2> QED BY <2>1 DEF Tick, TypeOK
  <1>6. lease' \in [Nodes -> Lease \cup {None}]
    BY LeaseTiming DEF Tick, TypeOK, Lease
  <1> QED BY <1>1, <1>2, <1>3, <1>4, <1>5, <1>6 DEF Tick, TypeOK, raftVars
-----------------------------------------------------------------------------
(* Steps that create no authority.                                         *)

LEMMA RaftIInv ==
  ASSUME IInv, NEW n \in Nodes,
         Elect(n) \/ StepDown(n) \/ CommitPlacement(n) \/ ApplyPlacement(n)
  PROVE  IInv'
  <1>1. TypeOK /\ Ranges /\ TypeOK'
    BY TypeRanges, RaftType DEF IInv
  <1> HIDE DEF Terms, Placements
  <1>2. NoNewAuthority
    BY <1>1 DEF Elect, StepDown, CommitPlacement, ApplyPlacement, issuerVars, holderVars,
                NoNewAuthority, Ranges, TypeOK
  <1>3. NoNewWait
    BY <1>1 DEF Elect, StepDown, CommitPlacement, ApplyPlacement, issuerVars,
                NoNewWait, Ranges, IInv, OneLeaderPerTerm
  <1>4. PlacementsCommitted'
    <2>1. CASE Elect(n) \/ StepDown(n)
      BY <2>1 DEF Elect, StepDown, issuerVars, holderVars, IInv, PlacementsCommitted
    <2>2. CASE CommitPlacement(n)
      <3>1. committed' = committed + 1 /\ committed \in Int
            /\ UNCHANGED <<applied, issuerVars, holderVars>>
        BY <1>1, <2>2 DEF CommitPlacement, Ranges
      <3>2. \A x \in Int : x <= committed => x <= committed'
        BY <3>1
      <3>3. Placements \subseteq Int
        BY Numbers
      <3> QED BY <1>1, <3>1, <3>2, <3>3
              DEF issuerVars, holderVars, IInv, PlacementsCommitted, Ranges
    <2>3. CASE ApplyPlacement(n)
      <3>1. applied[n] + 1 <= committed
        BY <1>1, <2>3 DEF ApplyPlacement, Ranges
      <3>2. \A m \in Nodes : applied'[m] <= committed
        BY <1>1, <2>3, <3>1 DEF ApplyPlacement, TypeOK, IInv, PlacementsCommitted
      <3> QED BY <2>3, <3>2
              DEF ApplyPlacement, issuerVars, holderVars, IInv, PlacementsCommitted
    <2> QED BY <2>1, <2>2, <2>3
  <1>5. OneLeaderPerTerm'
    <2>1. CASE Elect(n)
      <3>1. /\ term' = term + 1 /\ term \in Int /\ pause' = pause
            /\ \A m \in Nodes : belief'[m] = IF m = n THEN term + 1 ELSE belief[m]
            /\ \A m \in Nodes : belief[m] \in Int /\ belief[m] <= term
        BY <1>1, <2>1 DEF Elect, issuerVars, IInv, OneLeaderPerTerm, Ranges, TypeOK
      <3>2. \A m \in Nodes : belief'[m] <= term'
        BY <3>1
      <3>3. \A m, k \in Nodes : belief'[m] = belief'[k] /\ belief'[k] # 0 => m = k
        BY <3>1 DEF IInv, OneLeaderPerTerm
      <3>4. \A m \in Nodes : pause[m] # None => pause[m].term \in 1..term
        BY DEF IInv, OneLeaderPerTerm
      <3> QED BY <3>1, <3>2, <3>3, <3>4 DEF OneLeaderPerTerm
    <2>2. CASE StepDown(n)
      BY <1>1, <2>2 DEF StepDown, issuerVars, IInv, OneLeaderPerTerm, Ranges, TypeOK
    <2>3. CASE CommitPlacement(n) \/ ApplyPlacement(n)
      BY <2>3 DEF CommitPlacement, ApplyPlacement, issuerVars, IInv, OneLeaderPerTerm
    <2> QED BY <2>1, <2>2, <2>3
  <1> QED BY <1>1, <1>2, <1>3, <1>4, <1>5, Shrinks DEF IInv

LEMMA PauseIInv ==
  ASSUME IInv, NEW n \in Nodes, FailRound(n) \/ PauseGrants(n) \/ ResumeGrants(n)
  PROVE  IInv'
  <1>1. TypeOK /\ Ranges /\ TypeOK'
    BY TypeRanges, IssuerType DEF IInv
  <1> HIDE DEF Terms, Placements
  <1>2. NoNewAuthority /\ NoNewWait
    BY <1>1 DEF FailRound, PauseGrants, ResumeGrants, raftVars, holderVars,
                NoNewAuthority, NoNewWait, Ranges, TypeOK
  <1>3. PlacementsCommitted'
    BY DEF FailRound, PauseGrants, ResumeGrants, raftVars, holderVars,
           IInv, PlacementsCommitted
  <1>4. OneLeaderPerTerm'
    <2>1. CASE FailRound(n) \/ ResumeGrants(n)
      BY <1>1, <2>1 DEF FailRound, ResumeGrants, raftVars, IInv, OneLeaderPerTerm, TypeOK
    <2>2. CASE PauseGrants(n)
      <3>1. belief[n] \in 1..term
        BY <1>1, <2>2, LeaseTiming
           DEF PauseGrants, IInv, OneLeaderPerTerm, Ranges, TypeOK, Terms
      <3>2. pause' = [pause EXCEPT ![n] = [term |-> belief[n], left |-> CutoverWait]]
            /\ UNCHANGED raftVars
        BY <2>2 DEF PauseGrants
      <3> QED BY <1>1, <3>1, <3>2 DEF raftVars, IInv, OneLeaderPerTerm, TypeOK
    <2> QED BY <2>1, <2>2
  <1> QED BY <1>1, <1>2, <1>3, <1>4, Shrinks DEF IInv

LEMMA HolderIInv ==
  ASSUME IInv, NEW r \in Nodes, NEW n \in Nodes,
         MutationContext(r) \/ BeginRequest(r, n) \/ DropRequest(r)
  PROVE  IInv'
  <1>1. TypeOK /\ Ranges /\ TypeOK'
    BY TypeRanges, HolderType DEF IInv
  <1> HIDE DEF Terms, Placements
  <1>a. /\ \A s \in Nodes : lease'[s] = None \/ lease'[s] = lease[s]
        /\ \A s \in Nodes : placement'[s] = placement[s] \/ placement'[s] = applied[s]
    BY <1>1, SetPlacementType DEF MutationContext, BeginRequest, DropRequest
  <1>b. \A s \in Nodes : \/ request'[s] = None
                         \/ request'[s] = request[s]
                         \/ request'[s].phase = "sent" /\ request'[s].placement = applied[s]
    BY <1>1 DEF MutationContext, BeginRequest, DropRequest, TypeOK
  <1>c. UNCHANGED <<raftVars, issuerVars>>
    BY DEF MutationContext, BeginRequest, DropRequest
  <1>2. NoNewAuthority /\ NoNewWait
    BY <1>1, <1>a, <1>b, <1>c DEF raftVars, issuerVars, NoNewAuthority, NoNewWait, Ranges
  <1>3. PlacementsCommitted'
    BY <1>a, <1>b, <1>c DEF raftVars, issuerVars, IInv, PlacementsCommitted
  <1>4. OneLeaderPerTerm'
    BY <1>c DEF raftVars, issuerVars, IInv, OneLeaderPerTerm
  <1> QED BY <1>1, <1>2, <1>3, <1>4, Shrinks DEF IInv

LEMMA RestartIInv ==
  ASSUME IInv, NEW n \in Nodes, Restart(n)
  PROVE  IInv'
  <1>1. TypeOK /\ Ranges /\ TypeOK'
    BY TypeRanges, RestartType DEF IInv
  <1> HIDE DEF Terms, Placements
  <1>2. NoNewAuthority /\ NoNewWait
    BY <1>1 DEF Restart, NoNewAuthority, NoNewWait, Ranges, TypeOK
  <1>3. PlacementsCommitted'
    BY <1>1 DEF Restart, IInv, PlacementsCommitted, TypeOK
  <1>4. OneLeaderPerTerm'
    <2>1. 0 <= term
      BY <1>1, LeaseTiming DEF TypeOK, Terms
    <2>2. /\ \A m \in Nodes : belief'[m] = IF m = n THEN 0 ELSE belief[m]
          /\ \A m \in Nodes : pause'[m] = IF m = n THEN None ELSE pause[m]
          /\ term' = term
      BY <1>1 DEF Restart, TypeOK
    <2> QED BY <2>1, <2>2 DEF IInv, OneLeaderPerTerm
  <1> QED BY <1>1, <1>2, <1>3, <1>4, Shrinks DEF IInv
-----------------------------------------------------------------------------
(* Steps that create or age authority.                                     *)

(* A round that starts now reads what is committed now, so its proof can   *)
(* only ever serve the newest placement; under a current pause only the    *)
(* pausing leader can start one.                                           *)
LEMMA StartRoundIInv ==
  ASSUME IInv, NEW n \in Nodes, StartRound(n)
  PROVE  IInv'
  <1>1. TypeOK /\ Ranges /\ TypeOK'
    BY TypeRanges, IssuerType DEF IInv
  <1> HIDE DEF Terms, Placements
  <1>a. /\ \A m \in Nodes : \/ round'[m] = round[m]
                            \/ m = n /\ round'[m].read = committed
        /\ \A m \in Nodes : proof'[m] = None \/ proof'[m] = proof[m]
        /\ UNCHANGED <<raftVars, observed, pause, holderVars>>
        /\ belief[n] = term /\ term # 0
    BY <1>1 DEF StartRound, TypeOK, Ranges
  <1>2. QuietKept
    <2>1. ASSUME NEW p \in Placements, NEW w \in Nat, p <= committed, QuietWithin(p, w)
          PROVE  QuietWithin(p, w)'
      <3>1. \A m \in Nodes : round'[m] # None /\ round'[m].read < p => round'[m] = round[m]
        BY <1>1, <1>a, <2>1, Numbers DEF Ranges
      <3> QED BY <1>a, <2>1, <3>1 DEF QuietWithin, raftVars, holderVars
    <2>2. ASSUME NEW m \in Nodes, NEW w \in Nat, pause[m] # None, pause[m].term = term,
                 DrainedWithin(m, w)
          PROVE  DrainedWithin(m, w)'
      <3>1. m = n
        BY <1>a, <2>2 DEF IInv, OneLeaderPerTerm
      <3> QED BY <1>a, <2>2, <3>1 DEF DrainedWithin, holderVars
    <2> QED BY <2>1, <2>2 DEF QuietKept
  <1>3. HoldersOld /\ NoNewWait /\ PlacementsCommitted' /\ OneLeaderPerTerm'
    BY <1>a DEF HoldersOld, NoNewWait, raftVars, holderVars, IInv,
                PlacementsCommitted, OneLeaderPerTerm
  <1> QED BY <1>1, <1>2, <1>3, Kept DEF IInv

(* A proof is no younger than its round, and its leader has applied what   *)
(* the round read.                                                         *)
LEMMA FinishRoundIInv ==
  ASSUME IInv, NEW n \in Nodes, FinishRound(n)
  PROVE  IInv'
  <1>1. TypeOK /\ Ranges /\ TypeOK'
    BY TypeRanges, IssuerType DEF IInv
  <1> HIDE DEF Terms, Placements
  <1>a. /\ round[n] # None /\ applied[n] >= round[n].read
        /\ \A m \in Nodes : round'[m] = IF m = n THEN None ELSE round[m]
        /\ \A m \in Nodes : m # n => proof'[m] = proof[m]
        /\ proof'[n].age = round[n].age
        /\ UNCHANGED <<raftVars, observed, pause, holderVars>>
    BY <1>1 DEF FinishRound, TypeOK, ProofFrom
  <1>2. QuietKept
    <2>1. ASSUME NEW p \in Placements, NEW w \in Nat, QuietWithin(p, w)
          PROVE  QuietWithin(p, w)'
      <3>1. applied[n] < p => round[n].read < p
        <4>1. applied[n] \in Int /\ round[n].read \in Int /\ p \in Int
          BY <1>1, <1>a, Numbers DEF Ranges
        <4> QED BY <1>a, <4>1
      <3> QED BY <1>a, <2>1, <3>1 DEF QuietWithin, raftVars, holderVars
    <2>2. ASSUME NEW m \in Nodes, NEW w \in Nat, DrainedWithin(m, w)
          PROVE  DrainedWithin(m, w)'
      BY <1>a, <2>2 DEF DrainedWithin, holderVars
    <2> QED BY <2>1, <2>2 DEF QuietKept
  <1>3. HoldersOld /\ NoNewWait /\ PlacementsCommitted' /\ OneLeaderPerTerm'
    BY <1>a DEF HoldersOld, NoNewWait, raftVars, holderVars, IInv,
                PlacementsCommitted, OneLeaderPerTerm
  <1> QED BY <1>1, <1>2, <1>3, Kept DEF IInv

(* A formed grant is for the placement its leader has applied and can last *)
(* no longer than the leader's proof and a whole lease together.           *)
LEMMA FormGrantIInv ==
  ASSUME IInv, NEW n \in Nodes, NEW r \in Nodes, FormGrant(n, r)
  PROVE  IInv'
  <1>1. TypeOK /\ Ranges /\ TypeOK'
    BY TypeRanges, GrantType DEF IInv
  <1> HIDE DEF Terms, Placements
  <1>a. /\ request[r] # None /\ request[r].placement = applied[n]
        /\ proof[n] # None /\ pause[n] = None
        /\ \A s \in Nodes : s # r => request'[s] = request[s]
        /\ request'[r].phase = "formed"
        /\ request'[r].age = request[r].age
        /\ request'[r].placement = request[r].placement
        /\ UNCHANGED <<raftVars, issuerVars, placement, highest_term, lease>>
    BY <1>1 DEF FormGrant, Usable, TypeOK, InPhase
  <1>b. Lifetime - request[r].age <= ProofAge - proof[n].age + Lifetime
    BY <1>1, <1>a, LeaseTiming DEF Ranges
  <1>2. QuietKept
    <2>1. ASSUME NEW p \in Placements, NEW w \in Nat, QuietWithin(p, w)
          PROVE  QuietWithin(p, w)'
      <3>1. applied[n] < p => Lifetime - request[r].age <= w
        <4> SUFFICES ASSUME applied[n] < p PROVE Lifetime - request[r].age <= w
          OBVIOUS
        <4>1. ProofAge - proof[n].age + Lifetime <= w
          BY <1>a, <2>1 DEF QuietWithin
        <4> QED BY <1>1, <1>a, <1>b, <4>1, LeaseTiming DEF Ranges
      <3> QED BY <1>a, <2>1, <3>1 DEF QuietWithin, raftVars, issuerVars
    <2>2. ASSUME NEW m \in Nodes, NEW w \in Nat, pause[m] # None, DrainedWithin(m, w)
          PROVE  DrainedWithin(m, w)'
      <3>1. Lifetime - request[r].age <= w
        <4>1. ProofAge - proof[n].age + Lifetime <= w
          BY <1>a, <2>2 DEF DrainedWithin
        <4> QED BY <1>1, <1>a, <1>b, <4>1, LeaseTiming DEF Ranges
      <3> QED BY <1>a, <2>2, <3>1 DEF DrainedWithin, issuerVars
    <2> QED BY <2>1, <2>2 DEF QuietKept
  <1>3. HoldersOld /\ NoNewWait
    BY <1>a DEF HoldersOld, NoNewWait, raftVars, issuerVars
  <1>4. PlacementsCommitted' /\ OneLeaderPerTerm'
    BY <1>1, <1>a DEF raftVars, issuerVars, IInv, PlacementsCommitted, OneLeaderPerTerm
  <1> QED BY <1>1, <1>2, <1>3, <1>4, Kept DEF IInv

(* A permitted grant is one whose wait is over, so the cluster is quiet    *)
(* below its placement; an identity seen for the first time waits longest. *)
LEMMA PermitGrantIInv ==
  ASSUME IInv, NEW n \in Nodes, NEW r \in Nodes, PermitGrant(n, r)
  PROVE  IInv'
  <1>1. TypeOK /\ Ranges /\ TypeOK'
    BY TypeRanges, GrantType DEF IInv
  <1> HIDE DEF Terms, Placements
  <1>a. /\ request[r] # None /\ request[r].phase = "formed"
        /\ UNCHANGED <<raftVars, round, proof, pause, placement, highest_term, lease>>
        /\ \A s \in Nodes : s # r => request'[s] = request[s]
        /\ \/ /\ observed[n] # None /\ observed[n].wait = 0
              /\ observed[n].placement = request[r].placement
              /\ request'[r] = InPhase(request[r], "granted", request[r].term)
              /\ UNCHANGED observed
           \/ request'[r] = None /\ UNCHANGED observed
           \/ /\ request'[r] = None
              /\ \A m \in Nodes : m # n => observed'[m] = observed[m]
              /\ observed'[n].wait = CutoverWait
              /\ observed'[n].placement = request[r].placement
    BY <1>1 DEF PermitGrant, CutoverSeen, TypeOK
  <1>b. \A s \in Nodes : request'[s] # None =>
          /\ request[s] # None
          /\ request'[s].age = request[s].age /\ request'[s].placement = request[s].placement
          /\ request'[s].phase # "sent" => request[s].phase # "sent"
    BY <1>a DEF InPhase
  <1>2. \A p, w : QuietWithin(p, w) => QuietWithin(p, w)'
    BY <1>a, <1>b DEF QuietWithin, raftVars
  <1>3. \A m, w : DrainedWithin(m, w) => DrainedWithin(m, w)'
    BY <1>a, <1>b DEF DrainedWithin, raftVars
  <1>4. CutoverQuiet'
    <2>1. ASSUME NEW m \in Nodes, observed'[m] # None
          PROVE  QuietWithin(observed[m].placement, observed[m].wait)'
      <3>1. CASE observed'[m] = observed[m]
        BY <1>2, <2>1, <3>1 DEF IInv, CutoverQuiet
      <3>2. CASE observed'[m].wait = CutoverWait /\ observed'[m].placement \in Placements
        <4>1. QuietAfterWait'
          BY <1>1, WaitIsEnough, PTL
        <4> QED BY <3>2, <4>1 DEF QuietAfterWait
      <3> QED BY <1>1, <1>a, <3>1, <3>2 DEF Ranges
    <2>2. ASSUME NEW s \in Nodes, request'[s] # None, request'[s].phase = "granted"
          PROVE  QuietWithin(request[s].placement, 0)'
      <3>1. CASE request'[s] = request[s]
        BY <1>2, <2>2, <3>1 DEF IInv, CutoverQuiet
      <3>2. CASE request'[s] # request[s]
        <4>1. s = r /\ observed[n] # None /\ observed[n].wait = 0
              /\ observed[n].placement = request'[s].placement
          BY <1>a, <1>b, <2>2, <3>2
        <4>2. QuietWithin(request'[s].placement, 0)
          BY <4>1 DEF IInv, CutoverQuiet
        <4> QED BY <1>2, <4>2
      <3> QED BY <3>1, <3>2
    <2>3. ASSUME NEW s \in Nodes, lease'[s] # None
          PROVE  QuietWithin(lease[s].placement, 0)'
      BY <1>2, <1>a, <2>3 DEF IInv, CutoverQuiet
    <2> QED BY <2>1, <2>2, <2>3 DEF CutoverQuiet
  <1>5. PauseDrains'
    BY <1>3, <1>a DEF IInv, PauseDrains, raftVars
  <1>6. OneLeaderPerTerm'
    BY <1>a DEF IInv, OneLeaderPerTerm, raftVars
  <1>7. PlacementsCommitted'
    <2>1. \A m \in Nodes : observed'[m] # None => observed'[m].placement <= committed
      BY <1>a DEF IInv, PlacementsCommitted
    <2> QED BY <1>a, <1>b, <2>1 DEF IInv, PlacementsCommitted, raftVars
  <1> QED BY <1>1, <1>4, <1>5, <1>6, <1>7 DEF IInv

(* The accepted lease inherits the placement and the time of its grant.    *)
LEMMA AcceptGrantIInv ==
  ASSUME IInv, NEW r \in Nodes, AcceptGrant(r)
  PROVE  IInv'
  <1>1. TypeOK /\ Ranges /\ TypeOK'
    BY TypeRanges, AcceptType DEF IInv
  <1> HIDE DEF Terms, Placements
  <1>a. /\ request[r] # None /\ request[r].phase = "granted"
        /\ UNCHANGED <<raftVars, issuerVars, placement>>
        /\ \A s \in Nodes : request'[s] = IF s = r THEN None ELSE request[s]
        /\ \A s \in Nodes : s # r => lease'[s] = lease[s]
        /\ lease'[r] = AcceptedLease(r, request[r])
    BY <1>1 DEF AcceptGrant, TypeOK
  <1>b. \/ lease'[r] = None
        \/ lease'[r] = lease[r]
        \/ /\ lease'[r].placement = request[r].placement
           /\ lease'[r].remaining = Lifetime - request[r].age
    <2>1. CASE AcceptedLease(r, request[r]) = None \/ AcceptedLease(r, request[r]) = lease[r]
      BY <1>a, <2>1
    <2>2. CASE AcceptedLease(r, request[r]) =
                 [term |-> request[r].term, placement |-> request[r].placement,
                  remaining |-> Lifetime - request[r].age]
      BY <1>a, <2>2
    <2> QED BY <1>1, <1>a, <2>1, <2>2, AcceptedLeaseIs
  <1>2. \A p, w : QuietWithin(p, w) => QuietWithin(p, w)'
    BY <1>a, <1>b DEF QuietWithin, raftVars, issuerVars
  <1>3. \A m, w : DrainedWithin(m, w) => DrainedWithin(m, w)'
    BY <1>a, <1>b DEF DrainedWithin, issuerVars
  <1>4. CutoverQuiet'
    <2>1. ASSUME NEW s \in Nodes, lease'[s] # None
          PROVE  QuietWithin(lease[s].placement, 0)'
      <3>1. CASE lease'[s] = lease[s]
        BY <1>2, <2>1, <3>1 DEF IInv, CutoverQuiet
      <3>2. CASE lease'[s].placement = request[r].placement
        BY <1>2, <1>a, <2>1, <3>2 DEF IInv, CutoverQuiet
      <3> QED BY <1>a, <1>b, <2>1, <3>1, <3>2
    <2>2. ASSUME NEW s \in Nodes, observed'[s] # None
          PROVE  QuietWithin(observed[s].placement, observed[s].wait)'
      BY <1>2, <1>a, <2>2 DEF IInv, CutoverQuiet, issuerVars
    <2>3. ASSUME NEW s \in Nodes, request'[s] # None, request'[s].phase = "granted"
          PROVE  QuietWithin(request[s].placement, 0)'
      BY <1>2, <1>a, <2>3 DEF IInv, CutoverQuiet
    <2> QED BY <2>1, <2>2, <2>3 DEF CutoverQuiet
  <1>5. PauseDrains'
    BY <1>3, <1>a DEF IInv, PauseDrains, raftVars, issuerVars
  <1>6. OneLeaderPerTerm'
    BY <1>a DEF IInv, OneLeaderPerTerm, raftVars, issuerVars
  <1>7. PlacementsCommitted'
    BY <1>a, <1>b DEF IInv, PlacementsCommitted, raftVars, issuerVars
  <1> QED BY <1>1, <1>4, <1>5, <1>6, <1>7 DEF IInv

(* A tick takes one from every wait and at least one from whatever         *)
(* authority the wait is for.                                              *)
LEMMA TickIInv ==
  ASSUME IInv, Tick
  PROVE  IInv'
  <1>1. TypeOK /\ Ranges /\ TypeOK' /\ Ranges'
    <2>1. TypeOK /\ TypeOK' BY TickType DEF IInv
    <2> QED BY <2>1, TypeRanges, PTL
  <1> HIDE DEF Terms, Placements
  <1>a. /\ \A r \in Nodes : lease'[r] # None =>
             /\ lease[r] # None
             /\ lease'[r].placement = lease[r].placement
             /\ lease'[r].remaining = lease[r].remaining - 1
        /\ \A r \in Nodes : request'[r] # None =>
             /\ request[r] # None
             /\ request'[r].placement = request[r].placement
             /\ request'[r].phase = request[r].phase
             /\ request'[r].age = IF request[r].age = Lifetime THEN Lifetime
                                  ELSE request[r].age + 1
    BY <1>1 DEF Tick, TypeOK, Lease, Request
  <1>b. /\ \A m \in Nodes : proof'[m] # None =>
             proof[m] # None /\ proof'[m].age = proof[m].age + 1
        /\ \A m \in Nodes : round'[m] # None =>
             /\ round[m] # None /\ round'[m].age = round[m].age + 1
             /\ round'[m].read = round[m].read
    BY <1>1 DEF Tick, TypeOK, Proof, Round
  <1>c. /\ \A m \in Nodes : observed'[m] # None =>
             /\ observed[m] # None /\ observed'[m].placement = observed[m].placement
             /\ observed'[m].wait = MaxOf(observed[m].wait - 1, 0)
        /\ \A m \in Nodes : pause'[m] # None =>
             /\ pause[m] # None /\ pause'[m].term = pause[m].term
             /\ pause'[m].left = MaxOf(pause[m].left - 1, 0)
    BY <1>1 DEF Tick, TypeOK, Cutover, Pause
  <1>d. UNCHANGED <<term, belief, committed, applied, placement>>
    BY DEF Tick, raftVars
  <1>e. \A w \in Nat : MaxOf(w - 1, 0) \in Nat /\ (w > 0 => MaxOf(w - 1, 0) = w - 1)
                       /\ (w = 0 => MaxOf(w - 1, 0) = 0)
    BY DEF MaxOf
  <1>2. ASSUME NEW w \in Nat
        PROVE  LET v == MaxOf(w - 1, 0) IN
          /\ \A r \in Nodes : lease'[r] # None /\ lease[r].remaining <= w
                                => lease'[r].remaining <= v
          /\ \A r \in Nodes : request'[r] # None /\ Lifetime - request[r].age <= w
                                => Lifetime - request'[r].age <= v
          /\ \A m \in Nodes : proof'[m] # None /\ ProofAge - proof[m].age + Lifetime <= w
                                => ProofAge - proof'[m].age + Lifetime <= v
          /\ \A m \in Nodes : round'[m] # None /\ ProofAge - round[m].age + Lifetime <= w
                                => ProofAge - round'[m].age + Lifetime <= v
    <2> DEFINE v == MaxOf(w - 1, 0)
    <2>0. v \in Nat /\ (w > 0 => v = w - 1) /\ (w = 0 => v = 0)
      BY <1>e
    <2> HIDE DEF v
    <2>1. \A r \in Nodes : lease'[r] # None /\ lease[r].remaining <= w
                             => lease'[r].remaining <= v
      BY <1>1, <1>a, <2>0 DEF Ranges
    <2>2. \A r \in Nodes : request'[r] # None /\ Lifetime - request[r].age <= w
                             => Lifetime - request'[r].age <= v
      BY <1>1, <1>a, <2>0, LeaseTiming DEF Ranges
    <2>3. \A m \in Nodes : proof'[m] # None /\ ProofAge - proof[m].age + Lifetime <= w
                             => ProofAge - proof'[m].age + Lifetime <= v
      BY <1>1, <1>b, <2>0, LeaseTiming DEF Ranges
    <2>4. \A m \in Nodes : round'[m] # None /\ ProofAge - round[m].age + Lifetime <= w
                             => ProofAge - round'[m].age + Lifetime <= v
      BY <1>1, <1>b, <2>0, LeaseTiming DEF Ranges
    <2> QED BY <2>1, <2>2, <2>3, <2>4 DEF v
  <1>3. \A p, w : w \in Nat /\ QuietWithin(p, w) => QuietWithin(p, MaxOf(w - 1, 0))'
    BY <1>2, <1>a, <1>b, <1>d DEF QuietWithin
  <1>4. \A m, w : w \in Nat /\ DrainedWithin(m, w) => DrainedWithin(m, MaxOf(w - 1, 0))'
    BY <1>2, <1>a, <1>b DEF DrainedWithin
  <1>5. CutoverQuiet'
    <2>0. MaxOf(0 - 1, 0) = 0 /\ 0 \in Nat
      BY <1>e
    <2>1. ASSUME NEW m \in Nodes, observed'[m] # None
          PROVE  QuietWithin(observed[m].placement, observed[m].wait)'
      <3>1. observed[m].wait \in Nat
            /\ QuietWithin(observed[m].placement, observed[m].wait)
        BY <1>1, <1>c, <2>1 DEF Ranges, IInv, CutoverQuiet
      <3> QED BY <1>3, <1>c, <2>1, <3>1
    <2>2. ASSUME NEW s \in Nodes, request'[s] # None, request'[s].phase = "granted"
          PROVE  QuietWithin(request[s].placement, 0)'
      <3>1. QuietWithin(request[s].placement, 0)
            /\ request'[s].placement = request[s].placement
        BY <1>a, <2>2 DEF IInv, CutoverQuiet
      <3> QED BY <1>3, <2>0, <3>1
    <2>3. ASSUME NEW s \in Nodes, lease'[s] # None
          PROVE  QuietWithin(lease[s].placement, 0)'
      <3>1. QuietWithin(lease[s].placement, 0) /\ lease'[s].placement = lease[s].placement
        BY <1>a, <2>3 DEF IInv, CutoverQuiet
      <3> QED BY <1>3, <2>0, <3>1
    <2> QED BY <2>1, <2>2, <2>3 DEF CutoverQuiet
  <1>6. PauseDrains'
    <2> SUFFICES ASSUME NEW m \in Nodes, pause'[m] # None, pause'[m].term = term'
                 PROVE  DrainedWithin(m, pause[m].left)'
      BY DEF PauseDrains
    <2>1. pause[m].left \in Nat /\ DrainedWithin(m, pause[m].left)
      BY <1>1, <1>c, <1>d DEF Ranges, IInv, PauseDrains
    <2> QED BY <1>4, <1>c, <2>1
  <1>7. OneLeaderPerTerm' /\ PlacementsCommitted'
    BY <1>a, <1>c, <1>d DEF IInv, OneLeaderPerTerm, PlacementsCommitted
  <1> QED BY <1>1, <1>5, <1>6, <1>7 DEF IInv
-----------------------------------------------------------------------------
LEMMA InitIInv == Init => IInv
  <1> SUFFICES ASSUME Init PROVE IInv
    OBVIOUS
  <1>1. TypeOK
    BY LeaseTiming DEF Init, TypeOK
  <1>2. PlacementsCommitted /\ OneLeaderPerTerm
    BY DEF Init, PlacementsCommitted, OneLeaderPerTerm
  <1>3. CutoverQuiet /\ PauseDrains
    BY DEF Init, CutoverQuiet, PauseDrains
  <1> QED BY <1>1, <1>2, <1>3 DEF IInv

LEMMA NextIInv == IInv /\ [Next]_vars => IInv'
  <1> SUFFICES ASSUME IInv, [Next]_vars PROVE IInv'
    OBVIOUS
  <1>1. CASE UNCHANGED vars
    BY <1>1 DEF vars, raftVars, issuerVars, holderVars, IInv, TypeOK, PlacementsCommitted,
                OneLeaderPerTerm, CutoverQuiet, PauseDrains, QuietWithin, DrainedWithin
  <1>2. CASE Tick
    BY <1>2, TickIInv
  <1>3. ASSUME NEW n \in Nodes,
               Elect(n) \/ StepDown(n) \/ CommitPlacement(n) \/ ApplyPlacement(n)
        PROVE  IInv'
    BY <1>3, RaftIInv
  <1>4. ASSUME NEW n \in Nodes,
               StartRound(n) \/ FinishRound(n) \/ FailRound(n)
               \/ PauseGrants(n) \/ ResumeGrants(n)
        PROVE  IInv'
    BY <1>4, StartRoundIInv, FinishRoundIInv, PauseIInv
  <1>5. ASSUME NEW n \in Nodes,
               MutationContext(n) \/ DropRequest(n) \/ AcceptGrant(n) \/ Restart(n)
        PROVE  IInv'
    BY <1>5, HolderIInv, AcceptGrantIInv, RestartIInv
  <1>6. ASSUME NEW n \in Nodes, NEW r \in Nodes,
               BeginRequest(r, n) \/ FormGrant(n, r) \/ PermitGrant(n, r)
        PROVE  IInv'
    BY <1>6, HolderIInv, FormGrantIInv, PermitGrantIInv
  <1> QED BY <1>1, <1>2, <1>3, <1>4, <1>5, <1>6 DEF Next

LEMMA SpecIInv == Spec => []IInv
  BY InitIInv, NextIInv, PTL DEF Spec

(* Every reachable lease state is well typed: no timer leaves its range.   *)
THEOREM LeasesTypeCorrect == Spec => []TypeOK
  <1>1. IInv => TypeOK BY DEF IInv
  <1> QED BY <1>1, SpecIInv, PTL

(* ServingLeaseIssuer and ServingLeaseState: with                          *)
(* ProofAge + Lifetime <= CutoverWait no two leases of different           *)
(* placements are ever alive together.                                     *)
THEOREM LeasesNeverOverlapPlacements == Spec => []OnePlacementServes
  <1>1. IInv => OnePlacementServes
    <2> SUFFICES ASSUME IInv, NEW r \in Nodes, NEW s \in Nodes,
                        lease[r] # None, lease[s] # None,
                        lease[r].placement # lease[s].placement
                 PROVE  FALSE
      BY DEF OnePlacementServes
    <2>1. Ranges
      BY TypeRanges DEF IInv
    <2>2. QuietWithin(lease[r].placement, 0) /\ QuietWithin(lease[s].placement, 0)
      BY DEF IInv, CutoverQuiet
    <2>3. lease[r].placement \in Int /\ lease[s].placement \in Int
      BY <2>1, Numbers DEF Ranges
    <2>4. CASE lease[r].placement < lease[s].placement
      BY <2>1, <2>2, <2>4 DEF QuietWithin, Ranges
    <2>5. CASE lease[s].placement < lease[r].placement
      BY <2>1, <2>2, <2>5 DEF QuietWithin, Ranges
    <2> QED BY <2>3, <2>4, <2>5
  <1> QED BY <1>1, SpecIInv, PTL

(* pause_grants: a pause that the newest leader has held for CutoverWait   *)
(* leaves no lease anywhere.                                               *)
THEOREM PausedClusterIsDrained == Spec => []PauseDrainsLeases
  <1>1. IInv => PauseDrainsLeases
    <2> SUFFICES ASSUME IInv, NEW n \in Nodes, pause[n] # None, pause[n].left = 0,
                        pause[n].term = term, NEW r \in Nodes, lease[r] # None
                 PROVE  FALSE
      BY DEF PauseDrainsLeases
    <2>1. Ranges
      BY TypeRanges DEF IInv
    <2>2. DrainedWithin(n, 0)
      BY DEF IInv, PauseDrains
    <2> QED BY <2>1, <2>2 DEF DrainedWithin, Ranges
  <1> QED BY <1>1, SpecIInv, PTL
=============================================================================
