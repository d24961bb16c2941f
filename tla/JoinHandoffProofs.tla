-------------------------- MODULE JoinHandoffProofs -------------------------
(***************************************************************************)
(* JoinHandoff for groups of one to three ACTIVE nodes, any number of      *)
(* writes, elections and faults.                                           *)
(*                                                                         *)
(* An attempt is current while its term is the Raft term.  Only then do    *)
(* the drains it counted hold: nobody else can have reopened a gate, since *)
(* a node releases its drain for the leader it knows, and it knew this one *)
(* when it closed.                                                         *)
(***************************************************************************)
EXTENDS JoinHandoff, FiniteSetTheorems, TLAPS

Draining == {"closing", "paused", "waited", "sampled", "delivered",
             "transferred", "checked", "permitted"}
Drained == Draining \ {"closing"}
Waited == Drained \ {"paused"}
Transferred == {"transferred", "checked", "permitted"}

(* An attempt began in a term its node was elected in; a node elected in   *)
(* the present term leads, or has restarted and knows no leader.           *)
Terms(n) ==
    /\ elected[n] <= term
    /\ attempt[n].term <= elected[n]
    /\ attempt[n].pc = "idle" => attempt[n] = NoAttempt
    /\ attempt[n].pc = "opening" => activated
    /\ elected[n] = term =>
          \/ leader = n
          \/ leader = NoLeader /\ knows[n] # n /\ attempt[n].pc = "idle"

TermsOK == \A n \in Active : Terms(n)

(* A write has its fence from the moment it is prepared; whoever confirmed *)
(* it stores it, and an acknowledged one is selected by every quorum.      *)
Recorded(w) ==
    /\ write[w].pc \in {"idle", "entered", "admitted"} => write[w].fence = "none"
    /\ write[w].confirmed \subseteq write[w].stored
    /\ write[w].pc = "acked" => w \in Selected

WritesOK == \A w \in Writes : Recorded(w)

(* The drains of n: a gate it closed is closed, on a node that has known   *)
(* no other leader since, and a node that answered holds no public call.   *)
DrainsHold(n) ==
    /\ \A m \in attempt[n].closed : gate[m] /\ knows[m] \in {n, NoLeader}
    /\ \A m \in Nodes \ attempt[n].todo :
          m \in attempt[n].closed /\ \A w \in Writes : write[w].origin # m

(* What the leader has established with an attempt that is current.        *)
Established(n) ==
    /\ attempt[n].pc # "opening" => ~activated
    /\ attempt[n].pc \in Draining => DrainsHold(n)
    /\ attempt[n].pc \in Drained => attempt[n].todo = {}
    /\ attempt[n].pc \in Waited => lease = "none"
    /\ attempt[n].pc \in Transferred =>
          \A w \in Writes : write[w].pc = "acked" => w \in copied

CurrentOK == \A n \in Active : attempt[n].term = term => Established(n)

(* After such an attempt has activated, no write under the old fence can   *)
(* be acknowledged any more and no lease for the old placement exists.     *)
Carried(w) ==
    write[w].fence = "old" =>
        IF write[w].pc = "acked" THEN w \in copied ELSE write[w].origin = "none"

CarriedOK ==
    activated /\ unbroken => lease # "old" /\ \A w \in Writes : Carried(w)

(* The inductive invariant.                                                *)
HandoffInv == TypeOK /\ TermsOK /\ WritesOK /\ CurrentOK /\ CarriedOK

---------------------------------------------------------------------------
(* Types of the two records, and how a write may change *)

AttemptRecord ==
    [pc : Phases, todo : SUBSET Nodes, closed : SUBSET Nodes,
     sample : SUBSET Writes, term : 0..MaxTerm]

WriteRecord ==
    [pc : {"idle", "entered", "admitted", "prepared", "replicating", "acked",
           "failed"},
     kind : {"object", "program"}, origin : Nodes \cup {"none"},
     fence : {"none", "old", "new"}, receiving : SUBSET Active,
     stored : SUBSET Active, confirmed : SUBSET Active]

(* What any step does to a write w, as far as the invariant can tell: it   *)
(* loses no copy, takes an origin only where a gate is open, a fence only  *)
(* from a lease or a committed decision, and is acknowledged only to a     *)
(* client that is still there and from a quorum.                           *)
WriteMove(w) ==
    /\ write'[w] \in WriteRecord
    /\ write[w].stored \subseteq write'[w].stored
    /\ write'[w].confirmed \subseteq write'[w].stored
    /\ write'[w].pc \in {"idle", "entered", "admitted"} => write'[w].fence = "none"
    /\ write[w].pc = "acked" => write'[w].pc = "acked"
    /\ \/ write'[w].origin \in {write[w].origin, "none"}
       \/ write'[w].origin \in Nodes /\ ~gate[write'[w].origin] /\ write'[w].fence = "none"
    /\ write'[w].pc = "acked" =>
          \/ write[w].pc = "acked"
          \/ /\ write[w].origin # "none"
             /\ Cardinality(write[w].confirmed) >= quorum(Cardinality(Active))
    /\ \/ write'[w].fence = write[w].fence
       \/ /\ write'[w].fence = FenceAt(Coordinator)
          /\ lease = FenceAt(Coordinator) \/ CaughtUp(Coordinator)

(* Every write makes such a move. *)
WritesMove == write' \in [Writes -> WriteRecord] /\ \A w \in Writes : WriteMove(w)

LEMMA TypeParts ==
    TypeOK <=>
      /\ leader \in Active \cup {NoLeader} /\ term \in 1..MaxTerm
      /\ elected \in [Active -> 0..MaxTerm]
      /\ knows \in [Nodes -> Active \cup {NoLeader}]
      /\ activated \in BOOLEAN /\ unbroken \in BOOLEAN
      /\ placed \subseteq (IF activated THEN Nodes ELSE {})
      /\ monitored \subseteq Nodes /\ gate \in [Nodes -> BOOLEAN]
      /\ attempt \in [Active -> AttemptRecord]
      /\ lease \in {"none", "old", "new"}
      /\ write \in [Writes -> WriteRecord]
      /\ copied \subseteq Writes /\ faults \in 0..MaxFaults
      /\ stuck \in {"none", "unsettled", "undelivered"}
  BY DEF TypeOK, AttemptRecord, WriteRecord

(* A write that a step leaves alone has made such a move. *)
LEMMA WriteStays ==
    ASSUME HandoffInv, NEW w \in Writes, write'[w] = write[w]
    PROVE  WriteMove(w)
  <1>1. write[w] \in WriteRecord /\ Recorded(w)
    BY TypeParts DEF HandoffInv, WritesOK
  <1> QED BY <1>1 DEF WriteMove, Recorded

(* Only the write w moves. *)
LEMMA OneWriteMoves ==
    ASSUME HandoffInv, NEW w \in Writes, write' \in [Writes -> WriteRecord],
           \A v \in Writes \ {w} : write'[v] = write[v], WriteMove(w)
    PROVE  WritesMove
  BY WriteStays DEF WritesMove

---------------------------------------------------------------------------
(* The steps of a write are such moves *)

LEMMA EnterMoves ==
    ASSUME HandoffInv, NEW w \in Writes, NEW x \in Origins,
           NEW kind \in {"object", "program"}, Enter(w, x, kind)
    PROVE  WritesMove
  <1>1. write \in [Writes -> WriteRecord] /\ Recorded(w)
    BY TypeParts DEF HandoffInv, WritesOK
  <1>2. x \in Nodes BY ActiveAssumption DEF Nodes
  <1>3. /\ write[w].pc = "idle" /\ ~gate[x]
        /\ write' \in [Writes -> WriteRecord]
        /\ \A v \in Writes \ {w} : write'[v] = write[v]
        /\ write'[w].pc = "entered"
        /\ write'[w].kind = kind
        /\ write'[w].origin = x
        /\ write'[w].fence = write[w].fence
        /\ write'[w].receiving = write[w].receiving
        /\ write'[w].stored = write[w].stored
        /\ write'[w].confirmed = write[w].confirmed
    BY <1>1, <1>2 DEF Enter, WriteRecord
  <1>4. WriteMove(w)
    BY <1>1, <1>2, <1>3 DEF WriteMove, Recorded, WriteRecord
  <1> QED BY <1>3, <1>4, OneWriteMoves

(* The call ends, with a quorum if it ends acknowledged. *)
LEMMA AnswerMoves ==
    ASSUME HandoffInv, NEW w \in Writes, NEW outcome \in {"acked", "failed"},
           Answer(w, outcome), write[w].pc # "acked",
           outcome = "acked" =>
              /\ write[w].origin # "none"
              /\ Cardinality(write[w].confirmed) >= quorum(Cardinality(Active))
    PROVE  WritesMove
  <1>1. write \in [Writes -> WriteRecord] /\ Recorded(w)
    BY TypeParts DEF HandoffInv, WritesOK
  <1>2. /\ write' \in [Writes -> WriteRecord]
        /\ \A v \in Writes \ {w} : write'[v] = write[v]
        /\ write'[w].pc = outcome
        /\ write'[w].kind = write[w].kind
        /\ write'[w].origin = "none"
        /\ write'[w].fence = write[w].fence
        /\ write'[w].receiving = write[w].receiving
        /\ write'[w].stored = write[w].stored
        /\ write'[w].confirmed = {}
    BY <1>1 DEF Answer, WriteRecord
  <1>3. WriteMove(w)
    BY <1>1, <1>2 DEF WriteMove, Recorded, WriteRecord
  <1> QED BY <1>2, <1>3, OneWriteMoves

LEMMA AdmitMoves ==
    ASSUME HandoffInv, NEW w \in Writes, Admit(w)
    PROVE  WritesMove
  <1>1. write \in [Writes -> WriteRecord] /\ Recorded(w)
    BY TypeParts DEF HandoffInv, WritesOK
  <1>2. CASE write' = [write EXCEPT ![w].pc = "admitted"]
    <2>1. /\ write[w].pc = "entered"
          /\ write' \in [Writes -> WriteRecord]
          /\ \A v \in Writes \ {w} : write'[v] = write[v]
          /\ write'[w] = [write[w] EXCEPT !.pc = "admitted"]
      BY <1>1, <1>2 DEF Admit, WriteRecord
    <2>2. WriteMove(w)
      BY <1>1, <2>1 DEF WriteMove, Recorded, WriteRecord
    <2> QED BY <2>1, <2>2, OneWriteMoves
  <1>3. CASE Answer(w, "failed")
    <2>1. write[w].pc = "entered" BY DEF Admit
    <2> QED BY <1>3, <2>1, AnswerMoves
  <1> QED BY <1>2, <1>3 DEF Admit

LEMMA CaptureMoves ==
    ASSUME HandoffInv, NEW w \in Writes, Capture(w)
    PROVE  WritesMove
  <1>1. write \in [Writes -> WriteRecord] /\ Recorded(w)
    BY TypeParts DEF HandoffInv, WritesOK
  <1>2. write[w].pc = "admitted" BY DEF Capture
  <1>3. CASE Answer(w, "failed") BY <1>2, <1>3, AnswerMoves
  <1>4. CASE /\ lease = FenceAt(Coordinator) \/ CaughtUp(Coordinator)
             /\ write' = [write EXCEPT ![w].pc = "prepared",
                                       ![w].fence = FenceAt(Coordinator)]
    <2>1. FenceAt(Coordinator) \in {"old", "new"} BY DEF FenceAt
    <2>2. /\ write' \in [Writes -> WriteRecord]
          /\ \A v \in Writes \ {w} : write'[v] = write[v]
          /\ write'[w].pc = "prepared"
          /\ write'[w].kind = write[w].kind
          /\ write'[w].origin = write[w].origin
          /\ write'[w].fence = FenceAt(Coordinator)
          /\ write'[w].receiving = write[w].receiving
          /\ write'[w].stored = write[w].stored
          /\ write'[w].confirmed = write[w].confirmed
      BY <1>1, <1>4, <2>1 DEF WriteRecord
    <2>3. WriteMove(w)
      BY <1>1, <1>2, <1>4, <2>1, <2>2 DEF WriteMove, Recorded, WriteRecord
    <2> QED BY <2>2, <2>3, OneWriteMoves
  <1>5. write[w].kind \in {"object", "program"} BY <1>1 DEF WriteRecord
  <1> QED BY <1>3, <1>4, <1>5 DEF Capture

LEMMA StoreLocalMoves ==
    ASSUME HandoffInv, NEW w \in Writes, StoreLocal(w)
    PROVE  WritesMove
  <1>1. write \in [Writes -> WriteRecord] /\ Recorded(w)
    BY TypeParts DEF HandoffInv, WritesOK
  <1>2. PICK c \in Active : c = Coordinator BY ActiveAssumption
  <1>3. /\ write[w].pc = "prepared"
        /\ write' = [write EXCEPT ![w].pc = "replicating",
                                  ![w].stored = write[w].stored \cup {c},
                                  ![w].confirmed = {c}]
    BY <1>1, <1>2 DEF StoreLocal
  <1>4. PICK stored \in SUBSET Active, confirmed \in SUBSET Active :
          stored = write[w].stored \cup {c} /\ confirmed = {c}
    BY <1>1 DEF WriteRecord
  <1>5. /\ write' \in [Writes -> WriteRecord]
        /\ \A v \in Writes \ {w} : write'[v] = write[v]
        /\ write'[w].pc = "replicating"
        /\ write'[w].origin = write[w].origin
        /\ write'[w].fence = write[w].fence
        /\ write'[w].stored = stored
        /\ write'[w].confirmed = confirmed
    <2>1. write' = [write EXCEPT ![w].pc = "replicating", ![w].stored = stored,
                                 ![w].confirmed = confirmed]
      BY <1>3, <1>4
    <2>2. write \in [Writes -> WriteRecord] BY <1>1
    <2>3. \A v \in Writes \ {w} : write'[v] = write[v] BY <2>1, <2>2
    <2>4. write'[w] = [write[w] EXCEPT !.pc = "replicating", !.stored = stored,
                                       !.confirmed = confirmed]
      BY <2>1, <2>2
    <2>5. write[w] \in WriteRecord BY <2>2
    <2>6. /\ write'[w] \in WriteRecord
          /\ write'[w].pc = "replicating"
          /\ write'[w].origin = write[w].origin
          /\ write'[w].fence = write[w].fence
          /\ write'[w].stored = stored
          /\ write'[w].confirmed = confirmed
      BY <2>4, <2>5 DEF WriteRecord
    <2>7. write' \in [Writes -> WriteRecord]
      BY <2>1, <2>2, <2>3, <2>6
    <2> QED BY <2>3, <2>6, <2>7
  <1>6. WriteMove(w)
    BY <1>1, <1>3, <1>4, <1>5 DEF WriteMove, Recorded
  <1> QED BY <1>5, <1>6, OneWriteMoves

LEMMA ReceiveMoves ==
    ASSUME HandoffInv, NEW w \in Writes, NEW b \in Active, Receive(w, b) \/ Redrive(w, b)
    PROVE  WritesMove
  <1>1. write \in [Writes -> WriteRecord] /\ Recorded(w)
    BY TypeParts DEF HandoffInv, WritesOK
  <1>2. /\ write' \in [Writes -> WriteRecord]
        /\ \A v \in Writes \ {w} : write'[v] = write[v]
        /\ write'[w] = [write[w] EXCEPT !.receiving = @ \cup {b}]
    BY <1>1 DEF Receive, Redrive, WriteRecord
  <1>3. WriteMove(w)
    BY <1>1, <1>2 DEF WriteMove, Recorded, WriteRecord
  <1> QED BY <1>2, <1>3, OneWriteMoves

LEMMA ApplyReplicaMoves ==
    ASSUME HandoffInv, NEW w \in Writes, NEW b \in Active, ApplyReplica(w, b)
    PROVE  WritesMove
  <1>1. write \in [Writes -> WriteRecord] /\ Recorded(w)
    BY TypeParts DEF HandoffInv, WritesOK
  <1>2. /\ write' \in [Writes -> WriteRecord]
        /\ \A v \in Writes \ {w} : write'[v] = write[v]
        /\ write'[w].pc = write[w].pc /\ write'[w].fence = write[w].fence
        /\ write'[w].origin = write[w].origin
        /\ \/ /\ write'[w].stored = write[w].stored \cup {b}
              /\ write'[w].confirmed \in {write[w].confirmed, write[w].confirmed \cup {b}}
           \/ /\ write'[w].stored = write[w].stored
              /\ write'[w].confirmed = write[w].confirmed
    BY <1>1 DEF ApplyReplica, WriteRecord
  <1>3. WriteMove(w)
    BY <1>1, <1>2 DEF WriteMove, Recorded
  <1> QED BY <1>2, <1>3, OneWriteMoves

LEMMA FinishMoves ==
    ASSUME HandoffInv, NEW w \in Writes, Finish(w)
    PROVE  WritesMove
  <1>1. PICK outcome \in {"acked", "failed"} :
          /\ outcome = IF write[w].origin = "none" THEN "failed" ELSE "acked"
          /\ Answer(w, outcome)
    BY DEF Finish
  <1>2. /\ write[w].pc = "replicating"
        /\ Cardinality(write[w].confirmed) >= quorum(Cardinality(Active))
    BY DEF Finish
  <1> QED BY <1>1, <1>2, AnswerMoves

LEMMA AbandonMoves ==
    ASSUME HandoffInv, NEW w \in Writes, Abandon(w)
    PROVE  WritesMove
  <1>1. write[w].pc = "replicating" /\ Answer(w, "failed") BY DEF Abandon
  <1> QED BY <1>1, AnswerMoves

LEMMA CancelMoves ==
    ASSUME HandoffInv, NEW w \in Writes, Cancel(w)
    PROVE  WritesMove
  <1>1. write \in [Writes -> WriteRecord] /\ Recorded(w)
    BY TypeParts DEF HandoffInv, WritesOK
  <1>2. /\ write' \in [Writes -> WriteRecord]
        /\ \A v \in Writes \ {w} : write'[v] = write[v]
        /\ write'[w] = [write[w] EXCEPT !.origin = "none"]
    BY <1>1 DEF Cancel, WriteRecord
  <1>3. WriteMove(w)
    BY <1>1, <1>2 DEF WriteMove, Recorded, WriteRecord
  <1> QED BY <1>2, <1>3, OneWriteMoves

(* A restart ends the calls its node coordinates and drops its permits. *)
LEMMA RestartMoves ==
    ASSUME HandoffInv, NEW n \in Nodes, Restart(n)
    PROVE  WritesMove
  <1>1. /\ write \in [Writes -> WriteRecord]
        /\ write' = [w \in Writes |-> WriteAfterRestart(w, n)]
        /\ \A w \in Writes : Recorded(w)
    BY TypeParts DEF HandoffInv, WritesOK, Restart
  <1>2. ASSUME NEW w \in Writes PROVE WriteMove(w)
    <2>1. write[w] \in WriteRecord /\ Recorded(w) BY <1>1
    <2>2. /\ write'[w] \in WriteRecord
          /\ write'[w].pc \in {write[w].pc, "failed"}
          /\ write[w].pc = "acked" => write'[w].pc = "acked"
          /\ write'[w].origin \in {write[w].origin, "none"}
          /\ write'[w].fence = write[w].fence
          /\ write'[w].stored = write[w].stored
          /\ write'[w].confirmed \subseteq write[w].confirmed
      BY <1>1, <2>1 DEF WriteAfterRestart, WriteRecord, Coordinating
    <2> QED BY <2>1, <2>2 DEF WriteMove, Recorded
  <1>3. write' \in [Writes -> WriteRecord]
    BY <1>1, <1>2 DEF WriteMove
  <1> QED BY <1>2, <1>3 DEF WritesMove

---------------------------------------------------------------------------
(* What such moves preserve *)

LEMMA TypePartsNext ==
    TypeOK' <=>
      /\ leader' \in Active \cup {NoLeader} /\ term' \in 1..MaxTerm
      /\ elected' \in [Active -> 0..MaxTerm]
      /\ knows' \in [Nodes -> Active \cup {NoLeader}]
      /\ activated' \in BOOLEAN /\ unbroken' \in BOOLEAN
      /\ placed' \subseteq (IF activated' THEN Nodes ELSE {})
      /\ monitored' \subseteq Nodes /\ gate' \in [Nodes -> BOOLEAN]
      /\ attempt' \in [Active -> AttemptRecord]
      /\ lease' \in {"none", "old", "new"}
      /\ write' \in [Writes -> WriteRecord]
      /\ copied' \subseteq Writes /\ faults' \in 0..MaxFaults
      /\ stuck' \in {"none", "unsettled", "undelivered"}
  BY DEF TypeOK, AttemptRecord, WriteRecord

(* A step that changes no write makes such moves. *)
LEMMA NoWriteMoves ==
    ASSUME HandoffInv, UNCHANGED write
    PROVE  WritesMove
  <1>1. write \in [Writes -> WriteRecord] BY TypeParts DEF HandoffInv
  <1> QED BY <1>1, WriteStays DEF WritesMove

(* A group with more copies has as many members at least. *)
LEMMA MoreCopies ==
    ASSUME NEW S \in SUBSET Active, NEW T \in SUBSET Active, S \subseteq T
    PROVE  Cardinality(S) \in Nat /\ Cardinality(T) \in Nat
           /\ Cardinality(S) <= Cardinality(T)
  <1>1. IsFiniteSet(T) /\ IsFiniteSet(S)
    BY ActiveAssumption, FS_Subset
  <1> QED BY <1>1, FS_Subset, FS_CardinalityType

LEMMA MaxTermType == MaxTerm \in Nat /\ MaxTerm > 0 /\ MaxFaults \in Nat
  BY ActiveAssumption

LEMMA QuorumType == quorum(Cardinality(Active)) \in Nat
  BY DEF quorum

(* A write whose copies only grow in number stays selected. *)
LEMMA SelectedGrows ==
    ASSUME HandoffInv, NEW w \in Writes, WriteMove(w), w \in Selected
    PROVE  w \in Selected'
  <1>1. write[w] \in WriteRecord BY TypeParts DEF HandoffInv
  <1>2. PICK S \in SUBSET Active, T \in SUBSET Active :
          S = write[w].stored /\ T = write'[w].stored /\ S \subseteq T
    BY <1>1 DEF WriteMove, WriteRecord
  <1>3. Cardinality(S) \in Nat /\ Cardinality(T) \in Nat
        /\ Cardinality(S) <= Cardinality(T)
    BY <1>2, MoreCopies
  <1>4. \/ Cardinality(S) >= quorum(Cardinality(Active))
        \/ Cardinality(Active) = 2 /\ S # {}
    BY <1>2 DEF Selected
  <1>5. \/ Cardinality(T) >= quorum(Cardinality(Active))
        \/ Cardinality(Active) = 2 /\ T # {}
    BY <1>2, <1>3, <1>4, QuorumType
  <1> QED BY <1>2, <1>5 DEF Selected

(* The quorum that confirmed stores, so the write is selected. *)
LEMMA QuorumSelects ==
    ASSUME HandoffInv, NEW w \in Writes, WriteMove(w),
           Cardinality(write[w].confirmed) >= quorum(Cardinality(Active))
    PROVE  w \in Selected'
  <1>1. write[w] \in WriteRecord /\ Recorded(w)
    BY TypeParts DEF HandoffInv, WritesOK
  <1>2. PICK C \in SUBSET Active, S \in SUBSET Active :
          C = write[w].confirmed /\ S = write[w].stored /\ C \subseteq S
    BY <1>1 DEF Recorded, WriteRecord
  <1>3. Cardinality(S) >= quorum(Cardinality(Active))
    BY <1>2, MoreCopies, QuorumType
  <1>4. w \in Selected BY <1>2, <1>3 DEF Selected
  <1> QED BY <1>4, SelectedGrows

LEMMA WritesKept ==
    ASSUME HandoffInv, WritesMove
    PROVE  WritesOK'
  <1> SUFFICES ASSUME NEW w \in Writes PROVE Recorded(w)'
    BY DEF WritesOK
  <1>1. WriteMove(w) /\ Recorded(w) BY DEF WritesMove, HandoffInv, WritesOK
  <1>2. ASSUME write'[w].pc = "acked" PROVE w \in Selected'
    <2>1. CASE write[w].pc = "acked"
      BY <1>1, <2>1, SelectedGrows DEF Recorded
    <2>2. CASE write[w].pc # "acked"
      BY <1>1, <1>2, <2>2, QuorumSelects DEF WriteMove
    <2> QED BY <2>1, <2>2
  <1> QED BY <1>1, <1>2 DEF WriteMove, Recorded

(* Old fences die out: a write gets its fence under a lease or after a     *)
(* decision that is of the new placement, and one that kept the old fence  *)
(* has nobody left to answer.                                              *)
LEMMA CarriedKept ==
    ASSUME HandoffInv, WritesMove, UNCHANGED <<activated, unbroken>>,
           lease' # "old" \/ lease' = lease,
           copied' = copied \/ copied' = Selected
    PROVE  CarriedOK'
  <1> SUFFICES ASSUME activated, unbroken
               PROVE  lease' # "old" /\ \A w \in Writes : Carried(w)'
    BY DEF CarriedOK
  <1>1. lease # "old" /\ \A w \in Writes : Carried(w)
    BY DEF HandoffInv, CarriedOK
  <1>2. lease = FenceAt(Coordinator) \/ CaughtUp(Coordinator) => FenceAt(Coordinator) = "new"
    BY <1>1 DEF FenceAt, CaughtUp
  <1>3. ASSUME NEW w \in Writes, write'[w].fence = "old",
               ~(IF write'[w].pc = "acked" THEN w \in copied' ELSE write'[w].origin = "none")
        PROVE  FALSE
    <2>1. WriteMove(w) /\ Recorded(w) /\ Carried(w)
      BY <1>1 DEF WritesMove, HandoffInv, WritesOK
    <2>2. write[w].fence = "old" BY <1>2, <1>3, <2>1 DEF WriteMove
    <2>3. CASE write[w].pc = "acked"
      <3>1. w \in copied /\ w \in Selected
        BY <2>1, <2>2, <2>3 DEF Carried, Recorded
      <3> QED BY <1>3, <2>1, <2>3, <3>1 DEF WriteMove
    <2>4. CASE write[w].pc # "acked"
      <3>1. write[w].origin = "none" BY <2>1, <2>2, <2>4 DEF Carried
      <3> QED BY <1>3, <2>1, <2>4, <3>1 DEF WriteMove
    <2> QED BY <2>3, <2>4
  <1> QED BY <1>1, <1>3 DEF Carried

(* The node of a current attempt leads. *)
LEMMA CurrentLeads ==
    ASSUME HandoffInv, NEW n \in Active, attempt[n].term = term
    PROVE  leader = n /\ elected[n] = term /\ attempt[n].pc # "idle"
  <1>1. /\ term \in 1..MaxTerm /\ elected[n] \in 0..MaxTerm
        /\ attempt[n] \in AttemptRecord /\ Terms(n)
    BY TypeParts DEF HandoffInv, TermsOK
  <1>2. attempt[n].pc # "idle"
    BY <1>1 DEF Terms, NoAttempt
  <1>3. elected[n] = term
    BY <1>1, MaxTermType DEF Terms, AttemptRecord
  <1> QED BY <1>1, <1>2, <1>3 DEF Terms

(* What a current attempt has established stays, if the step leaves the    *)
(* attempt and its gates alone.                                            *)
LEMMA EstablishedKept ==
    ASSUME HandoffInv, WritesMove, NEW n \in Active, attempt[n].term = term,
           attempt'[n] = attempt[n], UNCHANGED activated,
           lease' \in {lease, "none"},
           copied' = copied \/ copied' = Selected,
           attempt[n].pc \in Draining =>
              \A m \in attempt[n].closed : gate'[m] /\ knows'[m] \in {n, NoLeader}
    PROVE  Established(n)'
  <1>1. Established(n) /\ attempt[n] \in AttemptRecord
    BY TypeParts DEF HandoffInv, CurrentOK
  <1>2. ASSUME attempt[n].pc \in Draining PROVE DrainsHold(n)'
    <2>1. DrainsHold(n) BY <1>1, <1>2 DEF Established
    <2>2. ASSUME NEW m \in Nodes \ attempt[n].todo, NEW w \in Writes,
                 write'[w].origin = m
          PROVE  FALSE
      <3>1. WriteMove(w) BY DEF WritesMove
      <3>2. m # "none" BY ActiveAssumption DEF Nodes
      <3>3. write[w].origin # m /\ gate[m] BY <2>1 DEF DrainsHold
      <3> QED BY <2>2, <3>1, <3>2, <3>3 DEF WriteMove
    <2> QED BY <1>2, <2>1, <2>2 DEF DrainsHold
  <1>3. ASSUME attempt[n].pc \in Transferred, NEW w \in Writes, write'[w].pc = "acked"
        PROVE  w \in copied'
    <2>1. /\ WriteMove(w) /\ Recorded(w) /\ write[w] \in WriteRecord
      BY TypeParts DEF WritesMove, HandoffInv, WritesOK
    <2>2. DrainsHold(n) /\ attempt[n].todo = {}
      BY <1>1, <1>3 DEF Established, Transferred, Drained, Draining
    <2>3. write[w].origin = "none"
      BY <2>1, <2>2 DEF DrainsHold, WriteRecord
    <2>4. write[w].pc = "acked" BY <1>3, <2>1, <2>3 DEF WriteMove
    <2>5. w \in copied /\ w \in Selected
      BY <1>1, <1>3, <2>1, <2>4 DEF Established, Recorded
    <2> QED BY <2>5
  <1> QED BY <1>1, <1>2, <1>3 DEF Established

(* A step that only moves writes preserves the invariant. *)
LEMMA WriteStepKeeps ==
    ASSUME HandoffInv, WritesMove, UNCHANGED <<raft, stuck, gates, attempt, lease, copied>>,
           faults' \in 0..MaxFaults
    PROVE  HandoffInv'
  <1>1. UNCHANGED <<leader, term, elected, knows, activated, placed, unbroken, gate,
                    monitored, attempt, lease, copied, stuck>>
    BY DEF raft, gates
  <1>2. TypeOK'
    BY <1>1, TypeParts, TypePartsNext DEF HandoffInv, WritesMove
  <1>3. TermsOK' BY <1>1 DEF HandoffInv, TermsOK, Terms
  <1>4. WritesOK' BY WritesKept
  <1>5. CurrentOK'
    <2> SUFFICES ASSUME NEW n \in Active, attempt'[n].term = term'
                 PROVE  Established(n)'
      BY DEF CurrentOK
    <2>1. attempt[n].term = term /\ attempt'[n] = attempt[n] BY <1>1
    <2>2. Established(n) BY <2>1 DEF HandoffInv, CurrentOK
    <2>3. attempt[n].pc \in Draining =>
            \A m \in attempt[n].closed : gate'[m] /\ knows'[m] \in {n, NoLeader}
      BY <1>1, <2>2 DEF Established, DrainsHold
    <2> QED BY <1>1, <2>1, <2>3, EstablishedKept
  <1>6. CarriedOK' BY <1>1, CarriedKept
  <1> QED BY <1>2, <1>3, <1>4, <1>5, <1>6 DEF HandoffInv

---------------------------------------------------------------------------
(* The steps of a handoff *)

(* A step of the attempt of n, before or after activation: it touches no   *)
(* other attempt, copies what is selected if it copies, and opens a gate   *)
(* only after activation or on a node that believes in n.                  *)
HandoffFrame(n) ==
    /\ UNCHANGED <<raft, stuck, lease, write>>
    /\ faults' \in 0..MaxFaults /\ monitored' \subseteq Nodes
    /\ gate' \in [Nodes -> BOOLEAN]
    /\ attempt' \in [Active -> AttemptRecord]
    /\ \A k \in Active \ {n} : attempt'[k] = attempt[k]
    /\ copied' \in {copied, Selected}
    /\ \A m \in Nodes : gate[m] /\ ~gate'[m] => activated \/ knows[m] = n

LEMMA HandoffStepKeeps ==
    ASSUME HandoffInv, NEW n \in Active, HandoffFrame(n), Terms(n)',
           attempt'[n].term = term => Established(n)'
    PROVE  HandoffInv'
  <1>1. /\ UNCHANGED <<leader, term, elected, knows, activated, placed, unbroken, lease, write,
                       stuck>>
        /\ faults' \in 0..MaxFaults /\ monitored' \subseteq Nodes
        /\ gate' \in [Nodes -> BOOLEAN]
        /\ attempt' \in [Active -> AttemptRecord]
        /\ \A k \in Active \ {n} : attempt'[k] = attempt[k]
        /\ copied' = copied \/ copied' = Selected
        /\ \A m \in Nodes : gate[m] /\ ~gate'[m] => activated \/ knows[m] = n
    BY DEF HandoffFrame, raft
  <1>2. WritesMove BY <1>1, NoWriteMoves
  <1>3. TypeOK'
    <2>1. Selected \subseteq Writes BY DEF Selected
    <2>2. copied' \subseteq Writes BY <1>1, <2>1, TypeParts DEF HandoffInv
    <2> QED BY <1>1, <2>2, TypeParts, TypePartsNext DEF HandoffInv
  <1>4. TermsOK'
    <2> SUFFICES ASSUME NEW k \in Active PROVE Terms(k)' BY DEF TermsOK
    <2>1. CASE k = n BY <2>1
    <2>2. CASE k # n
      <3>1. Terms(k) BY DEF HandoffInv, TermsOK
      <3> QED BY <1>1, <2>2, <3>1 DEF Terms
    <2> QED BY <2>1, <2>2
  <1>5. WritesOK' BY <1>2, WritesKept
  <1>6. CurrentOK'
    <2> SUFFICES ASSUME NEW k \in Active, attempt'[k].term = term' PROVE Established(k)'
      BY DEF CurrentOK
    <2>1. CASE k = n BY <1>1, <2>1
    <2>2. CASE k # n
      <3>1. attempt'[k] = attempt[k] /\ attempt[k].term = term BY <1>1, <2>2
      <3>2. Established(k) /\ attempt[k] \in AttemptRecord
        BY <3>1, TypeParts DEF HandoffInv, CurrentOK
      <3>3. n # NoLeader BY ActiveAssumption
      <3>4. ASSUME attempt[k].pc \in Draining, NEW m \in attempt[k].closed
            PROVE  gate'[m] /\ knows'[m] \in {k, NoLeader}
        <4>1. ~activated /\ gate[m] /\ knows[m] \in {k, NoLeader} /\ m \in Nodes
          BY <3>2, <3>4 DEF Established, DrainsHold, Draining, AttemptRecord
        <4> QED BY <1>1, <2>2, <3>3, <4>1
      <3> QED BY <1>1, <1>2, <3>1, <3>4, EstablishedKept
    <2> QED BY <2>1, <2>2
  <1>7. CarriedOK' BY <1>1, <1>2, CarriedKept
  <1> QED BY <1>3, <1>4, <1>5, <1>6, <1>7 DEF HandoffInv

LEMMA NoAttemptTyped == NoAttempt \in AttemptRecord /\ NoAttempt.term = 0 /\ NoAttempt.pc = "idle"
  BY MaxTermType DEF NoAttempt, AttemptRecord, Phases

(* The attempt ends. *)
LEMMA StopKeeps ==
    ASSUME HandoffInv, NEW n \in Active, HandoffFrame(n), attempt'[n] = NoAttempt
    PROVE  HandoffInv'
  <1>1. term \in 1..MaxTerm /\ elected[n] \in 0..MaxTerm /\ Terms(n)
    BY TypeParts DEF HandoffInv, TermsOK
  <1>2. UNCHANGED <<leader, term, elected, knows, activated>>
    BY DEF HandoffFrame, raft
  <1>3. attempt'[n].term = 0 /\ attempt'[n].pc = "idle" BY NoAttemptTyped
  <1>4. Terms(n)' BY <1>1, <1>2, <1>3, MaxTermType DEF Terms
  <1>5. attempt'[n].term # term BY <1>1, <1>3
  <1> QED BY <1>4, <1>5, HandoffStepKeeps

(* The attempt begins or goes on. *)
LEMMA DriveKeeps ==
    ASSUME HandoffInv, NEW n \in Active, HandoffFrame(n),
           attempt'[n].pc # "idle", attempt'[n].pc = "opening" => activated,
           \/ attempt[n].pc # "idle" /\ attempt'[n].term = attempt[n].term
           \/ knows[n] = n /\ attempt'[n].term = elected[n],
           attempt'[n].term = term => Established(n)'
    PROVE  HandoffInv'
  <1>1. term \in 1..MaxTerm /\ elected[n] \in 0..MaxTerm /\ Terms(n)
    BY TypeParts DEF HandoffInv, TermsOK
  <1>2. UNCHANGED <<leader, term, elected, knows, activated>>
    BY DEF HandoffFrame, raft
  <1>3. Terms(n)' BY <1>1, <1>2, MaxTermType DEF Terms
  <1> QED BY <1>3, HandoffStepKeeps

(* A step that stops the attempt and touches nothing else. *)
LEMMA StopOnly ==
    ASSUME HandoffInv, NEW n \in Active, Stop(n), faults' \in 0..MaxFaults,
           UNCHANGED <<raft, stuck, gates, lease, write, copied>>
    PROVE  HandoffInv'
  <1>1. attempt \in [Active -> AttemptRecord] /\ monitored \subseteq Nodes
        /\ gate \in [Nodes -> BOOLEAN]
    BY TypeParts DEF HandoffInv
  <1>2. /\ attempt' \in [Active -> AttemptRecord] /\ attempt'[n] = NoAttempt
        /\ \A k \in Active \ {n} : attempt'[k] = attempt[k]
    BY <1>1, NoAttemptTyped DEF Stop
  <1>3. HandoffFrame(n) BY <1>1, <1>2 DEF HandoffFrame, gates
  <1> QED BY <1>2, <1>3, StopKeeps

(* A step that only moves the attempt to a later phase. *)
LEMMA MoveFacts ==
    ASSUME HandoffInv, NEW n \in Active, NEW pc \in Phases, Move(n, pc)
    PROVE  /\ attempt' \in [Active -> AttemptRecord]
           /\ \A k \in Active \ {n} : attempt'[k] = attempt[k]
           /\ attempt'[n].pc = pc
           /\ attempt'[n].todo = attempt[n].todo
           /\ attempt'[n].closed = attempt[n].closed
           /\ attempt'[n].term = attempt[n].term
  <1>1. attempt \in [Active -> AttemptRecord] BY TypeParts DEF HandoffInv
  <1> QED BY <1>1 DEF Move, AttemptRecord

LEMMA MoveOnly ==
    ASSUME HandoffInv, NEW n \in Active, NEW pc \in Phases \ {"idle", "opening"},
           attempt[n].pc # "idle", Move(n, pc), copied' \in {copied, Selected},
           UNCHANGED <<raft, stuck, gates, lease, write, faults>>,
           attempt[n].term = term /\ Established(n) => Established(n)'
    PROVE  HandoffInv'
  <1>1. monitored \subseteq Nodes /\ gate \in [Nodes -> BOOLEAN] /\ faults \in 0..MaxFaults
    BY TypeParts DEF HandoffInv
  <1>2. /\ attempt' \in [Active -> AttemptRecord]
        /\ \A k \in Active \ {n} : attempt'[k] = attempt[k]
        /\ attempt'[n].pc = pc /\ attempt'[n].term = attempt[n].term
    BY MoveFacts
  <1>3. HandoffFrame(n) BY <1>1, <1>2 DEF HandoffFrame, gates
  <1>4. attempt[n].term = term => Established(n)' BY DEF HandoffInv, CurrentOK
  <1> QED BY <1>2, <1>3, <1>4, DriveKeeps

LEMMA BeginKeeps ==
    ASSUME HandoffInv, NEW n \in Active, Begin(n)
    PROVE  HandoffInv'
  <1>1. /\ attempt \in [Active -> AttemptRecord] /\ monitored \subseteq Nodes
        /\ gate \in [Nodes -> BOOLEAN] /\ faults \in 0..MaxFaults
        /\ elected[n] \in 0..MaxTerm /\ Terms(n)
    BY TypeParts DEF HandoffInv, TermsOK
  <1>2. /\ knows[n] = n /\ n \notin placed /\ (n = leader => CaughtUp(n))
        /\ faults' = faults \/ (faults < MaxFaults /\ faults' = faults + 1)
        /\ gate' = [gate EXCEPT ![n] = FALSE]
        /\ UNCHANGED <<raft, stuck, monitored, lease, write, copied>>
        /\ UNCHANGED <<activated, term>>
    BY DEF Begin, require_current, raft
  <1>3. /\ attempt' \in [Active -> AttemptRecord]
        /\ \A k \in Active \ {n} : attempt'[k] = attempt[k]
        /\ attempt'[n].pc = "releasing" /\ attempt'[n].term = elected[n]
    <2>1. PICK T \in SUBSET Nodes, e \in 0..MaxTerm : T = Nodes \ {n} /\ e = elected[n]
      BY <1>1
    <2>2. attempt' = [attempt EXCEPT ![n].pc = "releasing", ![n].todo = T, ![n].term = e]
      BY <2>1 DEF Begin
    <2>3. /\ attempt[n] \in AttemptRecord
          /\ attempt'[n] = [attempt[n] EXCEPT !.pc = "releasing", !.todo = T, !.term = e]
          /\ \A k \in Active \ {n} : attempt'[k] = attempt[k]
      BY <1>1, <2>2
    <2>4. attempt'[n] \in AttemptRecord /\ attempt'[n].pc = "releasing" /\ attempt'[n].term = e
      BY <2>3 DEF AttemptRecord, Phases
    <2>5. attempt' \in [Active -> AttemptRecord]
      BY <1>1, <2>2, <2>3, <2>4
    <2> QED BY <2>1, <2>3, <2>4, <2>5
  <1>4. faults' \in 0..MaxFaults BY <1>1, <1>2, MaxTermType
  <1>5. n \in Nodes BY DEF Nodes
  <1>6. HandoffFrame(n) BY <1>1, <1>2, <1>3, <1>4, <1>5 DEF HandoffFrame
  <1>7. ASSUME attempt'[n].term = term PROVE Established(n)'
    <2>1. leader = n BY <1>1, <1>2, <1>3, <1>7 DEF Terms
    <2>2. ~activated BY <1>2, <2>1 DEF CaughtUp
    <2> QED BY <1>2, <1>3, <2>2 DEF Established, Draining, Drained, Waited, Transferred
  <1> QED BY <1>2, <1>3, <1>6, <1>7, DriveKeeps

(* n asks m to reopen its gate, before or after activation. *)
LEMMA ReleaseKeeps ==
    ASSUME HandoffInv, NEW n \in Active, NEW m \in Nodes,
           attempt[n].pc \in {"releasing", "opening"},
           gate' = [gate EXCEPT ![m] = FALSE], knows[m] = n,
           attempt' = [attempt EXCEPT ![n].todo = @ \ {m}],
           UNCHANGED <<raft, stuck, monitored, lease, write, copied, faults>>
    PROVE  HandoffInv'
  <1>1. /\ attempt \in [Active -> AttemptRecord] /\ monitored \subseteq Nodes
        /\ gate \in [Nodes -> BOOLEAN] /\ faults \in 0..MaxFaults /\ Terms(n)
    BY TypeParts DEF HandoffInv, TermsOK
  <1>2. /\ attempt' \in [Active -> AttemptRecord]
        /\ \A k \in Active \ {n} : attempt'[k] = attempt[k]
        /\ attempt'[n].pc = attempt[n].pc /\ attempt'[n].term = attempt[n].term
    BY <1>1 DEF AttemptRecord
  <1>3. HandoffFrame(n) BY <1>1, <1>2 DEF HandoffFrame
  <1>4. ASSUME attempt'[n].term = term PROVE Established(n)'
    <2>1. Established(n) BY <1>2, <1>4 DEF HandoffInv, CurrentOK
    <2> QED BY <1>2, <2>1 DEF Established, Draining, Drained, Waited, Transferred, raft
  <1>5. attempt[n].pc = "opening" => activated BY <1>1 DEF Terms
  <1> QED BY <1>2, <1>3, <1>4, <1>5, DriveKeeps

LEMMA ReleaseStaleKeeps ==
    ASSUME HandoffInv, NEW n \in Active, NEW m \in Nodes,
           ReleaseStale(n, m) \/ ReleaseRemote(n, m)
    PROVE  HandoffInv'
  <1>1. /\ attempt[n].pc \in {"releasing", "opening"}
        /\ UNCHANGED <<raft, stuck, monitored, lease, write, copied, faults>>
        /\ \/ /\ knows[m] = n
              /\ gate' = [gate EXCEPT ![m] = FALSE]
              /\ attempt' = [attempt EXCEPT ![n].todo = @ \ {m}]
           \/ Stop(n) /\ UNCHANGED gate
    BY DEF ReleaseStale, ReleaseRemote, validate_mutation_drain_release
  <1>2. faults' \in 0..MaxFaults BY <1>1, TypeParts DEF HandoffInv
  <1>3. CASE Stop(n) /\ UNCHANGED gate
    BY <1>1, <1>2, <1>3, StopOnly DEF gates
  <1> QED BY <1>1, <1>3, ReleaseKeeps

LEMMA PreCopyKeeps ==
    ASSUME HandoffInv, NEW n \in Active, PreCopy(n)
    PROVE  HandoffInv'
  <1>1. /\ attempt[n].pc = "releasing"
        /\ UNCHANGED <<raft, stuck, gates, lease, write, faults>>
        /\ \/ copied' = Selected /\ Move(n, "precopied")
           \/ Stop(n) /\ UNCHANGED copied
    BY DEF PreCopy
  <1>2. faults' \in 0..MaxFaults BY <1>1, TypeParts DEF HandoffInv
  <1>3. CASE Stop(n) /\ UNCHANGED copied BY <1>1, <1>2, <1>3, StopOnly
  <1>4. CASE copied' = Selected /\ Move(n, "precopied")
    <2>1. "precopied" \in Phases \ {"idle", "opening"} BY DEF Phases
    <2>2. attempt'[n].pc = "precopied" BY <1>4, <2>1, MoveFacts
    <2>3. Established(n) => Established(n)'
      BY <1>1, <2>2 DEF Established, Draining, Drained, Waited, Transferred, raft
    <2> QED BY <1>1, <1>4, <2>1, <2>3, MoveOnly
  <1> QED BY <1>1, <1>3, <1>4

LEMMA CloseLocalKeeps ==
    ASSUME HandoffInv, NEW n \in Active, CloseLocal(n)
    PROVE  HandoffInv'
  <1>1. /\ attempt[n].pc = "precopied"
        /\ UNCHANGED <<raft, stuck, monitored, lease, write, copied, faults>>
        /\ UNCHANGED <<knows, activated, term>>
        /\ \/ /\ knows[n] = n
              /\ gate' = [gate EXCEPT ![n] = TRUE]
              /\ attempt' = [attempt EXCEPT ![n].pc = "closing", ![n].todo = Nodes,
                                            ![n].closed = {n}]
           \/ Stop(n) /\ UNCHANGED gate
    BY DEF CloseLocal, require_current, raft
  <1>2. faults' \in 0..MaxFaults BY <1>1, TypeParts DEF HandoffInv
  <1>3. CASE Stop(n) /\ UNCHANGED gate
    BY <1>1, <1>2, <1>3, StopOnly DEF gates
  <1>4. CASE /\ knows[n] = n
             /\ gate' = [gate EXCEPT ![n] = TRUE]
             /\ attempt' = [attempt EXCEPT ![n].pc = "closing", ![n].todo = Nodes,
                                           ![n].closed = {n}]
    <2>1. /\ attempt \in [Active -> AttemptRecord] /\ monitored \subseteq Nodes
          /\ gate \in [Nodes -> BOOLEAN] /\ n \in Nodes
      BY TypeParts DEF HandoffInv, Nodes
    <2>2. /\ attempt' \in [Active -> AttemptRecord]
          /\ \A k \in Active \ {n} : attempt'[k] = attempt[k]
          /\ attempt'[n].pc = "closing" /\ attempt'[n].term = attempt[n].term
          /\ attempt'[n].todo = Nodes /\ attempt'[n].closed = {n}
      <3>1. PICK T \in SUBSET Nodes, C \in SUBSET Nodes : T = Nodes /\ C = {n}
        BY <2>1
      <3>2. attempt' = [attempt EXCEPT ![n].pc = "closing", ![n].todo = T, ![n].closed = C]
        BY <1>4, <3>1
      <3>3. /\ attempt[n] \in AttemptRecord
            /\ attempt'[n] = [attempt[n] EXCEPT !.pc = "closing", !.todo = T, !.closed = C]
            /\ \A k \in Active \ {n} : attempt'[k] = attempt[k]
        BY <2>1, <3>2
      <3>4. /\ attempt'[n] \in AttemptRecord /\ attempt'[n].pc = "closing"
            /\ attempt'[n].term = attempt[n].term
            /\ attempt'[n].todo = T /\ attempt'[n].closed = C
        BY <3>3 DEF AttemptRecord, Phases
      <3>5. attempt' \in [Active -> AttemptRecord] BY <2>1, <3>2, <3>3, <3>4
      <3> QED BY <3>1, <3>3, <3>4, <3>5
    <2>3. HandoffFrame(n) BY <1>1, <1>2, <1>4, <2>1, <2>2 DEF HandoffFrame
    <2>4. ASSUME attempt'[n].term = term PROVE Established(n)'
      <3>1. Established(n) BY <2>2, <2>4 DEF HandoffInv, CurrentOK
      <3>2. DrainsHold(n)'
        BY <1>1, <1>4, <2>1, <2>2 DEF DrainsHold
      <3> QED BY <1>1, <2>2, <3>1, <3>2 DEF Established, Draining, Drained, Waited, Transferred
    <2> QED BY <1>1, <2>2, <2>3, <2>4, DriveKeeps
  <1> QED BY <1>1, <1>3, <1>4

LEMMA DrainKeeps ==
    ASSUME HandoffInv, NEW n \in Active, NEW m \in Nodes, drain_mutations(n, m)
    PROVE  HandoffInv'
  <1>1. /\ attempt[n].pc = "closing"
        /\ UNCHANGED <<raft, stuck, lease, write, copied, faults>>
        /\ UNCHANGED <<knows, activated, term>>
        /\ \/ /\ knows[m] = n
              /\ gate' = [gate EXCEPT ![m] = TRUE]
              /\ monitored' = monitored \cup {m}
              /\ attempt' = [attempt EXCEPT ![n].closed = @ \cup {m}]
           \/ Stop(n) /\ UNCHANGED gates
    BY DEF drain_mutations, validate_facts, raft
  <1>2. faults' \in 0..MaxFaults BY <1>1, TypeParts DEF HandoffInv
  <1>3. CASE Stop(n) /\ UNCHANGED gates BY <1>1, <1>2, <1>3, StopOnly
  <1>4. CASE /\ knows[m] = n
             /\ gate' = [gate EXCEPT ![m] = TRUE]
             /\ monitored' = monitored \cup {m}
             /\ attempt' = [attempt EXCEPT ![n].closed = @ \cup {m}]
    <2>1. /\ attempt \in [Active -> AttemptRecord] /\ monitored \subseteq Nodes
          /\ gate \in [Nodes -> BOOLEAN]
      BY TypeParts DEF HandoffInv
    <2>2. /\ attempt' \in [Active -> AttemptRecord]
          /\ \A k \in Active \ {n} : attempt'[k] = attempt[k]
          /\ attempt'[n].pc = "closing" /\ attempt'[n].term = attempt[n].term
          /\ attempt'[n].todo = attempt[n].todo
          /\ attempt'[n].closed = attempt[n].closed \cup {m}
          /\ attempt[n].closed \subseteq Nodes
      BY <1>1, <1>4, <2>1 DEF AttemptRecord
    <2>3. HandoffFrame(n) BY <1>1, <1>2, <1>4, <2>1, <2>2 DEF HandoffFrame
    <2>4. ASSUME attempt'[n].term = term PROVE Established(n)'
      <3>1. Established(n) BY <2>2, <2>4 DEF HandoffInv, CurrentOK
      <3>2. DrainsHold(n) BY <1>1, <3>1 DEF Established, Draining
      <3>3. DrainsHold(n)'
        BY <1>1, <1>4, <2>1, <2>2, <3>2 DEF DrainsHold
      <3> QED BY <1>1, <2>2, <3>1, <3>3 DEF Established, Draining, Drained, Waited, Transferred
    <2> QED BY <1>1, <2>2, <2>3, <2>4, DriveKeeps
  <1> QED BY <1>1, <1>3, <1>4

LEMMA WaitKeeps ==
    ASSUME HandoffInv, NEW n \in Active, NEW m \in Nodes, wait_until_drained(n, m)
    PROVE  HandoffInv'
  <1>1. /\ attempt[n].pc = "closing" /\ m \in attempt[n].closed /\ Permits(m) = {}
        /\ attempt' = [attempt EXCEPT ![n].todo = @ \ {m}]
        /\ UNCHANGED <<raft, stuck, gates, lease, write, copied, faults>>
        /\ UNCHANGED <<knows, activated, term, gate, monitored>>
    BY DEF wait_until_drained, raft, gates
  <1>2. /\ attempt \in [Active -> AttemptRecord] /\ monitored \subseteq Nodes
        /\ gate \in [Nodes -> BOOLEAN] /\ faults' \in 0..MaxFaults
    BY <1>1, TypeParts DEF HandoffInv
  <1>3. /\ attempt' \in [Active -> AttemptRecord]
        /\ \A k \in Active \ {n} : attempt'[k] = attempt[k]
        /\ attempt'[n].pc = "closing" /\ attempt'[n].term = attempt[n].term
        /\ attempt'[n].todo = attempt[n].todo \ {m}
        /\ attempt'[n].closed = attempt[n].closed
    BY <1>1, <1>2 DEF AttemptRecord
  <1>4. HandoffFrame(n) BY <1>1, <1>2, <1>3 DEF HandoffFrame
  <1>5. \A w \in Writes : write[w].origin # m BY <1>1 DEF Permits
  <1>6. ASSUME attempt'[n].term = term PROVE Established(n)'
    <2>1. Established(n) BY <1>3, <1>6 DEF HandoffInv, CurrentOK
    <2>2. DrainsHold(n) BY <1>1, <2>1 DEF Established, Draining
    <2>3. DrainsHold(n)'
      BY <1>1, <1>3, <1>5, <2>2 DEF DrainsHold
    <2> QED BY <1>1, <1>3, <2>1, <2>3 DEF Established, Draining, Drained, Waited, Transferred
  <1> QED BY <1>1, <1>3, <1>4, <1>6, DriveKeeps

LEMMA QuiesceKeeps ==
    ASSUME HandoffInv, NEW n \in Active, QuiesceAndPause(n)
    PROVE  HandoffInv'
  <1>1. /\ attempt[n].pc = "closing" /\ attempt[n].todo = {}
        /\ UNCHANGED <<raft, stuck, gates, lease, write, copied, faults>>
        /\ Move(n, "paused") \/ Stop(n)
    BY DEF QuiesceAndPause
  <1>2. faults' \in 0..MaxFaults BY <1>1, TypeParts DEF HandoffInv
  <1>3. CASE Stop(n) BY <1>1, <1>2, <1>3, StopOnly
  <1>4. CASE Move(n, "paused")
    <2>1. "paused" \in Phases \ {"idle", "opening"} BY DEF Phases
    <2>2. /\ attempt'[n].pc = "paused" /\ attempt'[n].todo = attempt[n].todo
          /\ attempt'[n].closed = attempt[n].closed
      BY <1>4, <2>1, MoveFacts
    <2>3. Established(n) => Established(n)'
      BY <1>1, <2>2
      DEF Established, DrainsHold, Draining, Drained, Waited, Transferred, raft, gates
    <2> QED BY <1>1, <1>4, <2>1, <2>3, MoveOnly
  <1> QED BY <1>1, <1>3, <1>4

LEMMA CutoverWaitKeeps ==
    ASSUME HandoffInv, NEW n \in Active, CutoverWait(n)
    PROVE  HandoffInv'
  <1>1. /\ attempt[n].pc = "paused" /\ (lease = "none" \/ n # leader)
        /\ UNCHANGED <<raft, stuck, gates, lease, write, copied, faults>>
        /\ Move(n, "waited") \/ Stop(n)
    BY DEF CutoverWait
  <1>2. faults' \in 0..MaxFaults BY <1>1, TypeParts DEF HandoffInv
  <1>3. CASE Stop(n) BY <1>1, <1>2, <1>3, StopOnly
  <1>4. CASE Move(n, "waited")
    <2>1. "waited" \in Phases \ {"idle", "opening"} BY DEF Phases
    <2>2. /\ attempt'[n].pc = "waited" /\ attempt'[n].todo = attempt[n].todo
          /\ attempt'[n].closed = attempt[n].closed
      BY <1>4, <2>1, MoveFacts
    <2>3. attempt[n].term = term => lease = "none"
      BY <1>1, CurrentLeads
    <2>4. attempt[n].term = term /\ Established(n) => Established(n)'
      BY <1>1, <2>2, <2>3
      DEF Established, DrainsHold, Draining, Drained, Waited, Transferred, raft, gates
    <2> QED BY <1>1, <1>4, <2>1, <2>4, MoveOnly
  <1> QED BY <1>1, <1>3, <1>4

LEMMA SampleTailsKeeps ==
    ASSUME HandoffInv, NEW n \in Active, SampleTails(n)
    PROVE  HandoffInv'
  <1>1. /\ attempt[n].pc = "waited"
        /\ UNCHANGED <<raft, stuck, gates, lease, write, copied, faults>>
        /\ UNCHANGED <<knows, activated, term, gate, monitored>>
        /\ \/ attempt' = [attempt EXCEPT ![n].pc = "sampled", ![n].sample = JournalTails]
           \/ Stop(n)
    BY DEF SampleTails, raft, gates
  <1>2. faults' \in 0..MaxFaults BY <1>1, TypeParts DEF HandoffInv
  <1>3. CASE Stop(n) BY <1>1, <1>2, <1>3, StopOnly
  <1>4. CASE attempt' = [attempt EXCEPT ![n].pc = "sampled", ![n].sample = JournalTails]
    <2>1. /\ attempt \in [Active -> AttemptRecord] /\ monitored \subseteq Nodes
          /\ gate \in [Nodes -> BOOLEAN]
      BY TypeParts DEF HandoffInv
    <2>2. /\ attempt' \in [Active -> AttemptRecord]
          /\ \A k \in Active \ {n} : attempt'[k] = attempt[k]
          /\ attempt'[n].pc = "sampled" /\ attempt'[n].term = attempt[n].term
          /\ attempt'[n].todo = attempt[n].todo /\ attempt'[n].closed = attempt[n].closed
      <3>1. PICK S \in SUBSET Writes : S = JournalTails BY DEF JournalTails
      <3>2. attempt' = [attempt EXCEPT ![n].pc = "sampled", ![n].sample = S]
        BY <1>4, <3>1
      <3>3. /\ attempt[n] \in AttemptRecord
            /\ attempt'[n] = [attempt[n] EXCEPT !.pc = "sampled", !.sample = S]
            /\ \A k \in Active \ {n} : attempt'[k] = attempt[k]
        BY <2>1, <3>2
      <3>4. /\ attempt'[n] \in AttemptRecord /\ attempt'[n].pc = "sampled"
            /\ attempt'[n].term = attempt[n].term
            /\ attempt'[n].todo = attempt[n].todo /\ attempt'[n].closed = attempt[n].closed
        BY <3>3 DEF AttemptRecord, Phases
      <3>5. attempt' \in [Active -> AttemptRecord] BY <2>1, <3>2, <3>3, <3>4
      <3> QED BY <3>3, <3>4, <3>5
    <2>3. HandoffFrame(n) BY <1>1, <1>2, <2>1, <2>2 DEF HandoffFrame
    <2>4. ASSUME attempt'[n].term = term PROVE Established(n)'
      <3>1. Established(n) BY <2>2, <2>4 DEF HandoffInv, CurrentOK
      <3> QED
        BY <1>1, <2>2, <3>1
        DEF Established, DrainsHold, Draining, Drained, Waited, Transferred
    <2> QED BY <1>1, <2>2, <2>3, <2>4, DriveKeeps
  <1> QED BY <1>1, <1>3, <1>4

LEMMA AwaitCursorsKeeps ==
    ASSUME HandoffInv, NEW n \in Active, AwaitReferenceCursors(n)
    PROVE  HandoffInv'
  <1>1. /\ attempt[n].pc = "sampled"
        /\ UNCHANGED <<raft, stuck, gates, lease, write, copied, faults>>
        /\ Move(n, "delivered") \/ Stop(n)
    BY DEF AwaitReferenceCursors
  <1>2. faults' \in 0..MaxFaults BY <1>1, TypeParts DEF HandoffInv
  <1>3. CASE Stop(n) BY <1>1, <1>2, <1>3, StopOnly
  <1>4. CASE Move(n, "delivered")
    <2>1. "delivered" \in Phases \ {"idle", "opening"} BY DEF Phases
    <2>2. /\ attempt'[n].pc = "delivered" /\ attempt'[n].todo = attempt[n].todo
          /\ attempt'[n].closed = attempt[n].closed
      BY <1>4, <2>1, MoveFacts
    <2>3. Established(n) => Established(n)'
      BY <1>1, <2>2
      DEF Established, DrainsHold, Draining, Drained, Waited, Transferred, raft, gates
    <2> QED BY <1>1, <1>4, <2>1, <2>3, MoveOnly
  <1> QED BY <1>1, <1>3, <1>4

LEMMA FinalCopyKeeps ==
    ASSUME HandoffInv, NEW n \in Active, FinalCopy(n)
    PROVE  HandoffInv'
  <1>1. /\ attempt[n].pc = "delivered"
        /\ UNCHANGED <<raft, stuck, gates, lease, write, faults>>
        /\ \/ copied' = Selected /\ Move(n, "transferred")
           \/ Stop(n) /\ UNCHANGED copied
    BY DEF FinalCopy
  <1>2. faults' \in 0..MaxFaults BY <1>1, TypeParts DEF HandoffInv
  <1>3. CASE Stop(n) /\ UNCHANGED copied BY <1>1, <1>2, <1>3, StopOnly
  <1>4. CASE copied' = Selected /\ Move(n, "transferred")
    <2>1. "transferred" \in Phases \ {"idle", "opening"} BY DEF Phases
    <2>2. /\ attempt'[n].pc = "transferred" /\ attempt'[n].todo = attempt[n].todo
          /\ attempt'[n].closed = attempt[n].closed
      BY <1>4, <2>1, MoveFacts
    <2>3. \A w \in Writes : write[w].pc = "acked" => w \in Selected
      BY DEF HandoffInv, WritesOK, Recorded
    <2>4. Established(n) => Established(n)'
      BY <1>1, <1>4, <2>2, <2>3
      DEF Established, DrainsHold, Draining, Drained, Waited, Transferred, raft, gates
    <2> QED BY <1>1, <1>4, <2>1, <2>4, MoveOnly
  <1> QED BY <1>1, <1>3, <1>4

LEMMA CheckSuffixKeeps ==
    ASSUME HandoffInv, NEW n \in Active, CheckSuffix(n) \/ Permit(n)
    PROVE  HandoffInv'
  <1>1. PICK pc \in {"checked", "permitted"} :
          /\ attempt[n].pc \in {"transferred", "checked"}
          /\ UNCHANGED <<raft, stuck, gates, lease, write, copied, faults>>
          /\ Move(n, pc) \/ Stop(n)
    BY DEF CheckSuffix, Permit
  <1>2. faults' \in 0..MaxFaults BY <1>1, TypeParts DEF HandoffInv
  <1>3. CASE Stop(n) BY <1>1, <1>2, <1>3, StopOnly
  <1>4. CASE Move(n, pc)
    <2>1. pc \in Phases \ {"idle", "opening"} BY DEF Phases
    <2>2. /\ attempt'[n].pc = pc /\ attempt'[n].todo = attempt[n].todo
          /\ attempt'[n].closed = attempt[n].closed
      BY <1>4, <2>1, MoveFacts
    <2>3. Established(n) => Established(n)'
      BY <1>1, <2>2
      DEF Established, DrainsHold, Draining, Drained, Waited, Transferred, raft, gates
    <2> QED BY <1>1, <1>4, <2>1, <2>3, MoveOnly
  <1> QED BY <1>1, <1>3, <1>4

LEMMA ReleaseLocalKeeps ==
    ASSUME HandoffInv, NEW n \in Active, ReleaseLocal(n)
    PROVE  HandoffInv'
  <1>1. /\ attempt[n].pc = "opening" /\ gate' = [gate EXCEPT ![n] = FALSE] /\ Stop(n)
        /\ UNCHANGED <<raft, stuck, monitored, lease, write, copied, faults>>
    BY DEF ReleaseLocal
  <1>2. /\ attempt \in [Active -> AttemptRecord] /\ monitored \subseteq Nodes
        /\ gate \in [Nodes -> BOOLEAN] /\ faults \in 0..MaxFaults /\ Terms(n)
    BY TypeParts DEF HandoffInv, TermsOK
  <1>3. activated BY <1>1, <1>2 DEF Terms
  <1>4. /\ attempt' \in [Active -> AttemptRecord] /\ attempt'[n] = NoAttempt
        /\ \A k \in Active \ {n} : attempt'[k] = attempt[k]
    BY <1>1, <1>2, NoAttemptTyped DEF Stop
  <1>5. HandoffFrame(n) BY <1>1, <1>2, <1>3, <1>4 DEF HandoffFrame
  <1> QED BY <1>4, <1>5, StopKeeps

LEMMA FailKeeps ==
    ASSUME HandoffInv, NEW n \in Active, Fail(n)
    PROVE  HandoffInv'
  <1>1. /\ faults < MaxFaults /\ faults' = faults + 1 /\ Stop(n)
        /\ UNCHANGED <<raft, stuck, gates, lease, write, copied>>
    BY DEF Fail
  <1>2. faults \in 0..MaxFaults BY TypeParts DEF HandoffInv
  <1>3. faults' \in 0..MaxFaults BY <1>1, <1>2, MaxTermType
  <1> QED BY <1>1, <1>3, StopOnly

(* Activation: either nobody hears of it, or the drains, the pause and the *)
(* copy of a current attempt are what the new placement starts from.       *)
LEMMA ActivateKeeps ==
    ASSUME HandoffInv, NEW n \in Active, Activate(n)
    PROVE  HandoffInv'
  <1>1. attempt[n].pc = "permitted"
        /\ UNCHANGED <<leader, term, elected, knows, gates, lease, write, copied, stuck>>
        /\ UNCHANGED <<gate, monitored>>
    BY DEF Activate, gates
  <1>2. CASE Stop(n) /\ UNCHANGED <<activated, placed, unbroken, faults>>
    <2>1. faults' \in 0..MaxFaults BY <1>2, TypeParts DEF HandoffInv
    <2>2. UNCHANGED <<raft, stuck, gates, lease, write, copied>> BY <1>1, <1>2 DEF raft
    <2> QED BY <1>2, <2>1, <2>2, StopOnly
  <1>3. CASE /\ Advance(n)
             /\ \/ /\ attempt' = [attempt EXCEPT ![n].pc = "opening",
                                                 ![n].todo = Nodes \ {n}]
                   /\ UNCHANGED faults
                \/ faults < MaxFaults /\ faults' = faults + 1 /\ Stop(n)
    <2>1. /\ leader = n /\ ~activated /\ activated' /\ placed' = placed \cup {n}
          /\ unbroken' = (attempt[n].term = term)
      BY <1>3 DEF Advance
    <2>2. /\ attempt \in [Active -> AttemptRecord] /\ faults \in 0..MaxFaults
          /\ term \in 1..MaxTerm /\ elected \in [Active -> 0..MaxTerm]
          /\ placed \subseteq {} /\ Terms(n) /\ n \in Nodes
      BY <2>1, TypeParts DEF HandoffInv, TermsOK, Nodes
    <2>3. faults' \in 0..MaxFaults BY <1>3, <2>2, MaxTermType
    <2>4. /\ attempt' \in [Active -> AttemptRecord]
          /\ \A k \in Active \ {n} : attempt'[k] = attempt[k]
          /\ \/ attempt'[n].pc = "opening" /\ attempt'[n].term = attempt[n].term
             \/ attempt'[n] = NoAttempt
      <3>1. CASE Stop(n) BY <2>2, <3>1, NoAttemptTyped DEF Stop
      <3>2. CASE attempt' = [attempt EXCEPT ![n].pc = "opening", ![n].todo = Nodes \ {n}]
        <4>1. PICK T \in SUBSET Nodes : T = Nodes \ {n} OBVIOUS
        <4>2. attempt' = [attempt EXCEPT ![n].pc = "opening", ![n].todo = T]
          BY <3>2, <4>1
        <4>3. /\ attempt[n] \in AttemptRecord
              /\ attempt'[n] = [attempt[n] EXCEPT !.pc = "opening", !.todo = T]
              /\ \A k \in Active \ {n} : attempt'[k] = attempt[k]
          BY <2>2, <4>2
        <4>4. /\ attempt'[n] \in AttemptRecord /\ attempt'[n].pc = "opening"
              /\ attempt'[n].term = attempt[n].term
          BY <4>3 DEF AttemptRecord, Phases
        <4>5. attempt' \in [Active -> AttemptRecord] BY <2>2, <4>2, <4>3, <4>4
        <4> QED BY <4>3, <4>4, <4>5
      <3> QED BY <1>3, <3>1, <3>2
    <2>5. WritesMove BY <1>1, NoWriteMoves
    <2>6. TypeOK'
      <3>1. unbroken' \in BOOLEAN BY <2>1
      <3>2. placed' \subseteq (IF activated' THEN Nodes ELSE {}) BY <2>1, <2>2
      <3> QED BY <1>1, <2>1, <2>3, <2>4, <3>1, <3>2, TypeParts, TypePartsNext DEF HandoffInv
    <2>7. TermsOK'
      <3> SUFFICES ASSUME NEW k \in Active PROVE Terms(k)' BY DEF TermsOK
      <3>1. Terms(k) /\ elected[k] \in 0..MaxTerm BY <2>2 DEF HandoffInv, TermsOK
      <3>2. CASE k # n BY <1>1, <2>1, <2>4, <3>1, <3>2 DEF Terms
      <3>3. CASE k = n
        <4>1. NoAttempt.term <= elected[n]
          BY <3>1, <3>3, NoAttemptTyped, MaxTermType
        <4> QED BY <1>1, <2>1, <2>4, <3>1, <3>3, <4>1, NoAttemptTyped DEF Terms
      <3> QED BY <3>2, <3>3
    <2>8. WritesOK' BY <2>5, WritesKept
    <2>9. CurrentOK'
      <3> SUFFICES ASSUME NEW k \in Active, attempt'[k].term = term' PROVE Established(k)'
        BY DEF CurrentOK
      <3>1. k = n
        <4> SUFFICES ASSUME k # n PROVE FALSE OBVIOUS
        <4>1. attempt[k].term = term BY <1>1, <2>4
        <4> QED BY <2>1, <4>1, CurrentLeads
      <3>2. attempt'[n].pc = "opening" BY <1>1, <2>2, <2>4, <3>1, NoAttemptTyped
      <3> QED BY <3>1, <3>2 DEF Established, Draining, Drained, Waited, Transferred
    <2>10. CarriedOK'
      <3> SUFFICES ASSUME unbroken'
                   PROVE  lease' # "old" /\ \A w \in Writes : Carried(w)'
        BY DEF CarriedOK
      <3>1. Established(n) BY <2>1 DEF HandoffInv, CurrentOK
      <3>2. /\ DrainsHold(n) /\ attempt[n].todo = {} /\ lease = "none"
            /\ \A w \in Writes : write[w].pc = "acked" => w \in copied
        BY <1>1, <3>1 DEF Established, Draining, Drained, Waited, Transferred
      <3>3. \A w \in Writes : write[w].origin = "none"
        <4> TAKE w \in Writes
        <4>1. write[w].origin \in Nodes \cup {"none"}
          BY TypeParts DEF HandoffInv, WriteRecord
        <4> QED BY <3>2, <4>1 DEF DrainsHold
      <3> QED BY <1>1, <3>2, <3>3 DEF Carried
    <2> QED BY <2>6, <2>7, <2>8, <2>9, <2>10 DEF HandoffInv
  <1> QED BY <1>2, <1>3 DEF Activate

---------------------------------------------------------------------------
(* Leases, monitors, Raft and restarts *)

(* The leader grants only while none of its attempts pauses it. *)
LEMMA GrantKeeps ==
    ASSUME HandoffInv, NEW n \in Active, Grant(n)
    PROVE  HandoffInv'
  <1>1. /\ n = leader /\ CaughtUp(n) /\ ~CommitGateHeld(n) /\ lease' = FenceAt(n)
        /\ UNCHANGED <<leader, term, elected, knows, activated, placed, unbroken, gate,
                       monitored, attempt, write, copied, stuck, faults>>
    BY DEF Grant, Grants, GrantsPaused, raft, gates
  <1>2. lease' \in {"none", "old", "new"} BY <1>1 DEF FenceAt
  <1>3. WritesMove BY <1>1, NoWriteMoves
  <1>4. TypeOK' BY <1>1, <1>2, TypeParts, TypePartsNext DEF HandoffInv
  <1>5. TermsOK' BY <1>1 DEF HandoffInv, TermsOK, Terms
  <1>6. WritesOK' BY <1>3, WritesKept
  <1>7. CurrentOK'
    <2> SUFFICES ASSUME NEW k \in Active, attempt'[k].term = term' PROVE Established(k)'
      BY DEF CurrentOK
    <2>1. attempt[k].term = term BY <1>1
    <2>2. Established(k) /\ k = n
      BY <1>1, <2>1, CurrentLeads DEF HandoffInv, CurrentOK
    <2>3. attempt[k].pc \notin Waited
      BY <1>1, <2>2 DEF CommitGateHeld, Waited, Drained, Draining
    <2> QED BY <1>1, <2>2, <2>3 DEF Established, DrainsHold
  <1>8. CarriedOK'
    <2>1. CASE activated
      <3>1. lease' # "old" BY <1>1, <2>1 DEF CaughtUp, FenceAt
      <3> QED BY <1>1, <1>3, <3>1, CarriedKept
    <2>2. CASE ~activated BY <1>1, <2>2 DEF CarriedOK
    <2> QED BY <2>1, <2>2
  <1> QED BY <1>4, <1>5, <1>6, <1>7, <1>8 DEF HandoffInv

(* A step that leaves the writes and the attempts alone, and the gates of  *)
(* every drain that counts.                                                *)
LEMMA BackgroundKeeps ==
    ASSUME HandoffInv, TypeOK', TermsOK',
           UNCHANGED <<term, activated, unbroken, attempt, write, copied>>,
           lease' \in {lease, "none"},
           \A k \in Active : attempt[k].term = term /\ attempt[k].pc \in Draining =>
              \A m \in attempt[k].closed : gate'[m] /\ knows'[m] \in {k, NoLeader}
    PROVE  HandoffInv'
  <1>1. WritesMove BY NoWriteMoves
  <1>2. WritesOK' BY <1>1, WritesKept
  <1>3. CurrentOK'
    <2> SUFFICES ASSUME NEW k \in Active, attempt'[k].term = term' PROVE Established(k)'
      BY DEF CurrentOK
    <2>1. attempt[k].term = term /\ attempt'[k] = attempt[k] OBVIOUS
    <2> QED BY <1>1, <2>1, EstablishedKept
  <1>4. CarriedOK' BY <1>1, CarriedKept
  <1> QED BY <1>2, <1>3, <1>4 DEF HandoffInv

(* A drain that counts: no activation yet, and its gates closed. *)
LEMMA DrainCounts ==
    ASSUME HandoffInv, NEW k \in Active, attempt[k].term = term, attempt[k].pc \in Draining
    PROVE  /\ ~activated /\ placed = {} /\ leader = k
           /\ \A m \in attempt[k].closed : m \in Nodes /\ gate[m] /\ knows[m] \in {k, NoLeader}
  <1>1. Established(k) /\ attempt[k] \in AttemptRecord
    BY TypeParts DEF HandoffInv, CurrentOK
  <1>2. ~activated BY <1>1 DEF Established, Draining
  <1>3. placed = {} BY <1>2, TypeParts DEF HandoffInv
  <1>4. leader = k BY CurrentLeads
  <1> QED BY <1>1, <1>2, <1>3, <1>4 DEF Established, DrainsHold, AttemptRecord

LEMMA ExpireKeeps ==
    ASSUME HandoffInv, Expire
    PROVE  HandoffInv'
  <1>1. /\ lease' = "none"
        /\ UNCHANGED <<leader, term, elected, knows, activated, placed, unbroken, gate,
                       monitored, attempt, write, copied, stuck, faults>>
    BY DEF Expire, raft, gates
  <1>2. TypeOK' BY <1>1, TypeParts, TypePartsNext DEF HandoffInv
  <1>3. TermsOK' BY <1>1 DEF HandoffInv, TermsOK, Terms
  <1> QED BY <1>1, <1>2, <1>3, DrainCounts, BackgroundKeeps

LEMMA StrandKeeps ==
    ASSUME HandoffInv, NEW why \in {"unsettled", "undelivered"}, Strand(why)
    PROVE  HandoffInv'
  <1>1. /\ stuck' = why
        /\ UNCHANGED <<leader, term, elected, knows, activated, placed, unbroken, gate,
                       monitored, attempt, lease, write, copied, faults>>
    BY DEF Strand, raft, gates
  <1>2. TypeOK' BY <1>1, TypeParts, TypePartsNext DEF HandoffInv
  <1>3. TermsOK' BY <1>1 DEF HandoffInv, TermsOK, Terms
  <1> QED BY <1>1, <1>2, <1>3, DrainCounts, BackgroundKeeps

LEMMA MonitorKeeps ==
    ASSUME HandoffInv, NEW n \in Nodes, MonitorReleases(n)
    PROVE  HandoffInv'
  <1>1. /\ n \in placed /\ gate' = [gate EXCEPT ![n] = FALSE] /\ monitored' = monitored \ {n}
        /\ UNCHANGED <<leader, term, elected, knows, activated, placed, unbroken,
                       attempt, lease, write, copied, stuck, faults>>
    BY DEF MonitorReleases, raft
  <1>2. TypeOK' BY <1>1, TypeParts, TypePartsNext DEF HandoffInv
  <1>3. TermsOK' BY <1>1 DEF HandoffInv, TermsOK, Terms
  <1>4. \A k \in Active : ~(attempt[k].term = term /\ attempt[k].pc \in Draining)
    BY <1>1, DrainCounts
  <1> QED BY <1>1, <1>2, <1>3, <1>4, BackgroundKeeps

LEMMA LearnKeeps ==
    ASSUME HandoffInv, NEW n \in Nodes, Learn(n)
    PROVE  HandoffInv'
  <1>1. /\ leader # NoLeader /\ knows' = [knows EXCEPT ![n] = leader]
        /\ UNCHANGED <<leader, term, elected, activated, placed, unbroken, gate,
                       monitored, attempt, lease, write, copied, stuck, faults>>
    BY DEF Learn, gates
  <1>2. knows \in [Nodes -> Active \cup {NoLeader}] BY TypeParts DEF HandoffInv
  <1>3. TypeOK' BY <1>1, TypeParts, TypePartsNext DEF HandoffInv
  <1>4. TermsOK' BY <1>1 DEF HandoffInv, TermsOK, Terms
  <1>5. \A k \in Active : attempt[k].term = term /\ attempt[k].pc \in Draining =>
          \A m \in attempt[k].closed : gate'[m] /\ knows'[m] \in {k, NoLeader}
    BY <1>1, <1>2, DrainCounts
  <1> QED BY <1>1, <1>3, <1>4, <1>5, BackgroundKeeps

LEMMA ApplyKeeps ==
    ASSUME HandoffInv, NEW n \in Nodes, ApplyActivation(n)
    PROVE  HandoffInv'
  <1>1. /\ activated /\ placed' = placed \cup {n}
        /\ UNCHANGED <<leader, term, elected, knows, activated, unbroken, gate,
                       monitored, attempt, lease, write, copied, stuck, faults>>
    BY DEF ApplyActivation, gates
  <1>2. TypeOK' BY <1>1, TypeParts, TypePartsNext DEF HandoffInv
  <1>3. TermsOK' BY <1>1 DEF HandoffInv, TermsOK, Terms
  <1> QED BY <1>1, <1>2, <1>3, DrainCounts, BackgroundKeeps

(* In a new term no attempt is current. *)
LEMMA ElectKeeps ==
    ASSUME HandoffInv, NEW n \in Active, Elect(n)
    PROVE  HandoffInv'
  <1>1. /\ term < MaxTerm /\ leader' = n /\ term' = term + 1
        /\ elected' = [elected EXCEPT ![n] = term + 1]
        /\ knows' = [knows EXCEPT ![n] = n]
        /\ UNCHANGED <<activated, placed, unbroken, gate, monitored, attempt, lease,
                       write, copied, stuck, faults>>
    BY DEF Elect, gates
  <1>2. /\ term \in 1..MaxTerm /\ elected \in [Active -> 0..MaxTerm] /\ n \in Nodes
        /\ knows \in [Nodes -> Active \cup {NoLeader}]
        /\ attempt \in [Active -> AttemptRecord]
    BY TypeParts DEF HandoffInv, Nodes
  <1>3. /\ term' \in 1..MaxTerm /\ elected' \in [Active -> 0..MaxTerm]
        /\ knows' \in [Nodes -> Active \cup {NoLeader}]
    BY <1>1, <1>2, MaxTermType
  <1>4. TypeOK' BY <1>1, <1>3, TypeParts, TypePartsNext DEF HandoffInv
  <1>5. ASSUME NEW k \in Active
        PROVE  attempt[k].term <= elected[k] /\ elected[k] <= term /\ attempt[k].term \in Nat
               /\ elected[k] \in Nat /\ term \in Nat
    BY <1>2, MaxTermType DEF HandoffInv, TermsOK, Terms, AttemptRecord
  <1>6. TermsOK'
    <2> SUFFICES ASSUME NEW k \in Active PROVE Terms(k)' BY DEF TermsOK
    <2>1. Terms(k) BY DEF HandoffInv, TermsOK
    <2>2. CASE k = n
      <3>1. elected'[k] = term + 1 BY <1>1, <1>2, <2>2
      <3> QED BY <1>1, <1>5, <2>1, <2>2, <3>1 DEF Terms
    <2>3. CASE k # n
      <3>1. elected'[k] = elected[k] BY <1>1, <1>2, <2>3
      <3> QED BY <1>1, <1>5, <2>1, <2>3, <3>1 DEF Terms
    <2> QED BY <2>2, <2>3
  <1>7. WritesMove BY <1>1, NoWriteMoves
  <1>8. WritesOK' BY <1>7, WritesKept
  <1>9. CurrentOK'
    <2>1. \A k \in Active : attempt'[k].term # term' BY <1>1, <1>5
    <2> QED BY <2>1 DEF CurrentOK
  <1>10. CarriedOK' BY <1>1, <1>7, CarriedKept
  <1> QED BY <1>4, <1>6, <1>8, <1>9, <1>10 DEF HandoffInv

(* A node that restarts before activation comes up closed, so the drain it *)
(* answered holds; the one it had not answered fails.                      *)
LEMMA RestartKeeps ==
    ASSUME HandoffInv, NEW n \in Nodes, Restart(n)
    PROVE  HandoffInv'
  <1>1. /\ faults < MaxFaults /\ faults' = faults + 1
        /\ leader' = IF n = leader THEN NoLeader ELSE leader
        /\ knows' = [knows EXCEPT ![n] = NoLeader]
        /\ gate' = [gate EXCEPT ![n] = initial_mutation_admission(n)]
        /\ monitored' = IF initial_mutation_admission(n) THEN monitored \cup {n}
                        ELSE monitored \ {n}
        /\ lease' = IF n = Coordinator THEN "none" ELSE lease
        /\ UNCHANGED <<term, elected, activated, placed, copied, stuck, unbroken>>
    BY DEF Restart
  <1>2. attempt' = [m \in Active |->
                      IF \/ m = n \/ n = Joiner
                         \/ n \in attempt[m].closed \cap attempt[m].todo
                      THEN NoAttempt ELSE attempt[m]]
    BY DEF Restart
  <1>3. /\ attempt \in [Active -> AttemptRecord]
        /\ knows \in [Nodes -> Active \cup {NoLeader}]
        /\ gate \in [Nodes -> BOOLEAN] /\ faults \in 0..MaxFaults
        /\ leader \in Active \cup {NoLeader} /\ lease \in {"none", "old", "new"}
        /\ term \in 1..MaxTerm /\ elected \in [Active -> 0..MaxTerm]
        /\ monitored \subseteq Nodes
    BY TypeParts DEF HandoffInv
  <1>4. initial_mutation_admission(n) \in BOOLEAN
    BY DEF initial_mutation_admission
  <1>5. WritesMove BY RestartMoves
  <1>6. TypeOK'
    <2>1. faults' \in 0..MaxFaults BY <1>1, <1>3, MaxTermType
    <2>2. attempt' \in [Active -> AttemptRecord] BY <1>2, <1>3, NoAttemptTyped
    <2>3. knows' \in [Nodes -> Active \cup {NoLeader}] /\ gate' \in [Nodes -> BOOLEAN]
      BY <1>1, <1>3, <1>4
    <2>4. /\ leader' \in Active \cup {NoLeader} /\ lease' \in {"none", "old", "new"}
          /\ monitored' \subseteq Nodes
      BY <1>1, <1>3
    <2>5. write' \in [Writes -> WriteRecord] BY <1>5 DEF WritesMove
    <2> QED BY <1>1, <2>1, <2>2, <2>3, <2>4, <2>5, TypeParts, TypePartsNext DEF HandoffInv
  <1>7. TermsOK'
    <2> SUFFICES ASSUME NEW k \in Active PROVE Terms(k)' BY DEF TermsOK
    <2>1. Terms(k) /\ elected[k] \in 0..MaxTerm BY <1>3 DEF HandoffInv, TermsOK
    <2>2. k # NoLeader /\ k \in Nodes BY ActiveAssumption DEF Nodes
    <2>3. /\ attempt'[k] \in {attempt[k], NoAttempt}
          /\ k = n => attempt'[k] = NoAttempt
          /\ knows'[k] \in {knows[k], NoLeader} /\ (k = n => knows'[k] = NoLeader)
      BY <1>1, <1>2, <1>3, <2>2
    <2>4. NoAttempt.term <= elected[k] BY <2>1, NoAttemptTyped, MaxTermType
    <2>5. ASSUME elected[k] = term
          PROVE  \/ leader' = k
                 \/ leader' = NoLeader /\ knows'[k] # k /\ attempt'[k].pc = "idle"
      <3>1. CASE leader = k
        BY <1>1, <2>2, <2>3, <3>1, NoAttemptTyped
      <3>2. CASE leader = NoLeader /\ knows[k] # k /\ attempt[k].pc = "idle"
        BY <1>1, <2>2, <2>3, <3>2, NoAttemptTyped
      <3> QED BY <2>1, <2>5, <3>1, <3>2 DEF Terms
    <2> QED BY <1>1, <2>1, <2>3, <2>4, <2>5, NoAttemptTyped DEF Terms
  <1>8. WritesOK' BY <1>5, WritesKept
  <1>9. CurrentOK'
    <2> SUFFICES ASSUME NEW k \in Active, attempt'[k].term = term' PROVE Established(k)'
      BY DEF CurrentOK
    <2>1. attempt'[k] # NoAttempt BY <1>1, <1>3, NoAttemptTyped
    <2>2. attempt'[k] = attempt[k] /\ n # Joiner /\ attempt[k].term = term
      BY <1>1, <1>2, <2>1
    <2>3. ASSUME attempt[k].pc \in Draining, NEW m \in attempt[k].closed
          PROVE  gate'[m] /\ knows'[m] \in {k, NoLeader}
      <3>1. placed = {} /\ m \in Nodes /\ gate[m] /\ knows[m] \in {k, NoLeader}
        BY <2>2, <2>3, DrainCounts
      <3>2. initial_mutation_admission(n)
        BY <2>2, <3>1 DEF initial_mutation_admission
      <3>3. gate'[m] BY <1>1, <1>3, <3>1, <3>2
      <3> QED BY <1>1, <1>3, <3>1, <3>3
    <2>4. lease' \in {lease, "none"} BY <1>1
    <2> QED BY <1>1, <1>5, <2>2, <2>3, <2>4, EstablishedKept
  <1>10. CarriedOK'
    <2>1. lease' # "old" \/ lease' = lease BY <1>1
    <2> QED BY <1>1, <1>5, <2>1, CarriedKept
  <1> QED BY <1>6, <1>7, <1>8, <1>9, <1>10 DEF HandoffInv

---------------------------------------------------------------------------
(* The invariant and the theorems *)

LEMMA WriteActionKeeps ==
    ASSUME HandoffInv, NEW w \in Writes,
           UNCHANGED <<raft, stuck, gates, attempt, lease, copied>>,
           faults' = faults \/ (faults < MaxFaults /\ faults' = faults + 1), WritesMove
    PROVE  HandoffInv'
  <1>1. faults \in 0..MaxFaults BY TypeParts DEF HandoffInv
  <1>2. faults' \in 0..MaxFaults BY <1>1, MaxTermType
  <1> QED BY <1>2, WriteStepKeeps

LEMMA NextKeeps ==
    ASSUME HandoffInv, Next
    PROVE  HandoffInv'
  <1>1. ASSUME NEW w \in Writes, WriteStep(w) \/ Cancel(w) PROVE HandoffInv'
    <2>1. WritesMove
      BY <1>1, AdmitMoves, CaptureMoves, StoreLocalMoves, FinishMoves, AbandonMoves,
         ReceiveMoves, ApplyReplicaMoves, CancelMoves
      DEF WriteStep
    <2>2. /\ UNCHANGED <<raft, stuck, gates, attempt, lease, copied>>
          /\ faults' = faults \/ (faults < MaxFaults /\ faults' = faults + 1)
      BY <1>1 DEF WriteStep, Admit, Capture, StoreLocal, Finish, Abandon, Receive,
                  Redrive, ApplyReplica, Cancel
    <2> QED BY <2>1, <2>2, WriteActionKeeps
  <1>2. ASSUME NEW w \in Writes, NEW x \in Origins, NEW kind \in {"object", "program"},
               Enter(w, x, kind)
        PROVE  HandoffInv'
    <2>1. WritesMove BY <1>2, EnterMoves
    <2>2. UNCHANGED <<raft, stuck, gates, attempt, lease, copied>> /\ faults' = faults
      BY <1>2 DEF Enter
    <2> QED BY <2>1, <2>2, WriteActionKeeps
  <1>3. ASSUME NEW n \in Active, HandoffStep(n) PROVE HandoffInv'
    BY <1>3, BeginKeeps, PreCopyKeeps, CloseLocalKeeps, QuiesceKeeps, CutoverWaitKeeps,
       SampleTailsKeeps, AwaitCursorsKeeps, FinalCopyKeeps, CheckSuffixKeeps, ActivateKeeps,
       ReleaseLocalKeeps, ReleaseStaleKeeps, DrainKeeps, WaitKeeps
    DEF HandoffStep
  <1>4. ASSUME NEW n \in Active, Fail(n) \/ Elect(n) \/ Grant(n) PROVE HandoffInv'
    BY <1>4, FailKeeps, ElectKeeps, GrantKeeps
  <1>5. ASSUME NEW n \in Nodes,
               MonitorReleases(n) \/ Learn(n) \/ ApplyActivation(n) \/ Restart(n)
        PROVE  HandoffInv'
    BY <1>5, MonitorKeeps, LearnKeeps, ApplyKeeps, RestartKeeps
  <1> QED BY <1>1, <1>2, <1>3, <1>4, <1>5, ExpireKeeps, StrandKeeps DEF Next

LEMMA StutterKeeps ==
    ASSUME HandoffInv, UNCHANGED vars
    PROVE  HandoffInv'
  <1>1. /\ UNCHANGED <<raft, stuck, gates, attempt, lease, copied>> /\ UNCHANGED <<write, faults>>
    BY DEF vars, raft, gates
  <1>2. faults' \in 0..MaxFaults BY <1>1, TypeParts DEF HandoffInv
  <1> QED BY <1>1, <1>2, NoWriteMoves, WriteStepKeeps

LEMMA InitHolds == Init => HandoffInv
  <1> SUFFICES ASSUME Init PROVE HandoffInv OBVIOUS
  <1>1. TypeOK
    <2>1. Coordinator \in Active BY ActiveAssumption
    <2>2. /\ leader \in Active \cup {NoLeader} /\ term \in 1..MaxTerm
          /\ elected \in [Active -> 0..MaxTerm] /\ faults \in 0..MaxFaults
      BY <2>1, MaxTermType DEF Init
    <2>3. NewWrite \in WriteRecord BY DEF NewWrite, WriteRecord
    <2>4. /\ attempt \in [Active -> AttemptRecord] /\ write \in [Writes -> WriteRecord]
      BY <2>3, NoAttemptTyped DEF Init
    <2>5. knows \in [Nodes -> Active \cup {NoLeader}] /\ gate \in [Nodes -> BOOLEAN]
      BY <2>1 DEF Init
    <2> QED BY <2>2, <2>4, <2>5, TypeParts DEF Init
  <1>2. TermsOK
    <2> SUFFICES ASSUME NEW n \in Active PROVE Terms(n) BY DEF TermsOK
    <2>1. /\ attempt[n] = NoAttempt /\ term = 1
          /\ elected[n] = IF n = leader THEN 1 ELSE 0
      BY DEF Init
    <2> QED BY <2>1, NoAttemptTyped DEF Terms
  <1>3. WritesOK
    BY DEF Init, WritesOK, Recorded, NewWrite
  <1>4. CurrentOK
    BY NoAttemptTyped DEF Init, CurrentOK
  <1>5. CarriedOK BY DEF Init, CarriedOK
  <1> QED BY <1>1, <1>2, <1>3, <1>4, <1>5 DEF HandoffInv

LEMMA InvariantHolds == Spec => []HandoffInv
  <1>1. HandoffInv /\ [Next]_vars => HandoffInv'
    BY NextKeeps, StutterKeeps
  <1> QED BY <1>1, InitHolds, PTL DEF Spec

(* Every variable of the handoff keeps its type, and no node has applied   *)
(* an activation that no leader committed, for any number of elections,    *)
(* restarts and cancelled calls.                                           *)
THEOREM TypesHold == Spec => []TypeOK
  <1>1. HandoffInv => TypeOK BY DEF HandoffInv
  <1> QED BY <1>1, InvariantHolds, PTL

(* Activation leaves no acknowledged mutation behind: with any number of   *)
(* writes in flight at the cutover, entered anywhere, elections, restarts, *)
(* cancelled calls and lost answers, what a client was told of under the   *)
(* old placement is on the joining node, if the activating leader kept its *)
(* term.                                                                   *)
THEOREM NothingLeftBehind == Spec => []AckedCarried
  <1>1. HandoffInv => AckedCarried
    BY DEF HandoffInv, CarriedOK, Carried, AckedCarried
  <1> QED BY <1>1, InvariantHolds, PTL
=============================================================================
