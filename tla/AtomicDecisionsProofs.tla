----------------------- MODULE AtomicDecisionsProofs -----------------------
(***************************************************************************)
(* Theorems about AtomicDecisions for every set of nodes and invocations,  *)
(* every bound and every log length.  IInv is inductive: each conjunct is  *)
(* preserved by each command.                                              *)
(***************************************************************************)
EXTENDS AtomicDecisions, FiniteSetTheorems, TLAPS

LEMMA InitIInv == Init => IInv
  BY DEF Init, IInv, TypeOK, PreparedHeldByExecutor, CursorsOrdered,
         PrunedOnlyWhenSafe, PreparedIsNew, AtMostOncePerWindow,
         SerialFencedDecisions, None

(* A nomination keeps the prepared batch's identity and moves its fence.   *)
LEMMA NominateIInv ==
  ASSUME IInv, NEW e \in Nodes, NominateExecutor(e)
  PROVE  IInv'
  <1> USE DEF NominateExecutor, NextEntry, Refenced
  <1>1. TypeOK'
    <2>1. executor' \in Nomination
      BY DEF IInv, TypeOK, Nomination
    <2>2. preparing_batch' \in PreparedBatch \cup {None}
      <3>1. CASE preparing_batch = None
        BY <3>1
      <3>2. CASE preparing_batch # None
        <4>1. preparing_batch \in PreparedBatch /\ log_index' \in Nat
          BY <3>2 DEF IInv, TypeOK
        <4> QED BY <3>2, <4>1 DEF PreparedBatch
      <3> QED BY <3>1, <3>2
    <2> QED BY <2>1, <2>2 DEF IInv, TypeOK
  <1>2. PreparedHeldByExecutor'
    BY DEF IInv, TypeOK, PreparedHeldByExecutor, PreparedBatch, None
  <1>3. CursorsOrdered'
    BY DEF IInv, TypeOK, CursorsOrdered, PreparedBatch, Nomination,
           CommittedInvocation, None
  <1>4. PrunedOnlyWhenSafe' /\ AtMostOncePerWindow' /\ SerialFencedDecisions'
    BY DEF IInv, PrunedOnlyWhenSafe, AtMostOncePerWindow, SerialFencedDecisions
  <1>5. PreparedIsNew'
    BY DEF IInv, TypeOK, PreparedIsNew, PreparedBatch, None
  <1> QED BY <1>1, <1>2, <1>3, <1>4, <1>5 DEF IInv

(* Pruning removes only finalized, expired decisions; a preparation starts *)
(* above the last commit and for an invocation that is not retained.       *)
LEMMA BeginIInv ==
  ASSUME DecisionConstants, IInv, NEW e \in Nodes, NEW n \in Nat,
         NEW i \in Invocations, NEW at \in Times,
         BeginBatch(e, n, i, at)
  PROVE  IInv'
  <1> DEFINE kept == committed \ ExpiredFinalized(at)
             prepared == [begin_cursor |-> log_index', executor |-> e,
                          nomination_log_index |-> n, invocation_id |-> i,
                        expires |-> ReplayExpiry(at)]
  <1>a. /\ log_index' = log_index + 1
        /\ executor = [executor |-> e, nomination_log_index |-> n]
        /\ committed' = kept
        /\ \/ /\ preparing_batch = None
              /\ \A c \in kept : c.invocation_id # i
              /\ preparing_batch' = prepared
           \/ preparing_batch' = preparing_batch
        /\ horizon' = IF at > horizon THEN at ELSE horizon
        /\ UNCHANGED <<eligible, executor, last_commit_cursor, finalized_through, history>>
    BY DEF BeginBatch, NextEntry, RequireExecutor
  <1>b. at \in Nat /\ ReplayExpiry(at) \in Nat
    BY DEF Times, DecisionConstants, ReplayExpiry
  <1>c. TypeOK
    BY DEF IInv
  <1>1. TypeOK'
    <2>1. prepared \in PreparedBatch
      BY <1>a, <1>b, <1>c DEF TypeOK, PreparedBatch
    <2> QED BY <1>a, <1>b, <1>c, <2>1 DEF TypeOK
  <1>2. PreparedHeldByExecutor'
    BY <1>a DEF IInv, PreparedHeldByExecutor
  <1>3. CursorsOrdered'
    BY <1>a, <1>c DEF IInv, TypeOK, CursorsOrdered, Nomination, None
  <1>4. PrunedOnlyWhenSafe'
    <2>1. \A h \in history \ kept : h.commit_cursor <= finalized_through
                                    /\ h.expires <= horizon'
      BY <1>a, <1>b, <1>c DEF IInv, PrunedOnlyWhenSafe, ExpiredFinalized,
                              TypeOK, CommittedInvocation
    <2> QED BY <1>a, <2>1 DEF IInv, PrunedOnlyWhenSafe
  <1>5. PreparedIsNew'
    BY <1>a DEF IInv, PreparedIsNew
  <1>6. AtMostOncePerWindow' /\ SerialFencedDecisions'
    BY <1>a, <1>b, <1>c DEF IInv, AtMostOncePerWindow, SerialFencedDecisions,
                            TypeOK, CommittedInvocation
  <1> QED BY <1>1, <1>2, <1>3, <1>4, <1>5, <1>6 DEF IInv

(* The new decision carries the highest cursor.  An older decision for the *)
(* same invocation is not retained, so it was finalized and had expired.   *)
LEMMA CommitIInv ==
  ASSUME IInv, NEW e \in Nodes, NEW n \in Nat, NEW begin \in Nat,
         NEW i \in Invocations, CommitPreparedBatch(e, n, begin, i)
  PROVE  IInv'
  <1> DEFINE inv == [commit_cursor |-> log_index', begin_cursor |-> begin,
                     executor |-> e, nomination_log_index |-> n,
                     invocation_id |-> i,
                     expires |-> preparing_batch.expires]
  <1>a. /\ log_index' = log_index + 1
        /\ executor = [executor |-> e, nomination_log_index |-> n]
        /\ preparing_batch # None
        /\ preparing_batch.begin_cursor = begin
        /\ preparing_batch.invocation_id = i
        /\ committed' = committed \cup {inv}
        /\ history' = history \cup {inv}
        /\ last_commit_cursor' = log_index'
        /\ preparing_batch' = None
        /\ UNCHANGED <<eligible, executor, finalized_through, horizon>>
    BY DEF CommitPreparedBatch, NextEntry, RequireExecutor
  <1>b. TypeOK /\ preparing_batch \in PreparedBatch
    BY <1>a DEF IInv, TypeOK
  <1>c. /\ inv.commit_cursor = log_index + 1
        /\ inv.begin_cursor = begin
        /\ inv.invocation_id = i
        /\ inv.nomination_log_index = n
    BY <1>a
  <1>d. executor # None /\ executor.nomination_log_index = n
    BY <1>a DEF None
  <1>e. /\ last_commit_cursor < begin
        /\ last_commit_cursor <= log_index
        /\ finalized_through <= last_commit_cursor
        /\ n <= log_index
        /\ \A h \in history : h.commit_cursor <= last_commit_cursor
                              /\ h.nomination_log_index <= n
    BY <1>a, <1>d DEF IInv, CursorsOrdered
  <1>1. TypeOK'
    <2>1. inv \in CommittedInvocation
      BY <1>a, <1>b DEF TypeOK, PreparedBatch, CommittedInvocation
    <2> HIDE DEF inv
    <2>2. committed' \in SUBSET CommittedInvocation
      BY <1>a, <1>b, <2>1 DEF TypeOK
    <2>3. history' \in SUBSET CommittedInvocation
      BY <1>a, <1>b, <2>1 DEF TypeOK
    <2> QED BY <1>a, <1>b, <2>2, <2>3 DEF TypeOK
  <1>2. PreparedHeldByExecutor' /\ PreparedIsNew'
    BY <1>a DEF PreparedHeldByExecutor, PreparedIsNew
  <1> HIDE DEF inv
  <1>3. CursorsOrdered'
    <2>1. \A h \in history' : /\ h.commit_cursor <= log_index + 1
                              /\ h.nomination_log_index <= n
      BY <1>a, <1>b, <1>c, <1>e DEF TypeOK, CommittedInvocation
    <2> QED BY <1>a, <1>b, <1>d, <1>e, <2>1 DEF CursorsOrdered, TypeOK
  <1>4. PrunedOnlyWhenSafe'
    BY <1>a DEF IInv, PrunedOnlyWhenSafe
  <1>5. AtMostOncePerWindow'
    <2> SUFFICES ASSUME NEW a \in history', NEW b \in history',
                        a.invocation_id = b.invocation_id,
                        a.commit_cursor < b.commit_cursor
                 PROVE  a.commit_cursor <= finalized_through /\ a.expires <= horizon
      BY <1>a DEF AtMostOncePerWindow
    <2>1. a # inv
      BY <1>a, <1>b, <1>c, <1>e DEF TypeOK, CommittedInvocation
    <2>2. CASE b # inv
      BY <1>a, <2>1, <2>2 DEF IInv, AtMostOncePerWindow
    <2>3. CASE b = inv
      <3>1. a \in history \ committed
        BY <1>a, <1>c, <2>1, <2>3 DEF IInv, PreparedIsNew
      <3> QED BY <3>1 DEF IInv, PrunedOnlyWhenSafe
    <2> QED BY <2>2, <2>3
  <1>6. SerialFencedDecisions'
    <2> SUFFICES ASSUME NEW a \in history', NEW b \in history',
                        a.commit_cursor < b.commit_cursor
                 PROVE  /\ a.commit_cursor < b.begin_cursor
                        /\ a.nomination_log_index <= b.nomination_log_index
      BY DEF SerialFencedDecisions
    <2>1. a # inv
      BY <1>a, <1>b, <1>c, <1>e DEF TypeOK, CommittedInvocation
    <2>2. CASE b # inv
      BY <1>a, <2>1, <2>2 DEF IInv, SerialFencedDecisions
    <2>3. CASE b = inv
      BY <1>a, <1>b, <1>c, <1>e, <2>1, <2>3 DEF TypeOK, CommittedInvocation
    <2> QED BY <2>2, <2>3
  <1> QED BY <1>1, <1>2, <1>3, <1>4, <1>5, <1>6 DEF IInv

LEMMA AbortIInv ==
  ASSUME IInv, NEW e \in Nodes, NEW n \in Nat, NEW begin \in Nat,
         NEW i \in Invocations, AbortPreparedBatch(e, n, begin, i)
  PROVE  IInv'
  BY DEF IInv, AbortPreparedBatch, NextEntry, TypeOK, PreparedHeldByExecutor,
         CursorsOrdered, PrunedOnlyWhenSafe, PreparedIsNew,
         AtMostOncePerWindow, SerialFencedDecisions, Nomination

(* Raising the watermark only makes more decisions final.                  *)
LEMMA FinalizeIInv ==
  ASSUME IInv, NEW e \in Nodes, NEW n \in Nat, NEW through \in Nat,
         FinalizedThrough(e, n, through)
  PROVE  IInv'
  <1>a. /\ log_index' = log_index + 1
        /\ finalized_through' = through
        /\ finalized_through <= through
        /\ through <= last_commit_cursor
        /\ UNCHANGED <<eligible, executor, preparing_batch, committed,
                       last_commit_cursor, history, horizon>>
    BY DEF FinalizedThrough, NextEntry, IInv, CursorsOrdered
  <1>1. TypeOK' /\ PreparedHeldByExecutor' /\ PreparedIsNew' /\ SerialFencedDecisions'
    BY <1>a DEF IInv, TypeOK, PreparedHeldByExecutor, PreparedIsNew, SerialFencedDecisions
  <1>2. CursorsOrdered'
    BY <1>a DEF IInv, TypeOK, CursorsOrdered, Nomination
  <1>3. PrunedOnlyWhenSafe' /\ AtMostOncePerWindow'
    BY <1>a DEF IInv, TypeOK, PrunedOnlyWhenSafe, AtMostOncePerWindow,
                CommittedInvocation
  <1> QED BY <1>1, <1>2, <1>3 DEF IInv

LEMMA NoopIInv ==
  ASSUME IInv, ApplyNoop \/ \E nodes \in SUBSET Nodes : ChangeEligible(nodes)
  PROVE  IInv'
  BY DEF IInv, ApplyNoop, ChangeEligible, NextEntry, TypeOK,
         PreparedHeldByExecutor, CursorsOrdered, PrunedOnlyWhenSafe,
         PreparedIsNew, AtMostOncePerWindow, SerialFencedDecisions, Nomination

LEMMA NextIInv == IInv /\ [Next]_vars => IInv'
  <1> SUFFICES ASSUME IInv, [Next]_vars PROVE IInv'
    OBVIOUS
  <1>1. SeenIndexes \subseteq Nat
    BY DEF SeenIndexes, IInv, TypeOK
  <1>2. CASE UNCHANGED vars
    BY <1>2 DEF vars, IInv, TypeOK, PreparedHeldByExecutor, CursorsOrdered,
                PrunedOnlyWhenSafe, PreparedIsNew, AtMostOncePerWindow,
                SerialFencedDecisions
  <1>3. CASE ApplyNoop \/ \E nodes \in SUBSET Nodes : ChangeEligible(nodes)
    BY <1>3, NoopIInv
  <1>4. ASSUME NEW e \in Nodes, NominateExecutor(e) PROVE IInv'
    BY <1>4, NominateIInv
  <1>5. ASSUME NEW e \in Nodes, NEW n \in SeenIndexes, NEW i \in Invocations,
               NEW at \in Times, BeginBatch(e, n, i, at)
        PROVE IInv'
    BY <1>1, <1>5, BeginIInv, DecisionConstants
  <1>6. ASSUME NEW e \in Nodes, NEW n \in SeenIndexes, NEW i \in Invocations,
               NEW begin \in SeenIndexes,
               CommitPreparedBatch(e, n, begin, i) \/ AbortPreparedBatch(e, n, begin, i)
        PROVE IInv'
    BY <1>1, <1>6, CommitIInv, AbortIInv
  <1>7. ASSUME NEW e \in Nodes, NEW n \in SeenIndexes, NEW through \in SeenIndexes,
               FinalizedThrough(e, n, through)
        PROVE IInv'
    BY <1>1, <1>7, FinalizeIInv
  <1> QED BY <1>2, <1>3, <1>4, <1>5, <1>6, <1>7 DEF Next

LEMMA SpecIInv == Spec => []IInv
  BY InitIInv, NextIInv, PTL DEF Spec

(* Every reachable decision state is well typed.                           *)
THEOREM DecisionsTypeCorrect == Spec => []TypeOK
  <1>1. IInv => TypeOK BY DEF IInv
  <1> QED BY <1>1, SpecIInv, PTL

(* begin_batch with expired_finalized_cursors: a retried invocation is     *)
(* decided again only after its first decision was finalized and expired.  *)
THEOREM ReplayAtMostOnce == Spec => []AtMostOncePerWindow
  <1>1. IInv => AtMostOncePerWindow BY DEF IInv
  <1> QED BY <1>1, SpecIInv, PTL

(* prune_committed_invocations: pruning never reaches above the            *)
(* finalization watermark, so recovery sees every unfinalized decision.    *)
THEOREM RecoveryTailIsComplete == Spec => []RecoveryTailComplete
  <1>1. IInv => RecoveryTailComplete
    BY DEF IInv, TypeOK, PrunedOnlyWhenSafe, RecoveryTailComplete, Unfinalized,
           CommittedInvocation
  <1> QED BY <1>1, SpecIInv, PTL

(* nominate_executor: the preparing batch never outlives its fence.        *)
THEOREM PreparationNeverOrphaned == Spec => []PreparedHeldByExecutor
  <1>1. IInv => PreparedHeldByExecutor BY DEF IInv
  <1> QED BY <1>1, SpecIInv, PTL

(* commit_prepared_batch under require_executor: decisions are serial and  *)
(* their fences never regress.                                             *)
THEOREM DecisionsSerialAndFenced == Spec => []SerialFencedDecisions
  <1>1. IInv => SerialFencedDecisions BY DEF IInv
  <1> QED BY <1>1, SpecIInv, PTL
(* Finiteness makes cardinalities comparable, so it is carried along.      *)
Windows == IsFiniteSet(committed) /\ RetainedStateBounded

(* A step that adds no decision and lowers no watermark shrinks both       *)
(* windows.                                                                *)
LEMMA ShrinkingWindows ==
  ASSUME Windows, DecisionConstants,
         committed' \subseteq committed, Unfinalized' \subseteq Unfinalized
  PROVE  Windows'
  <1>1. Unfinalized \subseteq committed
    BY DEF Unfinalized
  <1>2. /\ IsFiniteSet(committed') /\ Cardinality(committed') <= Cardinality(committed)
        /\ IsFiniteSet(Unfinalized) /\ IsFiniteSet(Unfinalized')
        /\ Cardinality(Unfinalized') <= Cardinality(Unfinalized)
    BY <1>1, FS_Subset DEF Windows
  <1>3. /\ Cardinality(committed) \in Nat /\ Cardinality(committed') \in Nat
        /\ Cardinality(Unfinalized) \in Nat /\ Cardinality(Unfinalized') \in Nat
    BY <1>2, FS_CardinalityType DEF Windows
  <1> QED BY <1>2, <1>3 DEF Windows, RetainedStateBounded, DecisionConstants

(* Adding one element.                                                     *)
LEMMA OneMore ==
  ASSUME NEW S, NEW x, IsFiniteSet(S)
  PROVE  /\ IsFiniteSet(S \cup {x}) /\ Cardinality(S \cup {x}) \in Nat
         /\ Cardinality(S) \in Nat /\ Cardinality(S \cup {x}) <= Cardinality(S) + 1
  <1>1. Cardinality(S) \in Nat
    BY FS_CardinalityType
  <1>2. /\ IsFiniteSet(S \cup {x})
        /\ Cardinality(S \cup {x}) \in {Cardinality(S), Cardinality(S) + 1}
    BY FS_AddElement
  <1> QED BY <1>1, <1>2

(* A decision is added only where both windows have room for it.           *)
LEMMA CommitWindows ==
  ASSUME Windows, DecisionConstants, NEW inv,
         committed' = committed \cup {inv}, finalized_through' = finalized_through,
         WindowsHaveRoom
  PROVE  Windows'
  <1>1. Unfinalized \subseteq committed /\ Unfinalized' \subseteq Unfinalized \cup {inv}
    BY DEF Unfinalized
  <1>2. IsFiniteSet(Unfinalized)
    BY <1>1, FS_Subset DEF Windows
  <1>3. /\ IsFiniteSet(committed') /\ Cardinality(committed') \in Nat
        /\ Cardinality(committed) \in Nat
        /\ Cardinality(committed') <= Cardinality(committed) + 1
    BY OneMore DEF Windows
  <1>4. /\ IsFiniteSet(Unfinalized \cup {inv}) /\ Cardinality(Unfinalized \cup {inv}) \in Nat
        /\ Cardinality(Unfinalized) \in Nat
        /\ Cardinality(Unfinalized \cup {inv}) <= Cardinality(Unfinalized) + 1
    <2>1. \A S : IsFiniteSet(S) => /\ IsFiniteSet(S \cup {inv})
                                   /\ Cardinality(S \cup {inv}) \in Nat
                                   /\ Cardinality(S) \in Nat
                                   /\ Cardinality(S \cup {inv}) <= Cardinality(S) + 1
      BY OneMore
    <2> QED BY <1>2, <2>1
  <1>5. /\ IsFiniteSet(Unfinalized') /\ Cardinality(Unfinalized') \in Nat
        /\ Cardinality(Unfinalized') <= Cardinality(Unfinalized \cup {inv})
    BY <1>1, <1>4, FS_Subset, FS_CardinalityType
  <1> QED BY <1>3, <1>4, <1>5 DEF Windows, RetainedStateBounded, DecisionConstants,
                                  WindowsHaveRoom

LEMMA NextWindows == IInv /\ Windows /\ [Next]_vars => Windows'
  <1> SUFFICES ASSUME IInv, Windows, [Next]_vars PROVE Windows'
    OBVIOUS
  <1>1. CASE UNCHANGED <<committed, finalized_through>>
    BY <1>1 DEF Windows, RetainedStateBounded, Unfinalized
  <1>2. ASSUME NEW e \in Nodes, NEW n \in SeenIndexes, NEW i \in Invocations,
               NEW at \in Times, BeginBatch(e, n, i, at)
        PROVE Windows'
    <2>1. committed' \subseteq committed /\ finalized_through' = finalized_through
      BY <1>2 DEF BeginBatch
    <2>2. Unfinalized' \subseteq Unfinalized
      BY <2>1 DEF Unfinalized
    <2> QED BY <2>1, <2>2, ShrinkingWindows, DecisionConstants
  <1>3. ASSUME NEW e \in Nodes, NEW n \in SeenIndexes, NEW i \in Invocations,
               NEW begin \in SeenIndexes, CommitPreparedBatch(e, n, begin, i)
        PROVE Windows'
    BY <1>3, CommitWindows, DecisionConstants DEF CommitPreparedBatch
  <1>4. ASSUME NEW e \in Nodes, NEW n \in SeenIndexes, NEW through \in SeenIndexes,
               FinalizedThrough(e, n, through)
        PROVE Windows'
    <2>1. /\ committed' = committed /\ finalized_through' = through
          /\ finalized_through <= through /\ through \in Nat
      BY <1>4 DEF FinalizedThrough, SeenIndexes, IInv, TypeOK
    <2>2. Unfinalized' \subseteq Unfinalized
      BY <2>1 DEF Unfinalized, IInv, TypeOK, CommittedInvocation
    <2> QED BY <2>1, <2>2, ShrinkingWindows, DecisionConstants
  <1> QED BY <1>1, <1>2, <1>3, <1>4
          DEF Next, vars, NominateExecutor, ApplyNoop, ChangeEligible, AbortPreparedBatch

(* WindowsHaveRoom is checked at the commit only: a preparation, a         *)
(* nomination or an expiry in between never lets the retained decisions or *)
(* the unfinalized tail exceed their limits.                               *)
THEOREM RetentionStaysBounded == Spec => []RetainedStateBounded
  <1>1. Init => Windows
    BY FS_EmptySet, DecisionConstants DEF Init, Windows, RetainedStateBounded,
                                          Unfinalized, DecisionConstants
  <1>2. Windows => RetainedStateBounded
    BY DEF Windows
  <1> QED BY <1>1, <1>2, SpecIInv, NextWindows, PTL DEF Spec
=============================================================================
