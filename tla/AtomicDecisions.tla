--------------------------- MODULE AtomicDecisions ---------------------------
(***************************************************************************)
(* The compact decision state Keldra replicates through Raft for atomic    *)
(* programs: the executor nomination, the one preparing batch, and the     *)
(* committed invocations kept for recovery and replay.  A behaviour is the *)
(* sequence of log entries one replica applies; every replica applies the  *)
(* same sequence.                                                          *)
(*                                                                         *)
(* A command's fields arrive from executors that may be deposed, slow or   *)
(* wrong about the time, so every action takes them from the whole of      *)
(* their sets.  A command the state machine rejects, a blank entry and a   *)
(* membership entry advance the log and nothing else (ApplyNoop), except   *)
(* that a rejected BeginBatch still keeps its pruning.                     *)
(***************************************************************************)
EXTENDS Integers, FiniteSets

CONSTANTS
    Nodes,              \* node identities
    Invocations,        \* caller-chosen invocation identities
    MaxCommitEntries,   \* configured bound of the unfinalized recovery tail
    MaxInvocations,     \* MAX_COMMITTED_INVOCATIONS, bound of the replay window
    Retention,          \* ATOMIC_REPLAY_RETENTION_MILLIS
    MaxTime,            \* bound: proposal times range over 1..MaxTime
    MaxLogIndex         \* bound: the last log index a behaviour applies

ASSUME DecisionConstants ==
    /\ MaxCommitEntries \in Nat \ {0}
    /\ MaxInvocations \in Nat \ {0}
    /\ Retention \in Nat \ {0}
    /\ MaxTime \in Nat
    /\ MaxLogIndex \in Nat

VARIABLES
    log_index,          \* index of the last applied entry
    eligible,           \* nodes that are Raft members and ACTIVE
    executor,           \* None, or the current nomination
    preparing_batch,    \* None, or the one preparing batch
    committed,          \* retained committed invocations, one per cursor
    last_commit_cursor, \* 0 when nothing was committed
    finalized_through,  \* 0 when nothing was finalized
    history,            \* auxiliary: every invocation ever committed
    horizon             \* auxiliary: the latest proposal time a BeginBatch pruned with

vars == <<log_index, eligible, executor, preparing_batch, committed,
          last_commit_cursor, finalized_through, history, horizon>>

None == [none |-> TRUE]

Times == 1..MaxTime

Nomination == [executor : Nodes, nomination_log_index : Nat]

PreparedBatch ==
    [begin_cursor : Nat, executor : Nodes, nomination_log_index : Nat,
     invocation_id : Invocations, expires : Nat]

CommittedInvocation ==
    [commit_cursor : Nat, begin_cursor : Nat, executor : Nodes,
     nomination_log_index : Nat, invocation_id : Invocations,
     expires : Nat]

(* Types.  Expiries, cursors and fences are natural numbers: the state     *)
(* machine adds the replay window to a proposal time and subtracts nothing.*)
TypeOK ==
    /\ log_index \in Nat
    /\ eligible \in SUBSET Nodes
    /\ executor \in Nomination \cup {None}
    /\ preparing_batch \in PreparedBatch \cup {None}
    /\ committed \in SUBSET CommittedInvocation
    /\ last_commit_cursor \in Nat
    /\ finalized_through \in Nat
    /\ history \in SUBSET CommittedInvocation
    /\ horizon \in Nat

Init ==
    /\ log_index = 0
    /\ eligible \in SUBSET Nodes
    /\ executor = None
    /\ preparing_batch = None
    /\ committed = {}
    /\ last_commit_cursor = 0
    /\ finalized_through = 0
    /\ history = {}
    /\ horizon = 0

-----------------------------------------------------------------------------
(* Every applied entry takes the next consecutive log index.               *)
NextEntry == log_index < MaxLogIndex /\ log_index' = log_index + 1

(* Mutant: the fence compares the executor but not the nomination.         *)
RequireExecutorAnyNomination(e, n) ==
    e \in eligible /\ executor # None /\ executor.executor = e

(* The fence of every executor command: the sender is still a member and   *)
(* ACTIVE, and names exactly the current nomination.                       *)
RequireExecutor(e, n) ==
    /\ e \in eligible
    /\ executor = [executor |-> e, nomination_log_index |-> n]

(* Mutants: pruning looks at only one of the two conditions.               *)
ExpiredEvenUnfinalized(at) == {c \in committed : c.expires <= at}
FinalizedEvenUnexpired(at) == {c \in committed : c.commit_cursor <= finalized_through}

ExpiredFinalized(at) ==
    {c \in committed : c.commit_cursor <= finalized_through /\ c.expires <= at}

Unfinalized == {c \in committed : c.commit_cursor > finalized_through}

(* Mutant: the limit is tested before the new entry is counted.            *)
WindowsNotYetOver ==
    /\ Cardinality(committed) <= MaxInvocations
    /\ Cardinality(Unfinalized) <= MaxCommitEntries

(* Both windows can take one more decision.                                *)
WindowsHaveRoom ==
    /\ Cardinality(committed) + 1 <= MaxInvocations
    /\ Cardinality(Unfinalized) + 1 <= MaxCommitEntries

(* Mutant: a new nomination leaves the preparing batch under the old one.  *)
NotRefenced(e, n) == preparing_batch

(* A nomination moves recovery authority over a preparing batch to the new *)
(* executor: the batch keeps its identity and takes the new fence.         *)
Refenced(e, n) ==
    IF preparing_batch = None THEN None
    ELSE [preparing_batch EXCEPT !.executor = e, !.nomination_log_index = n]

NominateExecutor(e) ==
    /\ NextEntry
    /\ e \in eligible
    /\ executor' = [executor |-> e, nomination_log_index |-> log_index']
    /\ preparing_batch' = Refenced(e, log_index')
    /\ UNCHANGED <<eligible, committed, last_commit_cursor,
                   finalized_through, history, horizon>>

(* Mutant: the window is subtracted from the proposal time.                *)
ExpiryBeforeProposal(at) == at - Retention

ReplayExpiry(at) == at + Retention

(* Pruning comes first and survives whatever the command answers: a replay *)
(* of a retained invocation, an idempotency conflict, a preparation in     *)
(* progress, or a new preparation.                                         *)
BeginBatch(e, n, i, at) ==
    /\ NextEntry
    /\ RequireExecutor(e, n)
    /\ LET kept == committed \ ExpiredFinalized(at)
           prepared == [begin_cursor |-> log_index', executor |-> e,
                        nomination_log_index |-> n, invocation_id |-> i,
                        expires |-> ReplayExpiry(at)]
       IN  /\ committed' = kept
           /\ preparing_batch' =
                IF preparing_batch = None /\ \A c \in kept : c.invocation_id # i
                THEN prepared ELSE preparing_batch
    /\ horizon' = IF at > horizon THEN at ELSE horizon
    /\ UNCHANGED <<eligible, executor, last_commit_cursor, finalized_through, history>>

(* The exact active preparation becomes a decision under its own cursor,   *)
(* when both bounds have room for it.                                      *)
CommitPreparedBatch(e, n, begin, i) ==
    /\ NextEntry
    /\ RequireExecutor(e, n)
    /\ preparing_batch # None
    /\ preparing_batch.begin_cursor = begin
    /\ preparing_batch.executor = e
    /\ preparing_batch.nomination_log_index = n
    /\ preparing_batch.invocation_id = i
    /\ log_index' > last_commit_cursor
    /\ log_index' > finalized_through
    /\ WindowsHaveRoom
    /\ LET invocation == [commit_cursor |-> log_index', begin_cursor |-> begin,
                          executor |-> e, nomination_log_index |-> n,
                          invocation_id |-> i,
                          expires |-> preparing_batch.expires]
       IN  /\ committed' = committed \cup {invocation}
           /\ history' = history \cup {invocation}
    /\ last_commit_cursor' = log_index'
    /\ preparing_batch' = None
    /\ UNCHANGED <<eligible, executor, finalized_through, horizon>>

AbortPreparedBatch(e, n, begin, i) ==
    /\ NextEntry
    /\ RequireExecutor(e, n)
    /\ preparing_batch # None
    /\ preparing_batch.begin_cursor = begin
    /\ preparing_batch.executor = e
    /\ preparing_batch.nomination_log_index = n
    /\ preparing_batch.invocation_id = i
    /\ preparing_batch' = None
    /\ UNCHANGED <<eligible, executor, committed, last_commit_cursor,
                   finalized_through, history, horizon>>

(* Repeating the current watermark is accepted and changes nothing; the    *)
(* watermark neither regresses nor passes the last commit.                 *)
FinalizedThrough(e, n, through) ==
    /\ NextEntry
    /\ RequireExecutor(e, n)
    /\ finalized_through <= through
    /\ \/ through = finalized_through
       \/ through <= last_commit_cursor
    /\ finalized_through' = through
    /\ UNCHANGED <<eligible, executor, preparing_batch, committed,
                   last_commit_cursor, history, horizon>>

(* Blank entries and rejected commands.                                    *)
ApplyNoop ==
    /\ NextEntry
    /\ UNCHANGED <<eligible, executor, preparing_batch, committed,
                   last_commit_cursor, finalized_through, history, horizon>>

(* A membership entry, or a descriptor transition, changes who may be an   *)
(* executor without touching the decisions.                                *)
ChangeEligible(nodes) ==
    /\ NextEntry
    /\ eligible' = nodes
    /\ UNCHANGED <<executor, preparing_batch, committed, last_commit_cursor,
                   finalized_through, history, horizon>>

(* Log indexes an executor may name: it has seen them committed.           *)
SeenIndexes == 1..log_index

Next ==
    \/ ApplyNoop
    \/ \E nodes \in SUBSET Nodes : ChangeEligible(nodes)
    \/ \E e \in Nodes : NominateExecutor(e)
    \/ \E e \in Nodes, n \in SeenIndexes :
         \/ \E i \in Invocations, at \in Times :
              BeginBatch(e, n, i, at)
         \/ \E i \in Invocations, begin \in SeenIndexes :
              \/ CommitPreparedBatch(e, n, begin, i)
              \/ AbortPreparedBatch(e, n, begin, i)
         \/ \E through \in SeenIndexes : FinalizedThrough(e, n, through)

Spec == Init /\ [][Next]_vars
-----------------------------------------------------------------------------
(* Properties                                                              *)

(* A second decision for one invocation can only follow the first one      *)
(* after the first was finalized and some executor's clock had passed its  *)
(* replay expiry: a retry inside the window never re-executes, whichever   *)
(* executor, clock or nomination the retry meets (begin_batch,             *)
(* expired_finalized_cursors).                                             *)
AtMostOncePerWindow ==
    \A a, b \in history :
        a.invocation_id = b.invocation_id /\ a.commit_cursor < b.commit_cursor
            => a.commit_cursor <= finalized_through /\ a.expires <= horizon

(* No decision above the finalization watermark is ever lost, so an        *)
(* executor that takes over replays exactly the batches whose publication  *)
(* nobody has confirmed (prune_committed_invocations,                      *)
(* unfinalized_invocations).                                               *)
RecoveryTailComplete ==
    {h \in history : h.commit_cursor > finalized_through} = Unfinalized

(* The preparing batch always belongs to the current nomination.  If it    *)
(* did not, no executor could commit or abort it and every later batch     *)
(* would be refused forever (nominate_executor).                           *)
PreparedHeldByExecutor ==
    preparing_batch # None =>
        executor = [executor |-> preparing_batch.executor,
                    nomination_log_index |-> preparing_batch.nomination_log_index]

(* Decisions are serial: a batch is begun only after the previous decision *)
(* was committed, and the fences of successive decisions never go back, so *)
(* a deposed executor cannot slip a decision in behind its successor.      *)
SerialFencedDecisions ==
    \A a, b \in history :
        a.commit_cursor < b.commit_cursor =>
            /\ a.commit_cursor < b.begin_cursor
            /\ a.nomination_log_index <= b.nomination_log_index

(* Finalization and pruning never let the retained state outgrow the two   *)
(* bounds a snapshot is sized for (commit_prepared_batch).                 *)
RetainedStateBounded ==
    /\ Cardinality(committed) <= MaxInvocations
    /\ Cardinality(Unfinalized) <= MaxCommitEntries
-----------------------------------------------------------------------------
(* The inductive invariant behind the theorems of AtomicDecisionsProofs.   *)

CursorsOrdered ==
    /\ finalized_through <= last_commit_cursor
    /\ last_commit_cursor <= log_index
    /\ executor # None => executor.nomination_log_index <= log_index
    /\ preparing_batch # None =>
         last_commit_cursor < preparing_batch.begin_cursor
    /\ \A h \in history :
         /\ h.commit_cursor <= last_commit_cursor
         /\ executor # None
         /\ h.nomination_log_index <= executor.nomination_log_index

PrunedOnlyWhenSafe ==
    /\ committed \subseteq history
    /\ \A h \in history \ committed :
         h.commit_cursor <= finalized_through /\ h.expires <= horizon

PreparedIsNew ==
    preparing_batch # None =>
        \A c \in committed : c.invocation_id # preparing_batch.invocation_id

IInv ==
    /\ TypeOK
    /\ PreparedHeldByExecutor
    /\ CursorsOrdered
    /\ PrunedOnlyWhenSafe
    /\ PreparedIsNew
    /\ AtMostOncePerWindow
    /\ SerialFencedDecisions
=============================================================================
