----------------------------- MODULE Finalizer ------------------------------
(***************************************************************************)
(* The finalization pipeline: marshal hands finalized blocks to            *)
(* FinalizedReporter, which spawns one task per block; the tasks take      *)
(* finalize_lock one at a time, re-execute the block, persist at checkpoint*)
(* heights and acknowledge (crates/node/reporters/src/lib.rs).  Block      *)
(* verification keeps inserting snapshots into the same ledger meanwhile.  *)
(***************************************************************************)
EXTENDS Ledger

CONSTANTS
    Fin,                 \* the Persister that runs finalize_block's persist task
    CheckpointInterval,  \* checkpoint_interval
    MaxPendingAcks,      \* marshal: blocks dispatched and not yet acknowledged
    MaxAttempts,         \* MAX_FINALIZATION_ATTEMPTS
    MaxFailures          \* bound: transient failures of the environment

ASSUME FinalizerConstants ==
    /\ Persister = {Fin}
    /\ CheckpointInterval \in Nat \ {0}
    /\ MaxPendingAcks \in Nat \ {0}
    /\ MaxAttempts \in Nat \ {0}
    /\ MaxFailures \in Nat

VARIABLES
    reported,   \* blocks handed to the reporter, in order (marshal: chain order)
    waiting,    \* spawned report tasks that do not hold finalize_lock yet
    cur,        \* the task that holds finalize_lock
    deferred,   \* pending_acks
    acked,      \* acknowledgements, in the order they were given
    halted,     \* the process aborted
    failures,
    ordered     \* history: finalize_lock was always taken by the oldest task

finVars == <<reported, waiting, cur, deferred, acked, halted, failures, ordered>>
allVars == <<vars, finVars>>

NoTask == [pc |-> "idle", block |-> Genesis, attempt |-> 0, exists |-> FALSE,
           overlay |-> {}, view |-> {}]

FinInit ==
    /\ Init
    /\ reported = <<>>
    /\ waiting = {}
    /\ cur = NoTask
    /\ deferred = <<>>
    /\ acked = <<>>
    /\ halted = FALSE
    /\ failures = 0
    /\ ordered = TRUE

IsCheckpoint(b) == Height(b) % CheckpointInterval = 0

-----------------------------------------------------------------------------
\* marshal (external) dispatches finalized blocks in chain order, and stops
\* when too many are unacknowledged; report() spawns a task for each.
Report(b) ==
    /\ ~ halted
    /\ Len(reported) - Len(acked) < MaxPendingAcks
    /\ b \in Finalized /\ Height(b) = Height(Checkpoint) + Len(reported) + 1
    /\ reported' = Append(reported, b)
    /\ waiting' = waiting \cup {b}
    /\ UNCHANGED <<vars, cur, deferred, acked, halted, failures, ordered>>

\* The runtime polled the tasks in the order they were spawned, so far.
OldestFirst(b) == \A c \in waiting : Height(b) <= Height(c)

\* A spawned task takes finalize_lock.
TakeLock(b) ==
    /\ ~ halted
    /\ cur.pc = "idle"
    /\ b \in waiting
    /\ waiting' = waiting \ {b}
    /\ cur' = [NoTask EXCEPT !.pc = "start", !.block = b]
    /\ ordered' = (ordered /\ OldestFirst(b))
    /\ UNCHANGED <<vars, reported, deferred, acked, halted, failures>>

\* finalize_block: look for the block's and the parent's snapshots.
Lookup ==
    /\ cur.pc = "start"
    /\ LET exists == cur.block \in stored
           parent == Parent[cur.block]
       IN cur' = [cur EXCEPT
                    !.exists = exists,
                    !.overlay = IF parent \in stored THEN overlay[parent] ELSE {},
                    !.pc = IF parent \in stored THEN "exec"
                           ELSE IF exists THEN "persist" ELSE "parent"]
    /\ UNCHANGED <<vars, reported, waiting, deferred, acked, halted, failures, ordered>>

\* One of the three delayed lookups finds the parent's snapshot.
ParentAppears ==
    /\ cur.pc = "parent"
    /\ Parent[cur.block] \in stored
    /\ cur' = [cur EXCEPT !.pc = "exec", !.overlay = overlay[Parent[cur.block]]]
    /\ UNCHANGED <<vars, reported, waiting, deferred, acked, halted, failures, ordered>>

\* The last of them does not.
ParentMissing ==
    /\ cur.pc = "parent"
    /\ Parent[cur.block] \notin stored
    /\ cur' = [cur EXCEPT !.pc = "trust"]
    /\ UNCHANGED <<vars, reported, waiting, deferred, acked, halted, failures, ordered>>

\* The block is restored as persisted, whatever was cached since that lookup.
RestoreTrusted ==
    /\ cur.pc = "trust"
    /\ RestorePersistedSnapshot(cur.block)
    /\ cur' = [cur EXCEPT !.pc = "persist"]
    /\ UNCHANGED <<exec, reported, waiting, deferred, acked, halted, failures, ordered>>

\* Mutant: the block is executed over QMDB and not over the parent's snapshot.
Reexecute_OverQmdb ==
    /\ cur.pc = "exec"
    /\ cur' = [cur EXCEPT !.pc = "root", !.view = qmdb]
    /\ UNCHANGED <<vars, reported, waiting, deferred, acked, halted, failures, ordered>>

Reexecute ==
    /\ cur.pc = "exec"
    /\ cur' = [cur EXCEPT !.pc = "root", !.view = cur.overlay \cup qmdb]
    /\ UNCHANGED <<vars, reported, waiting, deferred, acked, halted, failures, ordered>>

\* merge_changes: the parent's overlay and the block's changes.
NextOverlay == cur.overlay \cup {cur.block}

\* The root matches; a snapshot is inserted if there was none.
AcceptRoot ==
    /\ cur.pc = "root"
    /\ RootMatches(cur)
    /\ cur' = [cur EXCEPT !.pc = "persist"]
    /\ IF cur.exists THEN UNCHANGED <<stored, overlay, changes, head>>
       ELSE Insert(cur.block, NextOverlay, {cur.block})
    /\ UNCHANGED <<persisted, persisting, order, qmdb, exec, job>>
    /\ UNCHANGED <<reported, waiting, deferred, acked, halted, failures, ordered>>

\* The process aborts, without an acknowledgement.
Abort == halted' = TRUE /\ cur' = NoTask

\* StateRootMismatch is not retryable: the process aborts.
RejectRoot ==
    /\ cur.pc = "root"
    /\ Parent[cur.block] \in stored
    /\ ~ RootMatches(cur)
    /\ Abort
    /\ UNCHANGED <<vars, reported, waiting, deferred, acked, failures, ordered>>

\* Mutant: one attempt too few.
AttemptsLeft_OneLess == cur.attempt + 2 < MaxAttempts

AttemptsLeft == cur.attempt + 1 < MaxAttempts

\* Mutant: the attempts are counted down.
NextAttempt_Down == cur.attempt - 1

NextAttempt == cur.attempt + 1

\* finalize_with_retry: the next attempt, or abort after the last.
Retry ==
    IF AttemptsLeft
    THEN /\ cur' = [NoTask EXCEPT !.pc = "start", !.block = cur.block, !.attempt = NextAttempt]
         /\ UNCHANGED halted
    ELSE Abort

\* ExecutionFailed.  (RootComputationFailed cannot happen here: only
\* persist_snapshot evicts, and finalize_lock is held.)
ExecutionFails ==
    /\ cur.pc = "exec"
    /\ failures < MaxFailures
    /\ failures' = failures + 1
    /\ Retry
    /\ UNCHANGED <<vars, reported, waiting, deferred, acked, ordered>>

\* Not a checkpoint, or persist_snapshot has nothing to do.
SkipPersist ==
    /\ cur.pc = "persist"
    /\ ~ IsCheckpoint(cur.block) \/ Walk(cur.block) = {}
    /\ cur' = [cur EXCEPT !.pc = "ack"]
    /\ UNCHANGED <<vars, reported, waiting, deferred, acked, halted, failures, ordered>>

\* changes_for_persist finds the whole chain: WalkNeverMissesSnapshot.
StartPersist ==
    /\ cur.pc = "persist"
    /\ IsCheckpoint(cur.block)
    /\ BeginPersist(Fin, cur.block)
    /\ cur' = [cur EXCEPT !.pc = "persisting"]
    /\ UNCHANGED <<reported, waiting, deferred, acked, halted, failures, ordered>>

\* qmdb.commit_changes succeeds, or fails.
PersistCommits ==
    /\ Commit(Fin)
    /\ UNCHANGED finVars

PersistCommitFails ==
    /\ failures < MaxFailures
    /\ CommitFails(Fin)
    /\ failures' = failures + 1
    /\ UNCHANGED <<reported, waiting, cur, deferred, acked, halted, ordered>>

PersistSucceeds ==
    /\ FinishPersist(Fin)
    /\ cur' = [cur EXCEPT !.pc = "ack"]
    /\ UNCHANGED <<reported, waiting, deferred, acked, halted, failures, ordered>>

PersistFails ==
    /\ AbandonPersist(Fin)
    /\ Retry
    /\ UNCHANGED <<reported, waiting, deferred, acked, failures, ordered>>

\* Mutants: the checkpoint is acknowledged before the blocks below it; every
\* block is acknowledged at once; the deferred acknowledgements are dropped.
Given_CheckpointFirst == IF IsCheckpoint(cur.block) THEN Append(acked, cur.block) \o deferred ELSE acked
Given_AtOnce == Append(acked, cur.block)
Given_DropsDeferred == IF IsCheckpoint(cur.block) THEN Append(acked, cur.block) ELSE acked

\* acknowledge_checkpoint: all the deferred acknowledgements and this one at a
\* checkpoint, none otherwise.
Given == IF IsCheckpoint(cur.block) THEN Append(acked \o deferred, cur.block) ELSE acked

\* Mutant: the list is not drained.
Deferred_Kept == IF IsCheckpoint(cur.block) THEN deferred ELSE Append(deferred, cur.block)

Deferred == IF IsCheckpoint(cur.block) THEN <<>> ELSE Append(deferred, cur.block)

\* The acknowledgements are given and the lock is released.
Acknowledge ==
    /\ cur.pc = "ack"
    /\ acked' = Given
    /\ deferred' = Deferred
    /\ cur' = NoTask
    /\ UNCHANGED <<vars, reported, waiting, halted, failures, ordered>>

\* Verification of the next blocks, by the consensus application.
VerifierStep(w) == ~ halted /\ WorkerStep(w) /\ UNCHANGED finVars

-----------------------------------------------------------------------------
TaskStep ==
    \/ Lookup \/ ParentAppears \/ ParentMissing \/ RestoreTrusted
    \/ Reexecute \/ AcceptRoot \/ RejectRoot \/ ExecutionFails
    \/ SkipPersist \/ StartPersist
    \/ PersistCommits \/ PersistCommitFails \/ PersistSucceeds \/ PersistFails
    \/ Acknowledge

FinNext ==
    \/ \E b \in Block : Report(b)
    \/ \E b \in Block : TakeLock(b)
    \/ TaskStep
    \/ \E w \in Worker : VerifierStep(w)

\* marshal keeps dispatching, the runtime keeps polling runnable tasks; it may
\* poll them in any order.
Fairness ==
    /\ WF_allVars(\E b \in Block : Report(b))
    /\ WF_allVars(\E b \in Block : TakeLock(b))
    /\ WF_allVars(TaskStep)

FinSpec == FinInit /\ [][FinNext]_allVars /\ Fairness

-----------------------------------------------------------------------------
(* Properties                                                              *)

\* Every variable of the pipeline has its type.
FinTypeOK ==
    /\ reported \in Seq(Finalized)
    /\ waiting \subseteq Finalized
    /\ cur \in [pc : {"idle", "start", "parent", "trust", "exec", "root", "persist",
                      "persisting", "ack"},
                block : Finalized, attempt : 0..(MaxAttempts - 1), exists : BOOLEAN,
                overlay : SUBSET Block, view : SUBSET Block]
    /\ deferred \in Seq(Finalized) /\ acked \in Seq(Finalized)
    /\ halted \in BOOLEAN
    /\ failures \in 0..MaxFailures
    /\ ordered \in BOOLEAN

\* While the tasks get finalize_lock in the order they were spawned, marshal's
\* acknowledgements advance in chain order, whatever is deferred and retried.
AcksInChainOrder ==
    ordered => \A i, j \in DOMAIN acked : i < j => Height(acked[i]) < Height(acked[j])

\* An acknowledgement "tells the marshal that all blocks up through this
\* checkpoint are durably persisted" (acknowledge_checkpoint): marshal may
\* forget what it has been acknowledged.
AckedIsDurable == Range(acked) \subseteq qmdb

\* That holds while the tasks get the lock in order.
AckedInOrderIsDurable == ordered => AckedIsDurable

\* Fewer transient failures than attempts never stop an ordered pipeline, and a
\* retry after a failed commit never sees a mismatching root: nothing halts.
RetriesAbsorbFailures == (ordered /\ failures < MaxAttempts) => ~ halted

\* Re-execution on the finalization path reads exactly the parent's state while
\* blocks are finalized in order, even as later blocks are being verified and
\* earlier ones compacted.
ReexecutionSeesParentState ==
    (ordered /\ cur.pc = "root") => cur.view = Anc(Parent[cur.block])

\* No acknowledgement is lost or given twice, in whatever order the tasks get the
\* lock: a reported block is in exactly one stage of the pipeline.
AcksConserved ==
    ~ halted =>
        LET held == IF cur.pc = "idle" THEN <<>> ELSE <<cur.block>>
            past == acked \o deferred \o held
        IN /\ Range(reported) = Range(past) \cup waiting
           /\ Len(reported) = Len(past) + Cardinality(waiting)

\* Every block marshal reports is acknowledged, at the next checkpoint, unless
\* the tasks overtake one another or the process aborts.
EveryReportAcknowledged ==
    \A b \in Finalized :
        (b \in Range(reported)) ~> (b \in Range(acked) \/ halted \/ ~ ordered)
=============================================================================
