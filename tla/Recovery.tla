------------------------------ MODULE Recovery ------------------------------
(***************************************************************************)
(* Crash and restart of a node: the finalization pipeline of Finalizer over*)
(* what survives a crash - the finalized block archive, QMDB, the commit   *)
(* marker and marshal's last acknowledged height - and the start-up        *)
(* procedure that rebuilds the ledger from them                            *)
(* (crates/node/runner/src/runner.rs and commit_marker.rs).                *)
(***************************************************************************)
EXTENDS Finalizer

CONSTANTS
    NoMarker,          \* there is no marker file
    PrepopulateCount,  \* SNAPSHOT_PREPOPULATE_COUNT
    MaxCrashes         \* bound: crashes of the process

ASSUME RecoveryConstants ==
    /\ Worker = {}
    /\ Checkpoint = Genesis
    /\ NoMarker \notin Block
    /\ PrepopulateCount \in Nat
    /\ MaxCrashes \in Nat

VARIABLES
    archive,   \* finalized blocks marshal has stored, as marshal sees them
    disk,      \* the part of the archive that is on disk
    marker,    \* last_committed_digest
    ackDisk,   \* acknowledgements recorded in marshal's application metadata
    events,    \* SnapshotPersisted events the ledger observer has not handled
    status,    \* "up", "down", or "refused" (start-up returned an error)
    crashes,
    markerless \* history: some start-up restored the archive head without a marker

recVars == <<archive, disk, marker, ackDisk, events, status, crashes, markerless>>
nodeVars == <<allVars, recVars>>

RecInit ==
    /\ FinInit
    /\ archive = {} /\ disk = {} /\ ackDisk = {}
    /\ marker = NoMarker
    /\ events = <<>>
    /\ status = "up"
    /\ crashes = 0
    /\ markerless = FALSE

Up == status = "up" /\ ~ halted

\* The last finalized block of a set of blocks.
Last(S) == CHOOSE b \in S : \A c \in S : Height(c) <= Height(b)

-----------------------------------------------------------------------------
(* The running node.                                                       *)

\* Mutant: the first boundary is synced one block late.
Synced_Late(b) == Height(b) > CheckpointInterval

\* Stored in order, the archive is synced from the first checkpoint boundary on
\* (CheckpointedArchive!ShouldSync).
Synced(b) == Height(b) >= CheckpointInterval

\* marshal stores the next finalized block.
StoreFinalized(b) ==
    /\ Up
    /\ b \in Finalized \ (archive \cup {Genesis})
    /\ Height(b) = Cardinality(archive) + 1
    /\ archive' = archive \cup {b}
    /\ disk' = IF Synced(b) THEN archive' ELSE disk
    /\ UNCHANGED <<allVars, marker, ackDisk, events, status, crashes, markerless>>

\* marshal hands an archived block to the reporter.
Dispatch(b) ==
    /\ Up
    /\ b \in archive
    /\ Report(b)
    /\ UNCHANGED recVars

\* A step of the pipeline, its tasks polled in the order they were spawned.
Finalize ==
    /\ Up
    /\ \/ \E b \in Block : OldestFirst(b) /\ TakeLock(b)
       \/ Lookup \/ ParentMissing \/ RestoreTrusted \/ Reexecute \/ AcceptRoot \/ RejectRoot
       \/ SkipPersist \/ StartPersist \/ PersistCommits \/ Acknowledge
    /\ UNCHANGED recVars

\* A new commit publishes SnapshotPersisted.
PublishPersisted ==
    /\ Up
    /\ PersistSucceeds
    /\ events' = Append(events, job[Fin].tip)
    /\ UNCHANGED <<archive, disk, marker, ackDisk, status, crashes, markerless>>

\* spawn_ledger_observers writes the marker, later; a failed write is logged.
WriteMarker ==
    /\ Up
    /\ events # <<>>
    /\ events' = Tail(events)
    /\ marker' = Head(events)
    /\ UNCHANGED <<allVars, archive, disk, ackDisk, status, crashes, markerless>>

WriteMarkerFails ==
    /\ Up
    /\ events # <<>>
    /\ failures < MaxFailures
    /\ failures' = failures + 1
    /\ events' = Tail(events)
    /\ UNCHANGED <<vars, reported, waiting, cur, deferred, acked, halted, ordered>>
    /\ UNCHANGED <<archive, disk, marker, ackDisk, status, crashes, markerless>>

\* marshal (external) records the acknowledged height on disk.
RecordAcks ==
    /\ Up
    /\ ackDisk # Range(acked)
    /\ ackDisk' = Range(acked)
    /\ UNCHANGED <<allVars, archive, disk, marker, events, status, crashes, markerless>>

\* The process dies, also by its own abort.
Crash ==
    /\ crashes < MaxCrashes
    /\ status = "up"
    /\ crashes' = crashes + 1
    /\ status' = "down"
    /\ UNCHANGED <<allVars, archive, disk, marker, ackDisk, events, markerless>>

-----------------------------------------------------------------------------
(* Start-up: recover_finalized_state and prepopulate_snapshot_cache.       *)

\* The ledger just opened has the genesis snapshot; its root is read from QMDB,
\* so once QMDB has moved no block has that snapshot for a parent.
Opened == IF qmdb = {Genesis} THEN {Genesis} ELSE {}

\* Mutant: the replayed tail is marked persisted like the restored blocks.
PersistedAtStart_Tail(restored, tail) == Opened \cup restored \cup tail

PersistedAtStart(restored, tail) == Opened \cup restored

\* The ledger after start-up: the blocks of `restored` over the bare QMDB, the
\* blocks of `tail` replayed on top of them.
LedgerAfterStart(restored, tail) ==
    /\ stored' = Opened \cup restored \cup tail
    /\ overlay' = [b \in Block |-> IF b \in tail THEN tail \cap Anc(b) ELSE {}]
    /\ changes' = [b \in Block |-> IF b \in tail THEN {b} ELSE {}]
    /\ persisted' = PersistedAtStart(restored, tail)
    /\ order' = SelectSeq(Path[Last(Finalized)], LAMBDA b : b \in persisted')
    /\ head' = IF tail # {} THEN Last(tail)
               ELSE IF restored = {} THEN Genesis
               ELSE LET below == restored \ {Last(restored)}
                    IN IF below = {} THEN Last(restored) ELSE Last(below)
    /\ persisting' = {}
    /\ job' = [p \in Persister |-> NoJob]
    /\ UNCHANGED <<qmdb, exec>>

\* marshal resumes after the last acknowledged height on disk.
PipelineAfterStart ==
    LET past == SelectSeq(Path[Last(Finalized)], LAMBDA b : b \in ackDisk) IN
    /\ reported' = past /\ acked' = past
    /\ waiting' = {} /\ cur' = NoTask /\ deferred' = <<>>
    /\ halted' = FALSE
    /\ UNCHANGED <<failures, ordered>>

\* prepopulate_snapshot_cache, when no tail was replayed: the loop starts
\* PrepopulateCount blocks below the head and stops at the first height the
\* archive does not have, which genesis is.
Prepopulated(b) ==
    IF Height(b) > PrepopulateCount
    THEN {c \in disk : Height(c) >= Height(b) - PrepopulateCount}
    ELSE {b}

Start(restored, tail) ==
    /\ status = "down"
    /\ LedgerAfterStart(restored, tail)
    /\ PipelineAfterStart
    /\ status' = "up"
    /\ archive' = disk
    /\ events' = <<>>
    /\ UNCHANGED <<disk, marker, ackDisk, crashes>>

StartFresh ==
    /\ disk = {}
    /\ Start({}, {})
    /\ UNCHANGED markerless

\* The marker names an archived block: restore it, replay the rest.
TailOf(m) == {b \in disk : Height(b) > Height(m)}

\* Mutant: the replayed root is not compared with the block's.
ReplayMatches_NotCompared(m) == TRUE

\* The tail's first replayed root matches iff QMDB is exactly at the marker.
ReplayMatches(m) == qmdb = Anc(m)

StartFromMarker ==
    /\ marker \in disk
    /\ IF TailOf(marker) = {}
       THEN Start(Prepopulated(marker), {})
       ELSE ReplayMatches(marker) /\ Start({marker}, TailOf(marker))
    /\ UNCHANGED markerless

\* No marker: the archive head is restored as the state of QMDB.
StartWithoutMarker ==
    /\ disk # {}
    /\ marker = NoMarker
    /\ Start(Prepopulated(Last(disk)), {})
    /\ markerless' = TRUE

\* Mutant: the error leaves the process half started.
Refused_HalfStarted == status' = "starting"

Refused == status' = "refused"

\* "replayed root mismatch": start-up fails.
RefuseMismatch ==
    /\ status = "down"
    /\ marker \in disk
    /\ TailOf(marker) # {}
    /\ ~ ReplayMatches(marker)
    /\ Refused
    /\ UNCHANGED <<allVars, archive, disk, marker, ackDisk, events, crashes, markerless>>

Restart == StartFresh \/ StartFromMarker \/ StartWithoutMarker \/ RefuseMismatch

RecNext ==
    \/ \E b \in Block : StoreFinalized(b)
    \/ \E b \in Block : Dispatch(b)
    \/ Finalize
    \/ PublishPersisted
    \/ WriteMarker
    \/ WriteMarkerFails
    \/ RecordAcks
    \/ Crash
    \/ Restart

RecSpec == RecInit /\ [][RecNext]_nodeVars

-----------------------------------------------------------------------------
(* Properties                                                              *)

\* Every variable that recovery adds has its type.
RecTypeOK ==
    /\ disk \subseteq Finalized /\ archive \subseteq Finalized
    /\ marker \in Finalized \cup {NoMarker}
    /\ ackDisk \subseteq Finalized
    /\ events \in Seq(Finalized)
    /\ status \in {"up", "down", "refused"}
    /\ crashes \in 0..MaxCrashes
    /\ markerless \in BOOLEAN

\* As long as every start-up found a marker, marshal on disk never counts as
\* processed a block whose changes QMDB does not have: what it will not redeliver
\* is not lost.
NothingAcknowledgedIsLost == markerless \/ ackDisk \subseteq qmdb

\* The marker never runs ahead of QMDB and always names an archived block: the
\* "commit marker does not match any archived block" refusal cannot happen.
MarkerIsCommittedAndArchived ==
    marker # NoMarker => marker \in qmdb /\ marker \in disk

\* As long as every start-up found a marker, every snapshot still to be persisted
\* shows exactly the state of its block, except between a commit and its
\* compaction: a marker that lags behind QMDB is refused by the replay, and its
\* blocks are never served on a state that already contains them.
ReplayedStateIsCorrect ==
    (Up /\ ~ markerless /\ job[Fin].pc # "committed") =>
        \A b \in stored \ persisted : View(b) = Anc(b)

\* "on restart, nodes replay any archive tail after the last checkpoint"
\* (docker/README.md): start-up never refuses its own durable state.
RestartReplaysTail == status # "refused"

\* "No commit marker at all -- fresh node or upgrade from a pre-marker build.
\* Safe to trust the archive head" (restore_checkpoint_and_replay_tail): a head
\* restored as persisted without a marker is in QMDB.
TrustedHeadIsCorrect ==
    (Up /\ markerless /\ Last(disk) \in persisted) => Last(disk) \in qmdb
=============================================================================
