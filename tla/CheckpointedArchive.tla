------------------------- MODULE CheckpointedArchive ------------------------
(***************************************************************************)
(* The wrapper that batches the fsyncs of the finalized block and          *)
(* certificate archives (crates/network/marshal/src/archive.rs).  marshal  *)
(* stores finalized blocks in whatever order they arrive - gaps are        *)
(* repaired later - and asks for a sync after each of them; the wrapper    *)
(* decides whether the sync reaches the disk.  Heights stand for entries.  *)
(***************************************************************************)
EXTENDS Integers, FiniteSetsExt

CONSTANTS
    MaxHeight,           \* bound: heights of the chain
    CheckpointInterval   \* checkpoint_interval, 0 already clamped to 1

ASSUME ArchiveConstants ==
    /\ MaxHeight \in Nat
    /\ CheckpointInterval \in Nat \ {0}

VARIABLES
    mem,       \* heights the archive answers for
    disk,      \* heights that survive a crash
    dirty,     \* highest_dirty, 0 for None
    floor,     \* lowest height not pruned
    next,      \* the call marshal makes next: every put is followed by a sync
    arrival    \* history: "tip" while every put came after that of the height below

archiveVars == <<mem, disk, dirty, floor, next, arrival>>

ArchiveHeights == 1..MaxHeight

ArchiveInit ==
    /\ mem = {} /\ disk = {}
    /\ dirty = 0
    /\ floor = 1
    /\ next = "put"
    /\ arrival = "tip"

\* is_contiguous_through: the first range may start anywhere up to the target.
IsContiguousThrough(target) ==
    mem # {} /\ Min(mem) <= target /\ Min(mem)..target \subseteq mem

\* Mutant: the boundary itself does not count as reached.
ShouldSync_OffByOne ==
    /\ dirty # 0
    /\ LET boundary == ((dirty - 1) \div CheckpointInterval) * CheckpointInterval
       IN boundary > 0 /\ IsContiguousThrough(boundary)

ShouldSync ==
    /\ dirty # 0
    /\ IF CheckpointInterval = 1
       THEN IsContiguousThrough(dirty)
       ELSE LET boundary == (dirty \div CheckpointInterval) * CheckpointInterval
            IN boundary > 0 /\ IsContiguousThrough(boundary)

\* Mutants: the last height instead of the highest; one past the height.
MarkDirty_Last(h) == h
MarkDirty_Past(h) == h + 1

\* mark_dirty: the new highest_dirty.
MarkDirty(h) == IF h > dirty THEN h ELSE dirty

Put(h) ==
    /\ next = "put"
    /\ h >= floor /\ h \notin mem
    /\ mem' = mem \cup {h}
    /\ dirty' = MarkDirty(h)
    /\ next' = "sync"
    /\ arrival' = IF h = floor \/ h - 1 \in mem THEN arrival ELSE "gaps"
    /\ UNCHANGED <<disk, floor>>

Sync ==
    /\ next = "sync"
    /\ next' = "put"
    /\ IF ShouldSync
       THEN disk' = mem /\ dirty' = 0
       ELSE UNCHANGED <<disk, dirty>>
    /\ UNCHANGED <<mem, floor, arrival>>

\* marshal prunes entries below what the application has processed, in order.
Prune(min) ==
    /\ next = "put"
    /\ min > floor
    /\ floor..min \subseteq mem
    /\ floor' = min
    /\ mem' = {h \in mem : h >= min}
    /\ disk' = {h \in disk : h >= min}
    /\ UNCHANGED <<dirty, next, arrival>>

\* The process dies; the next one wraps the archive it finds on disk.
CrashAndReopen ==
    /\ mem' = disk
    /\ dirty' = 0
    /\ next' = "put"
    /\ UNCHANGED <<disk, floor, arrival>>

ArchiveNext ==
    \/ \E h \in ArchiveHeights : Put(h)
    \/ Sync
    \/ \E h \in ArchiveHeights : Prune(h)
    \/ CrashAndReopen

ArchiveSpec == ArchiveInit /\ [][ArchiveNext]_archiveVars

-----------------------------------------------------------------------------
(* Properties                                                              *)

\* Every variable of the archive wrapper has its type.
ArchiveTypeOK ==
    /\ mem \subseteq ArchiveHeights
    /\ disk \subseteq ArchiveHeights
    /\ dirty \in 0..MaxHeight
    /\ floor \in Nat \ {0}
    /\ next \in {"put", "sync"}
    /\ arrival \in {"tip", "gaps"}

\* The wrapper never forgets an unsynced entry: while it considers itself clean,
\* everything it answers for is on disk, across skipped syncs, prunes and
\* reopenings; and the disk never holds an entry it does not answer for.
CleanIsDurable ==
    /\ dirty = 0 => mem = disk
    /\ disk \subseteq mem
    /\ \A h \in mem \ disk : h <= dirty

\* A checkpoint's acknowledgement says that the archive "has been fsynced" up
\* through it (acknowledge_checkpoint): once every height up to a boundary is
\* archived, and so may be dispatched and persisted, all of them are on disk.
CheckpointIsArchived ==
    \A b \in ArchiveHeights :
        (next = "put" /\ b % CheckpointInterval = 0 /\ floor <= b /\ floor..b \subseteq mem)
            => floor..b \subseteq disk

\* A node that follows the tip, storing each finalized block after its parent,
\* has every complete checkpoint on disk, across prunes and crashes.
TipCheckpointIsArchived == arrival = "tip" => CheckpointIsArchived
=============================================================================
