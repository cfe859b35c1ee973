---------------------------- MODULE ArchiveProofs ---------------------------
(***************************************************************************)
(* CleanIsDurable for every chain length, checkpoint interval and order of *)
(* arrival.  With the types it is inductive: a put makes its height the    *)
(* dirty bound or stays below it, a sync that is skipped leaves the bound  *)
(* alone, and one that reaches the disk makes disk and memory equal.       *)
(***************************************************************************)
EXTENDS CheckpointedArchive, TLAPS

ArchiveInv == ArchiveTypeOK /\ CleanIsDurable

\* The empty archive is clean.
LEMMA ArchiveInitInv == ArchiveInit => ArchiveInv
BY ArchiveConstants DEF ArchiveInit, ArchiveInv, ArchiveTypeOK, CleanIsDurable, ArchiveHeights

\* Storing a block, in whatever order, keeps it below the dirty bound.
LEMMA PutInv ==
    ASSUME ArchiveInv, NEW h \in ArchiveHeights, Put(h)
    PROVE  ArchiveInv'
<1> USE ArchiveConstants DEF ArchiveInv, Put, MarkDirty, ArchiveHeights
<1>1. ArchiveTypeOK'
  BY DEF ArchiveTypeOK
<1>2. CleanIsDurable'
  BY DEF ArchiveTypeOK, CleanIsDurable
<1> QED BY <1>1, <1>2

\* A sync call is skipped or flushes everything.
LEMMA SyncInv ==
    ASSUME ArchiveInv, Sync
    PROVE  ArchiveInv'
<1> USE ArchiveConstants DEF ArchiveInv, ArchiveTypeOK, CleanIsDurable, ArchiveHeights
<1>1. CASE ShouldSync
  <2>1. mem' = mem /\ disk' = mem /\ dirty' = 0 /\ floor' = floor /\ next' = "put" /\ arrival' = arrival
    BY <1>1, Zenon DEF Sync
  <2> QED BY <2>1
<1>2. CASE ~ ShouldSync
  <2>1. mem' = mem /\ disk' = disk /\ dirty' = dirty /\ floor' = floor /\ next' = "put" /\ arrival' = arrival
    BY <1>2, Zenon DEF Sync
  <2> QED BY <2>1
<1> QED BY <1>1, <1>2

\* Pruning removes the same heights from memory and disk.
LEMMA PruneInv ==
    ASSUME ArchiveInv, NEW h \in ArchiveHeights, Prune(h)
    PROVE  ArchiveInv'
<1> USE ArchiveConstants DEF ArchiveInv, Prune, ArchiveHeights
<1>1. ArchiveTypeOK'
  <2>1. mem' \subseteq mem /\ disk' \subseteq disk
    BY Zenon
  <2>2. floor' = h /\ dirty' = dirty /\ next' = next /\ arrival' = arrival
    BY Zenon
  <2>3. h \in Nat \ {0}
    OBVIOUS
  <2> HIDE DEF Prune
  <2> QED BY <2>1, <2>2, <2>3 DEF ArchiveTypeOK
<1>2. CleanIsDurable'
  BY DEF ArchiveTypeOK, CleanIsDurable
<1> QED BY <1>1, <1>2

\* One step of the wrapper, or of the process that owns it.
LEMMA ArchiveNextInv == ArchiveInv /\ [ArchiveNext]_archiveVars => ArchiveInv'
<1> SUFFICES ASSUME ArchiveInv, [ArchiveNext]_archiveVars
             PROVE  ArchiveInv'
  OBVIOUS
<1>1. CASE \E h \in ArchiveHeights : Put(h)
  BY <1>1, PutInv
<1>2. CASE Sync
  BY <1>2, SyncInv
<1>3. CASE \E h \in ArchiveHeights : Prune(h)
  BY <1>3, PruneInv
<1>4. CASE CrashAndReopen
  BY <1>4, ArchiveConstants DEF CrashAndReopen, ArchiveInv, ArchiveTypeOK, CleanIsDurable, ArchiveHeights
<1>5. CASE UNCHANGED archiveVars
  BY <1>5 DEF archiveVars, ArchiveInv, ArchiveTypeOK, CleanIsDurable
<1> QED BY <1>1, <1>2, <1>3, <1>4, <1>5 DEF ArchiveNext

\* CheckpointedArchive never forgets an entry that is not on disk, in whatever
\* order put, sync, prune and crashes come.
THEOREM ArchiveNeverForgets == ArchiveSpec => []CleanIsDurable
<1>1. ArchiveSpec => []ArchiveInv
  BY ArchiveInitInv, ArchiveNextInv, PTL DEF ArchiveSpec
<1>2. ArchiveInv => CleanIsDurable
  BY DEF ArchiveInv
<1> QED BY <1>1, <1>2, PTL
=============================================================================
